----------------------- MODULE ComponentRegistryProofs -----------------------
(***************************************************************************)
(* Proofs about the component registry.  What needs no assumption on the   *)
(* tasks is that the cached order is never stale.  That no instance is     *)
(* lost needs tasks that keep off each other's component; the order of     *)
(* starts and stops and the drain need the use that ManagedRuntime makes   *)
(* of the registry: one task that operates it, one that reloads.           *)
(***************************************************************************)
EXTENDS ComponentRegistry, FiniteSetTheorems, SequenceTheorems, TLAPS

(* The states of a component (ComponentState), and what the tasks do.      *)
States == Done \cup {"Pending", "Initializing", "Failed", "Absent"}
Lifecycle == {"init", "start", "stop"}
Changes == {"register", "unregister"}

(* Types of what the five maps hold.                                       *)
RegistryOK ==
    /\ factories \subseteq Names /\ described \subseteq Names
    /\ deps \in [Names -> SUBSET Names]
    /\ instances \in [Names -> Nat]
    /\ state \in [Names -> States]
    /\ topo = None \/ topo \in Seq(Names)
    /\ serving \in SUBSET Nat /\ handed \in SUBSET Nat /\ rebuilt \in SUBSET Nat
    /\ built \in Nat /\ ops \in Nat

Steps == {"idle", "describe", "pend", "stale", "next", "take", "call",
          "check", "pre", "start", "swap", "running", "post"}

(* Types of what the tasks hold.                                           *)
TasksOK ==
    /\ pc \in [Tasks -> Steps]
    /\ op \in [Tasks -> {"none", "reload"} \cup Changes \cup Lifecycle]
    /\ todo \in [Tasks -> Seq(Names)]
    /\ held \in [Tasks -> Nat] /\ fresh \in [Tasks -> Nat]
    /\ result \in [Tasks -> {"ok", "err"}]

(* A task takes the steps of its operation, on a component.                *)
Fits(step, o, names) ==
    /\ step \in {"describe", "pend", "stale"} => o \in Changes
    /\ step \in {"next", "take", "call"} => o \in Lifecycle
    /\ step \in {"check", "pre", "start", "swap", "running", "post"} => o = "reload"
    /\ step \notin {"idle", "next"} => names # <<>>

StepsOK ==
    /\ \A t \in Tasks : Fits(pc[t], op[t], todo[t])
    /\ \A t \in Reloaders : op[t] \in {"none", "reload"}
    /\ \A t \in Operators : op[t] # "reload"

(* The type invariant of the registry and its tasks.                       *)
TypeOK == RegistryOK /\ TasksOK /\ StepsOK

-----------------------------------------------------------------------------
(* Orders *)

(* An order of the descriptors lists each of them, and only them.          *)
LEMMA OrdersAreSequences ==
    ASSUME TypeOK
    PROVE  \A order \in Orders : /\ order \in Seq(Names) /\ order \in Seq(described)
                                 /\ Follows(order, deps)
                                 /\ \A n \in described : \E i \in DOMAIN order :
                                          order[i] = n
  <1>1. IsFiniteSet(described)
    BY NamesAssumption, FS_Subset DEF TypeOK, RegistryOK
  <1> DEFINE k == Cardinality(described)
  <1>2. k \in Nat
    BY <1>1, FS_CardinalityType
  <1> SUFFICES ASSUME NEW order \in Orders
               PROVE  /\ order \in Seq(Names) /\ order \in Seq(described)
                      /\ Follows(order, deps)
                      /\ \A n \in described : \E i \in DOMAIN order : order[i] = n
    OBVIOUS
  <1>3. /\ Follows(order, deps)
        /\ order \in [1..k -> described] /\ \A i, j \in 1..k : i # j => order[i] # order[j]
    BY DEF Orders, SetToSeqs
  <1>4. order \in Injection(1..k, described)
    BY <1>3 DEF Injection, IsInjective
  <1>5. IsFiniteSet(1..k) /\ Cardinality(1..k) = k
    BY <1>2, FS_Interval
  <1>6. order \in Surjection(1..k, described)
    BY <1>1, <1>4, <1>5, FS_Injection
  <1>7. \A n \in described : \E i \in DOMAIN order : order[i] = n
    BY <1>3, <1>6 DEF Surjection
  <1>8. order \in Seq(described) /\ order \in Seq(Names)
    <2>1. order \in [1..k -> Names]
      BY <1>3 DEF TypeOK, RegistryOK
    <2> QED
      BY <1>2, <1>3, <2>1, SeqDef
  <1> QED
    BY <1>3, <1>7, <1>8

(* stop_all goes through the order backwards.                              *)
LEMMA ReverseIs ==
    ASSUME NEW S, NEW s \in Seq(S)
    PROVE  /\ Reverse(s) \in Seq(S) /\ Len(Reverse(s)) = Len(s)
           /\ \A i \in 1..Len(s) : Reverse(s)[i] = s[Len(s) - i + 1]
           /\ \A i \in DOMAIN s : \E j \in DOMAIN Reverse(s) : j = Len(s) - i + 1 /\
                    Reverse(s)[j] = s[i]
  <1>1. Len(s) \in Nat /\ DOMAIN s = 1..Len(s)
    OBVIOUS
  <1>2. \A i \in 1..Len(s) : Len(s) - i + 1 \in 1..Len(s) /\
              Len(s) - (Len(s) - i + 1) + 1 = i
    BY <1>1
  <1>3. Reverse(s) = [i \in 1..Len(s) |-> s[Len(s) - i + 1]]
    BY DEF Reverse
  <1>4. Reverse(s) \in Seq(S) /\ Len(Reverse(s)) = Len(s)
    BY <1>1, <1>2, <1>3
  <1> QED
    BY <1>1, <1>2, <1>3, <1>4

-----------------------------------------------------------------------------
(* Tasks *)

(* A task operates or reloads, never both.                                 *)
LEMMA TheirTasks ==
    /\ \A t \in Operators : t \in Tasks /\ t \notin Reloaders
    /\ \A t \in Reloaders : t \in Tasks /\ t \notin Operators
  BY NamesAssumption DEF Tasks

(* A task that works on a component has its name.                          *)
LEMMA HeadOf ==
    ASSUME TypeOK, NEW t \in Tasks, pc[t] \notin {"idle", "next"}
    PROVE  /\ todo[t] # <<>> /\ Head(todo[t]) \in Names
           /\ held[t] \in Nat /\ fresh[t] \in Nat
  <1>1. todo[t] # <<>> /\ todo[t] \in Seq(Names)
    BY DEF TypeOK, TasksOK, StepsOK, Fits
  <1> QED
    BY <1>1 DEF TypeOK, TasksOK

(* A task goes on to a step that fits its operation.                       *)
LEMMA TaskMoves ==
    ASSUME TasksOK, StepsOK, NEW t \in Tasks,
           NEW step \in Steps, NEW o, NEW names \in Seq(Names),
           pc' = [pc EXCEPT ![t] = step], op' = [op EXCEPT ![t] = o],
           todo' = [todo EXCEPT ![t] = names], Fits(step, o, names),
           o \in {"none", "reload"} \cup Changes \cup Lifecycle,
           t \in Reloaders => o = "reload", t \in Operators => o # "reload",
           held' \in [Tasks -> Nat], fresh' \in [Tasks -> Nat],
           result' \in [Tasks -> {"ok", "err"}]
    PROVE  TasksOK' /\ StepsOK'
  <1>1. TasksOK'
    BY DEF TasksOK
  <1>2. \A u \in Tasks : /\ pc'[u] = IF u = t THEN step ELSE pc[u]
                         /\ op'[u] = IF u = t THEN o ELSE op[u]
                         /\ todo'[u] = IF u = t THEN names ELSE todo[u]
    BY DEF TasksOK
  <1>3. \A u \in Tasks : Fits(pc[u], op[u], todo[u])'
    BY <1>2 DEF StepsOK, Fits
  <1> QED
    BY <1>1, <1>2, <1>3, TheirTasks DEF StepsOK

(* The same for each of the bookkeeping operators.                         *)
LEMMA GoKeeps ==
    ASSUME TasksOK, StepsOK, NEW t \in Tasks, NEW step \in Steps, Go(t, step),
           op[t] # "none", Fits(step, op[t], todo[t])
    PROVE  TasksOK' /\ StepsOK'
  <1>1. op' = [op EXCEPT ![t] = op[t]] /\ todo' = [todo EXCEPT ![t] = todo[t]]
    BY DEF Go, TasksOK
  <1>2. todo[t] \in Seq(Names) /\ op[t] \in {"none", "reload"} \cup Changes \cup Lifecycle
    BY DEF TasksOK
  <1>3. (t \in Reloaders => op[t] = "reload") /\ (t \in Operators => op[t] # "reload")
    BY DEF StepsOK
  <1>4. held' \in [Tasks -> Nat] /\ fresh' \in [Tasks -> Nat] /\
              result' \in [Tasks -> {"ok", "err"}]
    BY DEF Go, TasksOK
  <1> QED
    BY <1>1, <1>2, <1>3, <1>4, TaskMoves DEF Go

LEMMA FailKeeps ==
    ASSUME TasksOK, StepsOK, NEW t \in Tasks, Fail(t), op[t] # "none"
    PROVE  TasksOK' /\ StepsOK'
  <1>1. op' = [op EXCEPT ![t] = op[t]] /\ todo' = [todo EXCEPT ![t] = todo[t]]
    BY DEF Fail, TasksOK
  <1>2. todo[t] \in Seq(Names) /\ op[t] \in {"none", "reload"} \cup Changes \cup Lifecycle
    BY DEF TasksOK
  <1>3. (t \in Reloaders => op[t] = "reload") /\ (t \in Operators => op[t] # "reload")
    BY DEF StepsOK
  <1>4. held' \in [Tasks -> Nat] /\ fresh' \in [Tasks -> Nat] /\
              result' \in [Tasks -> {"ok", "err"}]
    BY DEF Fail, TasksOK
  <1>5. Fits("idle", op[t], todo[t]) /\ "idle" \in Steps
    BY DEF Fits, Steps
  <1> QED
    BY <1>1, <1>2, <1>3, <1>4, <1>5, TaskMoves DEF Fail

LEMMA AdvanceKeeps ==
    ASSUME TasksOK, StepsOK, NEW t \in Tasks, NEW ok, Advance(t, ok),
           op[t] \in Lifecycle, todo[t] # <<>>
    PROVE  TasksOK' /\ StepsOK'
  <1>1. op' = [op EXCEPT ![t] = op[t]] /\ todo' = [todo EXCEPT ![t] = Tail(todo[t])]
    BY DEF Advance, NextName, TasksOK
  <1>2. Tail(todo[t]) \in Seq(Names) /\
              op[t] \in {"none", "reload"} \cup Changes \cup Lifecycle
    BY DEF TasksOK
  <1>3. (t \in Reloaders => op[t] = "reload") /\ (t \in Operators => op[t] # "reload")
    BY DEF StepsOK, Lifecycle
  <1>4. held' \in [Tasks -> Nat] /\ fresh' \in [Tasks -> Nat] /\
              result' \in [Tasks -> {"ok", "err"}]
    BY DEF Advance, TasksOK
  <1>5. Fits("next", op[t], Tail(todo[t])) /\ "next" \in Steps
    BY DEF Fits, Steps
  <1> QED
    BY <1>1, <1>2, <1>3, <1>4, <1>5, TaskMoves DEF Advance

LEMMA BeginKeeps ==
    ASSUME TasksOK, StepsOK, NEW t \in Tasks, NEW o, NEW step \in Steps, NEW names \in Seq(Names),
           NEW res \in {"ok", "err"}, Begin(t, o, step, names, res), Fits(step, o, names),
           o \in {"reload"} \cup Changes \cup Lifecycle,
           t \in Reloaders => o = "reload", t \in Operators => o # "reload"
    PROVE  TasksOK' /\ StepsOK'
  <1>1. held' \in [Tasks -> Nat] /\ fresh' \in [Tasks -> Nat] /\
              result' \in [Tasks -> {"ok", "err"}]
    BY DEF Begin, TasksOK
  <1> QED
    BY <1>1, TaskMoves DEF Begin

-----------------------------------------------------------------------------
(* No step leaves the types.                                               *)
LEMMA TypeStep == TypeOK /\ [Next]_vars => TypeOK'
  <1> SUFFICES ASSUME TypeOK, [Next]_vars PROVE TypeOK'
    OBVIOUS
  <1>t. TasksOK /\ StepsOK
    BY DEF TypeOK
  <1>1. ASSUME NEW t \in Operators, NEW n \in Names, BeginRegister(t, n) PROVE TypeOK'
    <2>1. RegistryOK'
      BY <1>1 DEF BeginRegister, CountOp, TypeOK, RegistryOK
    <2>2. PICK step \in {"idle", "describe"}, res \in {"ok", "err"} :
              Begin(t, "register", step, <<n>>, res)
      BY <1>1 DEF BeginRegister
    <2>3. <<n>> \in Seq(Names) /\ Fits(step, "register", <<n>>) /\ step \in Steps
      BY DEF Fits, Steps, Changes
    <2>4. TasksOK' /\ StepsOK'
      BY <1>t, <2>2, <2>3, TheirTasks, BeginKeeps DEF Changes
    <2> QED
      BY <2>1, <2>4 DEF TypeOK
  <1>2. ASSUME NEW t \in Operators, NEW n \in Names, BeginUnregister(t, n) PROVE TypeOK'
    <2>1. RegistryOK'
      BY <1>2 DEF BeginUnregister, CountOp, TypeOK, RegistryOK
    <2>2. PICK step \in {"idle", "describe"}, res \in {"ok", "err"} :
              Begin(t, "unregister", step, <<n>>, res)
      BY <1>2 DEF BeginUnregister
    <2>3. <<n>> \in Seq(Names) /\ Fits(step, "unregister", <<n>>) /\ step \in Steps
      BY DEF Fits, Steps, Changes
    <2>4. TasksOK' /\ StepsOK'
      BY <1>t, <2>2, <2>3, TheirTasks, BeginKeeps DEF Changes
    <2> QED
      BY <2>1, <2>4 DEF TypeOK
  <1>3. ASSUME NEW t \in Operators, NEW o \in {"init", "start", "stop"}, BeginAll(t, o) PROVE TypeOK'
    <2>a. \A order \in Orders : order \in Seq(Names)
      BY OrdersAreSequences
    <2>b. \A order \in Seq(Names) : Reverse(order) \in Seq(Names)
      BY ReverseIs
    <2>c. PICK names \in Seq(Names), step \in {"idle", "next"}, res \in {"ok", "err"} :
              Begin(t, o, step, names, res) /\ (topo' = topo \/ topo' \in Seq(Names))
      <3>1. CASE topo = None /\ (Dangling \/ Orders = {})
        <4>1. Begin(t, o, "idle", <<>>, "err") /\ topo' = topo
          BY <1>3, <3>1 DEF BeginAll
        <4>2. <<>> \in Seq(Names)
          OBVIOUS
        <4> QED
          BY <4>1, <4>2
      <3>2. CASE ~ (topo = None /\ (Dangling \/ Orders = {}))
        <4>1. PICK order \in IF topo = None THEN Orders ELSE {topo} :
                /\ topo' = order
                /\ Begin(t, o, "next", IF o = "stop" THEN Reverse(order) ELSE order, "ok")
          BY <1>3, <3>2 DEF BeginAll
        <4>2. order \in Seq(Names)
          BY <2>a DEF TypeOK, RegistryOK
        <4>3. (IF o = "stop" THEN Reverse(order) ELSE order) \in Seq(Names)
          BY <2>b, <4>2
        <4> QED
          BY <4>1, <4>2, <4>3
      <3> QED
        BY <3>1, <3>2
    <2>1. RegistryOK'
      BY <1>3, <2>c DEF BeginAll, CountOp, TypeOK, RegistryOK
    <2>d. Fits(step, o, names) /\ step \in Steps
      BY DEF Fits, Steps, Lifecycle
    <2>2. TasksOK' /\ StepsOK'
      BY <1>t, <2>c, <2>d, TheirTasks, BeginKeeps DEF Lifecycle
    <2> QED
      BY <2>1, <2>2 DEF TypeOK
  <1>4. ASSUME NEW t \in Operators, NEW D \in SUBSET Names, Describe(t, D) PROVE TypeOK'
    <2>0. t \in Tasks /\ Head(todo[t]) \in Names /\ held[t] \in Nat /\ fresh[t] \in Nat
      BY <1>4, TheirTasks, HeadOf DEF Describe, At
    <2>1. RegistryOK'
      BY <1>4, <2>0
         DEF Describe, At, registryVars, historyVars, TypeOK, RegistryOK, States,
             Done
    <2>2. TasksOK' /\ StepsOK'
      BY <1>4, <1>t, TheirTasks, GoKeeps, FailKeeps
         DEF Describe, At, TypeOK, StepsOK, Fits, Steps, Lifecycle, Changes
    <2> QED
      BY <2>1, <2>2 DEF TypeOK
  <1>5. ASSUME NEW t \in Operators, Pend(t) PROVE TypeOK'
    <2>0. t \in Tasks /\ Head(todo[t]) \in Names /\ held[t] \in Nat /\ fresh[t] \in Nat
      BY <1>5, TheirTasks, HeadOf DEF Pend, At
    <2>1. RegistryOK'
      BY <1>5, <2>0
         DEF Pend, At, SetState, registryVars, historyVars, TypeOK, RegistryOK,
             States, Done
    <2>2. TasksOK' /\ StepsOK'
      BY <1>5, <1>t, TheirTasks, GoKeeps, FailKeeps
         DEF Pend, At, SetState, TypeOK, StepsOK, Fits, Steps, Lifecycle, Changes
    <2> QED
      BY <2>1, <2>2 DEF TypeOK
  <1>6. ASSUME NEW t \in Operators, Invalidate(t) PROVE TypeOK'
    <2>0. t \in Tasks /\ Head(todo[t]) \in Names /\ held[t] \in Nat /\ fresh[t] \in Nat
      BY <1>6, TheirTasks, HeadOf DEF Invalidate
    <2>1. RegistryOK'
      BY <1>6, <2>0
         DEF Invalidate, Uncached, registryVars, historyVars, TypeOK, RegistryOK,
             States, Done
    <2>2. TasksOK' /\ StepsOK'
      BY <1>6, <1>t, TheirTasks, GoKeeps, FailKeeps
         DEF Invalidate, Uncached, TypeOK, StepsOK, Fits, Steps, Lifecycle, Changes
    <2> QED
      BY <2>1, <2>2 DEF TypeOK
  <1>7. ASSUME NEW t \in Operators, Undescribe(t) PROVE TypeOK'
    <2>0. t \in Tasks /\ Head(todo[t]) \in Names /\ held[t] \in Nat /\ fresh[t] \in Nat
      BY <1>7, TheirTasks, HeadOf DEF Undescribe, At
    <2>1. RegistryOK'
      BY <1>7, <2>0
         DEF Undescribe, At, registryVars, historyVars, TypeOK, RegistryOK, States,
             Done
    <2>2. TasksOK' /\ StepsOK'
      BY <1>7, <1>t, TheirTasks, GoKeeps, FailKeeps
         DEF Undescribe, At, TypeOK, StepsOK, Fits, Steps, Lifecycle, Changes
    <2> QED
      BY <2>1, <2>2 DEF TypeOK
  <1>8. ASSUME NEW t \in Operators, Unpend(t) PROVE TypeOK'
    <2>0. t \in Tasks /\ Head(todo[t]) \in Names /\ held[t] \in Nat /\ fresh[t] \in Nat
      BY <1>8, TheirTasks, HeadOf DEF Unpend, At
    <2>1. RegistryOK'
      BY <1>8, <2>0
         DEF Unpend, At, SetState, registryVars, historyVars, TypeOK, RegistryOK,
             States, Done
    <2>2. TasksOK' /\ StepsOK'
      BY <1>8, <1>t, TheirTasks, GoKeeps, FailKeeps
         DEF Unpend, At, SetState, TypeOK, StepsOK, Fits, Steps, Lifecycle, Changes
    <2> QED
      BY <2>1, <2>2 DEF TypeOK
  <1>9. ASSUME NEW t \in Operators, CheckNext(t) PROVE TypeOK'
    <2>0. t \in Tasks
      BY TheirTasks
    <2>1. RegistryOK'
      BY <1>9, <2>0
         DEF CheckNext, registryVars, historyVars, TypeOK, RegistryOK, States, Done
    <2>2. TasksOK' /\ StepsOK'
      BY <1>9, <1>t, TheirTasks, GoKeeps, AdvanceKeeps
         DEF CheckNext, TypeOK, StepsOK, Fits, Steps, Lifecycle, Changes
    <2> QED
      BY <2>1, <2>2 DEF TypeOK
  <1>10. ASSUME NEW t \in Operators, TakeFactory(t) PROVE TypeOK'
    <2>0. t \in Tasks /\ Head(todo[t]) \in Names /\ held[t] \in Nat /\ fresh[t] \in Nat
      BY <1>10, TheirTasks, HeadOf DEF TakeFactory, At
    <2>1. RegistryOK'
      BY <1>10, <2>0
         DEF TakeFactory, At, SetState, registryVars, historyVars, TypeOK,
             RegistryOK, States, Done
    <2>2. TasksOK' /\ StepsOK'
      BY <1>10, <1>t, TheirTasks, GoKeeps, AdvanceKeeps
         DEF TakeFactory, At, SetState, TypeOK, StepsOK, Fits, Steps, Lifecycle,
             Changes
    <2> QED
      BY <2>1, <2>2 DEF TypeOK
  <1>11. ASSUME NEW t \in Operators, Built(t) PROVE TypeOK'
    <2>0. t \in Tasks /\ Head(todo[t]) \in Names /\ held[t] \in Nat /\ fresh[t] \in Nat
      BY <1>11, TheirTasks, HeadOf DEF Built, At
    <2>1. RegistryOK'
      <3>1. \A s \in States : state' = [state EXCEPT ![Head(todo[t])] = s] =>
                  state' \in [Names -> States]
        BY <2>0 DEF TypeOK, RegistryOK
      <3>a. PICK s \in {"Initialized", "Failed"} :
                  state' = [state EXCEPT ![Head(todo[t])] = s]
        BY <1>11 DEF Built, SetState
      <3>b. s \in States
        BY DEF States, Done
      <3>2. state' \in [Names -> States] /\ instances[Head(todo[t])] \in Nat /\
                  built + 1 \in Nat
        BY <2>0, <3>1, <3>a, <3>b DEF TypeOK, RegistryOK
      <3>3. built' \in Nat /\ instances' \in [Names -> Nat] /\ rebuilt' \in SUBSET Nat
        BY <1>11, <2>0, <3>2 DEF Built, TypeOK, RegistryOK
      <3> QED
        BY <1>11, <3>2, <3>3 DEF Built, TypeOK, RegistryOK
    <2>2. TasksOK' /\ StepsOK'
      BY <1>11, <1>t, TheirTasks, AdvanceKeeps
         DEF Built, At, SetState, TypeOK, StepsOK, Fits, Steps, Lifecycle, Changes
    <2> QED
      BY <2>1, <2>2 DEF TypeOK
  <1>12. ASSUME NEW t \in Operators, TakeInstance(t) PROVE TypeOK'
    <2>0. t \in Tasks /\ Head(todo[t]) \in Names /\ held[t] \in Nat /\ fresh[t] \in Nat
      BY <1>12, TheirTasks, HeadOf DEF TakeInstance
    <2>1. RegistryOK'
      BY <1>12, <2>0
         DEF TakeInstance, SetState, historyVars, TypeOK, RegistryOK, States, Done
    <2>2. op[t] \in Lifecycle /\ todo[t] # <<>>
      BY <1>12, <1>t, <2>0 DEF TakeInstance, Lifecycle, StepsOK, Fits
    <2>3. ASSUME Advance(t, TRUE) PROVE TasksOK' /\ StepsOK'
      BY <1>t, <2>0, <2>2, <2>3, AdvanceKeeps
    <2>4. ASSUME ~ Advance(t, TRUE) PROVE TasksOK' /\ StepsOK'
      <3>1. /\ held' = [held EXCEPT ![t] = instances[Head(todo[t])]]
            /\ pc' = [pc EXCEPT ![t] = "call"] /\ UNCHANGED <<op, todo, fresh, result>>
        BY <1>12, <2>4 DEF TakeInstance
      <3>2. op' = [op EXCEPT ![t] = op[t]] /\ todo' = [todo EXCEPT ![t] = todo[t]]
        BY <1>t, <3>1 DEF TasksOK
      <3>3. Fits("call", op[t], todo[t]) /\ "call" \in Steps /\ t \notin Reloaders
        BY <2>2, TheirTasks DEF Fits, Steps
      <3>4. instances[Head(todo[t])] \in Nat
        BY <2>0 DEF TypeOK, RegistryOK
      <3>5. /\ held' \in [Tasks -> Nat] /\ fresh' \in [Tasks -> Nat]
            /\ result' \in [Tasks -> {"ok", "err"}]
        BY <1>t, <3>1, <3>4 DEF TasksOK
      <3>6. todo[t] \in Seq(Names) /\ op[t] # "reload"
        BY <1>t, <2>0, <2>2 DEF TasksOK, Lifecycle
      <3> QED
        BY <1>t, <2>0, <2>2, <3>1, <3>2, <3>3, <3>5, <3>6, TaskMoves
    <2>5. TasksOK' /\ StepsOK'
      BY <2>3, <2>4
    <2> QED
      BY <2>1, <2>5 DEF TypeOK
  <1>13. ASSUME NEW t \in Operators, Started(t) PROVE TypeOK'
    <2>0. t \in Tasks /\ Head(todo[t]) \in Names /\ held[t] \in Nat /\ fresh[t] \in Nat
      BY <1>13, TheirTasks, HeadOf DEF Started, At
    <2>1. RegistryOK'
      BY <1>13, <2>0
         DEF Started, At, SetState, registryVars, historyVars, TypeOK, RegistryOK,
             States, Done
    <2>2. TasksOK' /\ StepsOK'
      BY <1>13, <1>t, TheirTasks, AdvanceKeeps
         DEF Started, At, SetState, TypeOK, StepsOK, Fits, Steps, Lifecycle, Changes
    <2> QED
      BY <2>1, <2>2 DEF TypeOK
  <1>14. ASSUME NEW t \in Operators, Stopped(t) PROVE TypeOK'
    <2>0. t \in Tasks /\ Head(todo[t]) \in Names /\ held[t] \in Nat /\ fresh[t] \in Nat
      BY <1>14, TheirTasks, HeadOf DEF Stopped, At
    <2>1. RegistryOK'
      BY <1>14, <2>0
         DEF Stopped, At, SetState, registryVars, historyVars, TypeOK, RegistryOK,
             States, Done
    <2>2. TasksOK' /\ StepsOK'
      BY <1>14, <1>t, TheirTasks, AdvanceKeeps
         DEF Stopped, At, SetState, TypeOK, StepsOK, Fits, Steps, Lifecycle, Changes
    <2> QED
      BY <2>1, <2>2 DEF TypeOK
  <1>15. ASSUME NEW t \in Reloaders, NEW n \in Names, BeginReload(t, n) PROVE TypeOK'
    <2>1. RegistryOK'
      BY <1>15 DEF BeginReload, registryVars, TypeOK, RegistryOK
    <2>2. ASSUME Begin(t, "reload", "idle", <<n>>, "err") PROVE TasksOK' /\ StepsOK'
      <3>1. <<n>> \in Seq(Names) /\ Fits("idle", "reload", <<n>>) /\ "idle" \in Steps
        BY DEF Fits, Steps
      <3> QED
        BY <1>t, <2>2, <3>1, TheirTasks, BeginKeeps
    <2>3. ASSUME ~ Begin(t, "reload", "idle", <<n>>, "err") PROVE TasksOK' /\ StepsOK'
      <3>1. /\ pc' = [pc EXCEPT ![t] = "check"] /\ op' = [op EXCEPT ![t] = "reload"]
            /\ todo' = [todo EXCEPT ![t] = <<n>>] /\
                     held' = [held EXCEPT ![t] = instances[n]]
            /\ fresh' = [fresh EXCEPT ![t] = built + 1] /\
                     result' = [result EXCEPT ![t] = "ok"]
        BY <1>15, <2>3 DEF BeginReload
      <3>2. <<n>> \in Seq(Names) /\ Fits("check", "reload", <<n>>) /\ "check" \in Steps
        BY DEF Fits, Steps
      <3>3. instances[n] \in Nat /\ built + 1 \in Nat
        BY DEF TypeOK, RegistryOK
      <3>4. /\ held' \in [Tasks -> Nat] /\ fresh' \in [Tasks -> Nat]
            /\ result' \in [Tasks -> {"ok", "err"}]
        BY <1>t, <3>1, <3>3 DEF TasksOK
      <3> QED
        BY <1>t, <3>1, <3>2, <3>4, TheirTasks, TaskMoves
    <2>4. TasksOK' /\ StepsOK'
      BY <2>2, <2>3
    <2> QED
      BY <2>1, <2>4 DEF TypeOK
  <1>16. ASSUME NEW t \in Reloaders, CheckRunning(t) PROVE TypeOK'
    <2>0. t \in Tasks /\ Head(todo[t]) \in Names /\ held[t] \in Nat /\ fresh[t] \in Nat
      BY <1>16, TheirTasks, HeadOf DEF CheckRunning, At
    <2>1. RegistryOK'
      BY <1>16, <2>0
         DEF CheckRunning, At, registryVars, historyVars, TypeOK, RegistryOK,
             States, Done
    <2>2. TasksOK' /\ StepsOK'
      BY <1>16, <1>t, TheirTasks, GoKeeps, FailKeeps
         DEF CheckRunning, At, TypeOK, StepsOK, Fits, Steps, Lifecycle, Changes
    <2> QED
      BY <2>1, <2>2 DEF TypeOK
  <1>17. ASSUME NEW t \in Reloaders, PreReplaced(t) PROVE TypeOK'
    <2>0. t \in Tasks /\ Head(todo[t]) \in Names /\ held[t] \in Nat /\ fresh[t] \in Nat
      BY <1>17, TheirTasks, HeadOf DEF PreReplaced, At
    <2>1. RegistryOK'
      BY <1>17, <2>0
         DEF PreReplaced, At, registryVars, historyVars, TypeOK, RegistryOK, States,
             Done
    <2>2. TasksOK' /\ StepsOK'
      BY <1>17, <1>t, TheirTasks, GoKeeps, FailKeeps
         DEF PreReplaced, At, TypeOK, StepsOK, Fits, Steps, Lifecycle, Changes
    <2> QED
      BY <2>1, <2>2 DEF TypeOK
  <1>18. ASSUME NEW t \in Reloaders, NewStarted(t) PROVE TypeOK'
    <2>0. t \in Tasks /\ Head(todo[t]) \in Names /\ held[t] \in Nat /\ fresh[t] \in Nat
      BY <1>18, TheirTasks, HeadOf DEF NewStarted, At
    <2>1. RegistryOK'
      BY <1>18, <2>0
         DEF NewStarted, NotStarted, At, registryVars, historyVars, TypeOK,
             RegistryOK, States, Done
    <2>2. TasksOK' /\ StepsOK'
      BY <1>18, <1>t, TheirTasks, GoKeeps, FailKeeps
         DEF NewStarted, NotStarted, At, TypeOK, StepsOK, Fits, Steps, Lifecycle,
             Changes
    <2> QED
      BY <2>1, <2>2 DEF TypeOK
  <1>19. ASSUME NEW t \in Reloaders, Swap(t) PROVE TypeOK'
    <2>0. t \in Tasks /\ Head(todo[t]) \in Names /\ held[t] \in Nat /\ fresh[t] \in Nat
      BY <1>19, TheirTasks, HeadOf DEF Swap, At
    <2>1. RegistryOK'
      BY <1>19, <2>0
         DEF Swap, At, registryVars, historyVars, TypeOK, RegistryOK, States, Done
    <2>2. TasksOK' /\ StepsOK'
      BY <1>19, <1>t, TheirTasks, GoKeeps, FailKeeps
         DEF Swap, At, TypeOK, StepsOK, Fits, Steps, Lifecycle, Changes
    <2> QED
      BY <2>1, <2>2 DEF TypeOK
  <1>20. ASSUME NEW t \in Reloaders, SetRunning(t) PROVE TypeOK'
    <2>0. t \in Tasks /\ Head(todo[t]) \in Names /\ held[t] \in Nat /\ fresh[t] \in Nat
      BY <1>20, TheirTasks, HeadOf DEF SetRunning, At
    <2>1. RegistryOK'
      BY <1>20, <2>0
         DEF SetRunning, At, SetState, registryVars, historyVars, TypeOK,
             RegistryOK, States, Done
    <2>2. TasksOK' /\ StepsOK'
      BY <1>20, <1>t, TheirTasks, GoKeeps, FailKeeps
         DEF SetRunning, At, SetState, TypeOK, StepsOK, Fits, Steps, Lifecycle,
             Changes
    <2> QED
      BY <2>1, <2>2 DEF TypeOK
  <1>21. ASSUME NEW t \in Reloaders, PostReplaced(t) PROVE TypeOK'
    <2>0. t \in Tasks /\ Head(todo[t]) \in Names /\ held[t] \in Nat /\ fresh[t] \in Nat
      BY <1>21, TheirTasks, HeadOf DEF PostReplaced, At
    <2>1. RegistryOK'
      BY <1>21, <2>0
         DEF PostReplaced, Returned, At, registryVars, historyVars, TypeOK,
             RegistryOK, States, Done
    <2>2. TasksOK' /\ StepsOK'
      BY <1>21, <1>t, TheirTasks, GoKeeps, FailKeeps
         DEF PostReplaced, Returned, At, TypeOK, StepsOK, Fits, Steps, Lifecycle,
             Changes
    <2> QED
      BY <2>1, <2>2 DEF TypeOK
  <1>22. ASSUME NEW t \in Reloaders, ReadNames(t) PROVE TypeOK'
    <2>1. RegistryOK'
      <3>1. PICK order \in Orders : topo' = order
        BY <1>22 DEF ReadNames
      <3>2. topo' \in Seq(Names)
        BY <3>1, OrdersAreSequences
      <3> QED
        BY <1>22, <3>2 DEF ReadNames, historyVars, TypeOK, RegistryOK
    <2>2. TasksOK' /\ StepsOK'
      BY <1>22, <1>t DEF ReadNames, taskVars, TasksOK, StepsOK
    <2> QED
      BY <2>1, <2>2 DEF TypeOK
  <1>s. CASE UNCHANGED vars
    BY <1>s
       DEF vars, registryVars, taskVars, historyVars, TypeOK, RegistryOK, TasksOK,
           StepsOK
  <1> QED
    BY <1>1, <1>2, <1>3, <1>4, <1>5, <1>6, <1>7, <1>8, <1>9, <1>10, <1>11, <1>12,
       <1>13, <1>14, <1>15, <1>16, <1>17, <1>18, <1>19, <1>20, <1>21, <1>22, <1>s
       DEF Next, OperatorStep, ReloaderStep
(* What a step of a task changes                                           *)

(* The bookkeeping operators touch one task only.                          *)
LEMMA AfterGo ==
    ASSUME TasksOK, NEW t \in Tasks, NEW step, Go(t, step)
    PROVE  /\ op' = op /\ todo' = todo /\ held' = held /\ fresh' = fresh
           /\ \A u \in Tasks : pc'[u] = IF u = t THEN step ELSE pc[u]
  BY DEF Go, TasksOK

LEMMA AfterFail ==
    ASSUME TasksOK, NEW t \in Tasks, Fail(t)
    PROVE  /\ op' = op /\ todo' = todo /\ held' = held /\ fresh' = fresh
           /\ \A u \in Tasks : pc'[u] = IF u = t THEN "idle" ELSE pc[u]
  BY DEF Fail, TasksOK

LEMMA AfterAdvance ==
    ASSUME TasksOK, NEW t \in Tasks, NEW ok, Advance(t, ok)
    PROVE  /\ op' = op /\ held' = held /\ fresh' = fresh
           /\ \A u \in Tasks : /\ pc'[u] = IF u = t THEN "next" ELSE pc[u]
                               /\ todo'[u] = IF u = t THEN Tail(todo[t]) ELSE todo[u]
  BY DEF Advance, NextName, TasksOK

LEMMA AfterBegin ==
    ASSUME TasksOK, NEW t \in Tasks, NEW o, NEW step, NEW names, NEW res,
           Begin(t, o, step, names, res)
    PROVE  /\ pc[t] = "idle"
           /\ \A u \in Tasks : /\ pc'[u] = IF u = t THEN step ELSE pc[u]
                               /\ op'[u] = IF u = t THEN o ELSE op[u]
                               /\ todo'[u] = IF u = t THEN names ELSE todo[u]
                               /\ u # t => held'[u] = held[u] /\ fresh'[u] = fresh[u]
  BY DEF Begin, TasksOK

(* Neither does the begin of an operation touch other tasks ...            *)
LEMMA AfterOperation ==
    ASSUME TasksOK, NEW t \in Tasks,
           \/ \E n \in Names : BeginRegister(t, n) \/ BeginUnregister(t, n)
           \/ \E o \in Lifecycle : BeginAll(t, o)
    PROVE  /\ pc[t] = "idle" /\ pc'[t] \in {"idle", "describe", "next"}
           /\ \A u \in Tasks : u # t => /\ pc'[u] = pc[u] /\ op'[u] = op[u]
                                        /\ todo'[u] = todo[u]
                                        /\ held'[u] = held[u] /\ fresh'[u] = fresh[u]
  <1>1. ASSUME NEW n \in Names, BeginRegister(t, n)
        PROVE  \E res : \E step \in {"idle", "describe"} :
              Begin(t, "register", step, <<n>>, res)
    BY <1>1 DEF BeginRegister
  <1>2. ASSUME NEW n \in Names, BeginUnregister(t, n)
        PROVE  Begin(t, "unregister", "describe", <<n>>, "ok")
    BY <1>2 DEF BeginUnregister
  <1>3. ASSUME NEW o \in Lifecycle, BeginAll(t, o)
        PROVE  \E names, res : \E step \in {"idle", "next"} : Begin(t, o, step, names, res)
    <2>1. CASE topo = None /\ (Dangling \/ Orders = {})
      BY <1>3, <2>1 DEF BeginAll
    <2>2. CASE ~ (topo = None /\ (Dangling \/ Orders = {}))
      BY <1>3, <2>2 DEF BeginAll
    <2> QED
      BY <2>1, <2>2
  <1>4. \E o, names, res : \E step \in {"idle", "describe", "next"} :
              Begin(t, o, step, names, res)
    BY <1>1, <1>2, <1>3
  <1> QED
    BY <1>4, AfterBegin

(* ... nor that of a reload, which fetches the instance.                   *)
LEMMA AfterReload ==
    ASSUME TasksOK, NEW t \in Tasks, NEW n \in Names, BeginReload(t, n)
    PROVE  /\ pc[t] = "idle"
           /\ ~Found(n) => pc'[t] = "idle"
           /\ Found(n) => /\ pc'[t] = "check" /\ held'[t] = instances[n]
                          /\ fresh'[t] = built + 1
           /\ op'[t] = "reload" /\ todo'[t] = <<n>>
           /\ \A u \in Tasks : u # t => /\ pc'[u] = pc[u] /\ op'[u] = op[u]
                                        /\ todo'[u] = todo[u]
                                        /\ held'[u] = held[u] /\ fresh'[u] = fresh[u]
  <1>1. CASE ~Found(n)
    <2>1. Begin(t, "reload", "idle", <<n>>, "err")
      BY <1>1 DEF BeginReload
    <2> QED
      BY <1>1, <2>1, AfterBegin
  <1>2. CASE Found(n)
    BY <1>2 DEF BeginReload, TasksOK
  <1> QED
    BY <1>1, <1>2

(* A step within an operation is a step of one task.                       *)
LEMMA OneSteps ==
    ASSUME TasksOK, NEW t \in Tasks, OperatorStep(t) \/ ReloaderStep(t)
    PROVE  /\ op' = op
           /\ \A u \in Tasks : u # t => /\ pc'[u] = pc[u] /\ todo'[u] = todo[u]
                                        /\ held'[u] = held[u] /\ fresh'[u] = fresh[u]
  <1>1. CASE TakeInstance(t)
    <2>1. CASE Advance(t, TRUE)
      BY <2>1, AfterAdvance
    <2>2. CASE ~Advance(t, TRUE)
      BY <1>1, <2>2 DEF TakeInstance, TasksOK
    <2> QED
      BY <2>1, <2>2
  <1>2. CASE OperatorStep(t) /\ ~TakeInstance(t)
    BY <1>2, AfterGo, AfterFail, AfterAdvance
       DEF OperatorStep, Describe, Pend, Invalidate, Undescribe, Unpend, CheckNext,
           TakeFactory, Built, Started, Stopped
  <1>3. CASE ReloaderStep(t)
    BY <1>3, AfterGo, AfterFail
       DEF ReloaderStep, CheckRunning, PreReplaced, NewStarted, NotStarted, Swap, SetRunning,
           PostReplaced
  <1> QED
    BY <1>1, <1>2, <1>3

(* set_state changes one component.                                        *)
LEMMA AfterSet ==
    ASSUME RegistryOK, NEW n \in Names, NEW s, SetState(n, s)
    PROVE  \A m \in Names : state'[m] = IF m = n THEN s ELSE state[m]
  BY DEF SetState, RegistryOK

(* The orders depend on the descriptors alone.                             *)
LEMMA OrdersSame == UNCHANGED <<described, deps>> => Orders' = Orders /\
      (Dangling' <=> Dangling)
  <1> SUFFICES ASSUME UNCHANGED <<described, deps>> PROVE Orders' = Orders /\
            (Dangling' <=> Dangling)
    OBVIOUS
  <1>1. Orders' = Orders
    BY DEF Orders, Follows
  <1>2. Dangling' <=> Dangling
    BY DEF Dangling
  <1> QED
    BY <1>1, <1>2

-----------------------------------------------------------------------------
(* The cached order *)

(* The cached order is one of the current descriptors, but between the     *)
(* change of a descriptor and invalidate_topo.                             *)
TopoOK ==
    topo # None /\ (\A t \in Operators : pc[t] \notin {"pend", "stale"}) => topo \in Orders

(* Whatever tasks interleave, a stale order is never cached for good: the  *)
(* order is computed and cached under the lock of the descriptors.         *)
LEMMA TopoStep == TypeOK /\ TopoOK /\ [Next]_vars => TopoOK'
  <1> SUFFICES ASSUME TypeOK, TopoOK, [Next]_vars PROVE TopoOK'
    OBVIOUS
  <1>t. /\ TasksOK
        /\ \A t \in Operators : t \in Tasks /\ t \notin Reloaders
        /\ \A t \in Reloaders : t \in Tasks /\ t \notin Operators
    BY TheirTasks DEF TypeOK
  <1>1. ASSUME NEW t \in Operators, NEW D \in SUBSET Names, Describe(t, D) PROVE TopoOK'
    <2>1. pc'[t] = "pend"
      BY <1>t, <1>1, AfterGo DEF Describe
    <2> QED
      BY <2>1 DEF TopoOK
  <1>2. ASSUME NEW t \in Operators, Pend(t) \/ Unpend(t) PROVE TopoOK'
    <2>1. pc'[t] = "stale"
      BY <1>t, <1>2, AfterGo DEF Pend, Unpend
    <2> QED
      BY <2>1 DEF TopoOK
  <1>3. ASSUME NEW t \in Operators, Invalidate(t) PROVE TopoOK'
    BY <1>3 DEF Invalidate, Uncached, TopoOK
  <1>4. ASSUME NEW t \in Operators, Undescribe(t) PROVE TopoOK'
    <2>1. CASE Go(t, "pend")
      <3>1. pc'[t] = "pend"
        BY <1>t, <2>1, AfterGo
      <3> QED
        BY <3>1 DEF TopoOK
    <2>2. CASE described' = described /\ Fail(t)
      <3>1. \A u \in Operators : pc[u] \in {"pend", "stale"} => pc'[u] = pc[u]
        BY <1>t, <1>4, <2>2, AfterFail DEF Undescribe, At
      <3>2. Orders' = Orders /\ topo' = topo
        BY <1>4, <2>2, OrdersSame DEF Undescribe
      <3> QED
        BY <3>1, <3>2 DEF TopoOK
    <2> QED
      BY <1>4, <2>1, <2>2 DEF Undescribe
  <1>5. ASSUME NEW t \in Operators, NEW o \in Lifecycle, BeginAll(t, o) PROVE TopoOK'
    <2>1. Orders' = Orders
      BY <1>5, OrdersSame DEF BeginAll
    <2>2. CASE topo = None /\ (Dangling \/ Orders = {})
      BY <1>5, <2>2 DEF BeginAll, TopoOK
    <2>3. CASE ~ (topo = None /\ (Dangling \/ Orders = {}))
      <3>1. PICK order \in IF topo = None THEN Orders ELSE {topo} :
                /\ topo' = order
                /\ Begin(t, o, "next", IF o = "stop" THEN Reverse(order) ELSE order, "ok")
        BY <1>5, <2>3 DEF BeginAll
      <3>2. \A u \in Operators : pc[u] \in {"pend", "stale"} => pc'[u] = pc[u]
        BY <1>t, <3>1, AfterBegin
      <3> QED
        BY <2>1, <3>1, <3>2 DEF TopoOK
    <2> QED
      BY <2>2, <2>3
  <1>6. ASSUME NEW t \in Reloaders, ReadNames(t) PROVE TopoOK'
    BY <1>6, OrdersSame DEF ReadNames, TopoOK
  <1>7. ASSUME NEW t \in Tasks, UNCHANGED <<topo, described, deps>>,
               pc[t] \notin {"pend", "stale"}, \A u \in Tasks : u # t => pc'[u] = pc[u]
        PROVE  TopoOK'
    BY <1>t, <1>7, OrdersSame DEF TopoOK
  <1>8. ASSUME NEW t \in Operators, NEW n \in Names, BeginRegister(t, n) \/ BeginUnregister(t, n)
        PROVE  TopoOK'
    <2>1. pc[t] = "idle" /\ \A u \in Tasks : u # t => pc'[u] = pc[u]
      BY <1>t, <1>8, AfterBegin DEF BeginRegister, BeginUnregister
    <2> QED
      BY <1>t, <1>7, <1>8, <2>1 DEF BeginRegister, BeginUnregister
  <1>9. ASSUME NEW t \in Operators,
               \/ CheckNext(t) \/ TakeFactory(t) \/ Built(t)
               \/ TakeInstance(t) \/ Started(t) \/ Stopped(t)
        PROVE  TopoOK'
    <2>1. pc[t] \in {"next", "take", "call"}
      BY <1>9 DEF CheckNext, TakeFactory, Built, TakeInstance, Started, Stopped, At
    <2>2. \A u \in Tasks : u # t => pc'[u] = pc[u]
      BY <1>t, <1>9, AfterGo, AfterAdvance
         DEF CheckNext, TakeFactory, Built, TakeInstance, Started, Stopped, TasksOK
    <2>3. UNCHANGED <<topo, described, deps>>
      BY <1>9
         DEF CheckNext, TakeFactory, Built, TakeInstance, Started, Stopped,
             registryVars
    <2> QED
      BY <1>t, <1>7, <2>1, <2>2, <2>3
  <1>10. ASSUME NEW t \in Reloaders,
                ReloaderStep(t) \/ \E n \in Names : BeginReload(t, n)
         PROVE  TopoOK'
    <2>1. UNCHANGED <<topo, described, deps>>
      BY <1>10 DEF ReloaderStep, CheckRunning, PreReplaced, NewStarted, Swap, SetRunning,
                   PostReplaced, BeginReload, registryVars
    <2>2. \A u \in Tasks : u # t => pc'[u] = pc[u]
      <3>1. CASE ReloaderStep(t)
        BY <1>t, <3>1, AfterGo, AfterFail
           DEF ReloaderStep, CheckRunning, PreReplaced, NewStarted, NotStarted, Swap, SetRunning,
               PostReplaced
      <3>2. CASE \E n \in Names : BeginReload(t, n)
        BY <1>t, <3>2, AfterReload
      <3> QED
        BY <1>10, <3>1, <3>2
    <2>3. pc[t] \notin {"pend", "stale"}
      BY <1>t DEF TypeOK, StepsOK, Fits, Changes
    <2> QED
      BY <1>t, <1>7, <2>1, <2>2, <2>3
  <1>11. CASE UNCHANGED vars
    BY <1>11, OrdersSame DEF vars, registryVars, taskVars, TopoOK
  <1> QED
    BY <1>1, <1>2, <1>3, <1>4, <1>5, <1>6, <1>8, <1>9, <1>10, <1>11
       DEF Next, OperatorStep, Lifecycle

(* TopoFresh says the same of registrations that have ended.               *)
LEMMA TopoIsFresh == TypeOK /\ TopoOK => TopoFresh
  <1> SUFFICES ASSUME TypeOK, TopoOK, topo # None,
                      \A t \in Tasks : op[t] \in {"register", "unregister"} =>
                            pc[t] = "idle"
               PROVE  topo \in Orders
    BY DEF TopoFresh
  <1>1. \A t \in Operators : pc[t] \notin {"pend", "stale"}
    BY TheirTasks DEF TypeOK, StepsOK, Fits, Changes
  <1> QED
    BY <1>1 DEF TopoOK

-----------------------------------------------------------------------------
(* Who works while a reload does *)

(* Beside a reload only a start_all may run.                               *)
Apart ==
    \A r \in Reloaders, t \in Operators : pc[r] # "idle" /\ pc[t] # "idle" =>
          op[t] = "start"

(* No operation but start_all begins beside a reload, and no reload beside *)
(* another operation.                                                      *)
LEMMA ApartStep == ~Races /\ TypeOK /\ Apart /\ [Next]_vars => Apart'
  <1> SUFFICES ASSUME ~Races, TypeOK, Apart, [Next]_vars PROVE Apart'
    OBVIOUS
  <1>t. /\ TasksOK
        /\ \A t \in Operators : t \in Tasks /\ t \notin Reloaders
        /\ \A t \in Reloaders : t \in Tasks /\ t \notin Operators
    BY TheirTasks DEF TypeOK
  <1>r. \A r \in Reloaders : pc[r] # "idle" => op[r] = "reload"
    BY <1>t DEF TypeOK, TasksOK, StepsOK, Fits, Changes, Lifecycle, Steps
  <1>1. ASSUME NEW t \in Operators, NEW n \in Names, BeginRegister(t, n) \/ BeginUnregister(t, n)
        PROVE  Apart'
    <2>1. \A r \in Reloaders : pc[r] = "idle"
      BY <1>t, <1>r, <1>1 DEF BeginRegister, BeginUnregister, Undisturbed, Reloading
    <2>2. \A r \in Reloaders : pc'[r] = pc[r]
      BY <1>t, <1>1, AfterBegin DEF BeginRegister, BeginUnregister
    <2> QED
      BY <2>1, <2>2 DEF Apart
  <1>2. ASSUME NEW t \in Operators, NEW o \in Lifecycle, BeginAll(t, o) PROVE Apart'
    <2>1. PICK names, step, res : Begin(t, o, step, names, res)
      BY <1>2 DEF BeginAll
    <2>2. /\ \A r \in Reloaders : pc'[r] = pc[r]
          /\ \A u \in Operators : u # t => pc'[u] = pc[u] /\ op'[u] = op[u]
          /\ op'[t] = o
      BY <1>t, <2>1, AfterBegin
    <2>3. CASE o = "start"
      BY <2>2, <2>3 DEF Apart
    <2>4. CASE o # "start"
      <3>1. \A r \in Reloaders : pc[r] = "idle"
        BY <1>t, <1>r, <1>2, <2>4 DEF BeginAll, Undisturbed, Reloading, Lifecycle
      <3> QED
        BY <2>2, <3>1 DEF Apart
    <2> QED
      BY <2>3, <2>4
  <1>3. ASSUME NEW t \in Reloaders, NEW n \in Names, BeginReload(t, n) PROVE Apart'
    <2>1. \A u \in Operators : pc[u] # "idle" => op[u] = "start"
      BY <1>t, <1>3 DEF BeginReload, Changing, TypeOK, StepsOK
    <2>2. \A u \in Operators : pc'[u] = pc[u] /\ op'[u] = op[u]
      BY <1>t, <1>3, AfterReload
    <2> QED
      BY <2>1, <2>2 DEF Apart
  <1>4. ASSUME op' = op, \A u \in Tasks : pc'[u] # "idle" => pc[u] # "idle" PROVE Apart'
    BY <1>t, <1>4 DEF Apart
  <1>5. ASSUME NEW t \in Operators, OperatorStep(t) PROVE Apart'
    <2>1. pc[t] # "idle"
      BY <1>5 DEF OperatorStep, Describe, Pend, Invalidate, Undescribe, Unpend, CheckNext,
                  TakeFactory, Built, TakeInstance, Started, Stopped, At
    <2>2. op' = op /\ \A u \in Tasks : u # t => pc'[u] = pc[u]
      BY <1>t, <1>5, OneSteps
    <2> QED
      BY <1>4, <2>1, <2>2
  <1>6. ASSUME NEW t \in Reloaders, ReloaderStep(t) PROVE Apart'
    <2>1. pc[t] # "idle"
      BY <1>6 DEF ReloaderStep, CheckRunning, PreReplaced, NewStarted, Swap, SetRunning,
                  PostReplaced, At
    <2>2. op' = op /\ \A u \in Tasks : u # t => pc'[u] = pc[u]
      BY <1>t, <1>6, OneSteps
    <2> QED
      BY <1>4, <2>1, <2>2
  <1>7. ASSUME NEW t \in Reloaders, ReadNames(t) PROVE Apart'
    BY <1>7 DEF ReadNames, taskVars, Apart
  <1>8. CASE UNCHANGED vars
    BY <1>8 DEF vars, taskVars, Apart
  <1> QED
    BY <1>1, <1>2, <1>3, <1>5, <1>6, <1>7, <1>8 DEF Next, Lifecycle

-----------------------------------------------------------------------------
(* States of the components *)

(* One task operates the registry (ManagedRuntime has one owner).          *)
OneOperator == \A t, u \in Operators : t = u

(* A component is Initializing or Starting only while its build or start   *)
(* is awaited; one that is Initialized or Running has an instance.         *)
StateOK ==
    /\ \A n \in Names : state[n] = "Initializing" =>
           \E t \in Operators : At(t, "init", "call") /\ n = Head(todo[t])
    /\ \A n \in Names : state[n] = "Starting" =>
           \E t \in Operators : At(t, "start", "call") /\ n = Head(todo[t])
    /\ \A n \in Names : state[n] \in {"Initialized", "Running"} => Found(n)

(* What was read of a component's state when it was taken up still holds   *)
(* when it is acted upon.                                                  *)
VisitOK ==
    /\ \A t \in Operators :
        /\ At(t, "start", "take") => state[Head(todo[t])] = "Initialized"
        /\ At(t, "start", "call") => state[Head(todo[t])] = "Starting"
        /\ At(t, "stop", "take") => state[Head(todo[t])] \in {"Running", "Initialized"}
    /\ \A t \in Reloaders : pc[t] \in {"pre", "start", "swap", "running"} =>
        state[Head(todo[t])] = "Running"

(* One operator, and reloads that keep apart.                              *)
Alone == ~Races /\ OneOperator
WorkOK == Apart /\ StateOK /\ VisitOK

(* What a step of the one operator leaves of StateOK and VisitOK to show.  *)
LEMMA OperatorMoves ==
    ASSUME OneOperator, TypeOK, WorkOK, NEW t \in Operators,
           \A r \in Reloaders : pc'[r] = pc[r] /\ todo'[r] = todo[r],
           NEW n \in Names, NEW s, \A m \in Names :
                 state'[m] = IF m = n THEN s ELSE state[m],
           instances' = instances \/ (instances'[n] # 0 /\ \A m \in Names : m # n =>
                 instances'[m] = instances[m]),
           \A m \in Names : m # n => ~(At(t, "init", "call") /\ m = Head(todo[t])) /\
                 ~(At(t, "start", "call") /\ m = Head(todo[t])),
           s = "Initializing" => At(t, "init", "call")' /\ n = Head(todo'[t]),
           s = "Starting" => At(t, "start", "call")' /\ n = Head(todo'[t]),
           s \in {"Initialized", "Running"} => instances'[n] # 0,
           At(t, "start", "take")' => Head(todo'[t]) = n /\ s = "Initialized",
           At(t, "start", "call")' => Head(todo'[t]) = n /\ s = "Starting",
           At(t, "stop", "take")' => Head(todo'[t]) = n /\ s \in {"Running", "Initialized"},
           \A r \in Reloaders : pc[r] \in {"pre", "start", "swap", "running"} /\
                 Head(todo[r]) = n => s = "Running"
    PROVE  StateOK' /\ VisitOK'
  <1>1. \A u \in Operators : u = t
    BY DEF OneOperator
  <1>2. \A m \in Names : m # n => state[m] \notin {"Initializing", "Starting"}
    BY <1>1 DEF WorkOK, StateOK
  <1>3. \A m \in Names : state'[m] \in {"Initialized", "Running"} => instances'[m] # 0
    BY DEF WorkOK, StateOK, Found
  <1>4. StateOK'
    BY <1>2, <1>3 DEF StateOK, Found
  <1>5. \A r \in Reloaders : pc[r] \in {"pre", "start", "swap", "running"} =>
              state'[Head(todo[r])] = "Running"
    <2> SUFFICES ASSUME NEW r \in Reloaders, pc[r] \in {"pre", "start", "swap", "running"}
                 PROVE  state'[Head(todo[r])] = "Running"
      OBVIOUS
    <2>1. Head(todo[r]) \in Names
      BY TheirTasks, HeadOf
    <2> QED
      BY <2>1 DEF WorkOK, VisitOK
  <1>6. VisitOK'
    BY <1>1, <1>5 DEF VisitOK
  <1> QED
    BY <1>4, <1>6

(* A step of the operator that changes no state and takes up no component. *)
LEMMA OperatorQuiet ==
    ASSUME OneOperator, TypeOK, WorkOK, NEW t \in Operators,
           \A r \in Reloaders : pc'[r] = pc[r] /\ todo'[r] = todo[r],
           state' = state, instances' = instances, pc[t] # "call", pc'[t] \notin {"take", "call"}
    PROVE  StateOK' /\ VisitOK'
  <1>1. \A u \in Operators : u = t
    BY DEF OneOperator
  <1>2. StateOK'
    BY <1>1 DEF WorkOK, StateOK, At, Found
  <1>3. VisitOK'
    BY <1>1 DEF WorkOK, VisitOK, At
  <1> QED
    BY <1>2, <1>3

(* A step of a reload changes no state.                                    *)
LEMMA ReloaderQuiet ==
    ASSUME TypeOK, WorkOK, NEW r \in Reloaders, op' = op,
           \A u \in Tasks : (u # r => pc'[u] = pc[u]) /\ todo'[u] = todo[u],
           state' = state, \A n \in Names : Found(n) => instances'[n] # 0,
           pc'[r] \in {"pre", "start", "swap", "running"} =>
                 state[Head(todo[r])] = "Running"
    PROVE  StateOK' /\ VisitOK'
  <1>1. \A t \in Operators : t # r /\ pc'[t] = pc[t] /\ todo'[t] = todo[t]
    BY TheirTasks
  <1>2. \A n \in Names : state[n] \in {"Initialized", "Running"} => instances'[n] # 0
    BY DEF WorkOK, StateOK
  <1>3. StateOK'
    BY <1>1, <1>2 DEF WorkOK, StateOK, At, Found
  <1>4. \A u \in Reloaders : pc'[u] \in {"pre", "start", "swap", "running"} =>
            state'[Head(todo'[u])] = "Running"
    BY TheirTasks DEF WorkOK, VisitOK
  <1>5. VisitOK'
    BY <1>1, <1>4 DEF WorkOK, VisitOK, At
  <1> QED
    BY <1>3, <1>5

(* A reload sets Running what is Running.                                  *)
LEMMA ReloadKeepsState ==
    ASSUME TypeOK, WorkOK, NEW r \in Reloaders, ReloaderStep(r)
    PROVE  state' = state
  <1>1. CASE SetRunning(r)
    <2>1. pc[r] = "running" /\ r \in Tasks
      BY <1>1, TheirTasks DEF SetRunning, At
    <2>2. state[Head(todo[r])] = "Running" /\ Head(todo[r]) \in Names
      BY <2>1, HeadOf DEF WorkOK, VisitOK
    <2> QED
      BY <1>1, <2>2 DEF SetRunning, SetState, TypeOK, RegistryOK
  <1>2. CASE ~SetRunning(r)
    BY <1>2 DEF ReloaderStep, CheckRunning, PreReplaced, NewStarted, Swap, PostReplaced,
                registryVars
  <1> QED
    BY <1>1, <1>2

-----------------------------------------------------------------------------
(* The instances *)

(* Instances are told apart; what a start or stop is awaited on is the     *)
(* instance that is registered.                                            *)
InstancesOK ==
    /\ \A n \in Names : instances[n] <= built
    /\ \A m, n \in Names : instances[m] = instances[n] /\ Found(m) => m = n
    /\ \A i \in serving : i <= built
    /\ \A t \in Operators : pc[t] = "call" /\ op[t] \in {"start", "stop"} =>
           held[t] = instances[Head(todo[t])] /\ held[t] # 0

(* A reload that has not swapped yet holds the instance that is registered *)
(* and brings one that no other knows; the instance it has swapped in      *)
(* stays until the reload has set the state.                               *)
Unswapped == {t \in Reloaders : pc[t] \in {"check", "pre", "start", "swap"}}

ReloadOK ==
    /\ \A t \in Unswapped :
        /\ held[t] = instances[Head(todo[t])] /\ held[t] # 0
        /\ fresh[t] # 0 /\ fresh[t] <= built
        /\ \A n \in Names : instances[n] # fresh[t]
        /\ fresh[t] \in serving <=> pc[t] = "swap"
        /\ \A u \in Unswapped : fresh[u] = fresh[t] => u = t
    /\ \A t \in Reloaders : pc[t] = "running" =>
          instances[Head(todo[t])] = fresh[t] /\ fresh[t] \in serving

(* No step of the operator or of a reload makes stale what another one     *)
(* read of a component's state.                                            *)
LEMMA WorkStep ==
    Alone /\ TypeOK /\ WorkOK /\ InstancesOK /\ ReloadOK /\ [Next]_vars => WorkOK'
  <1> SUFFICES ASSUME Alone, TypeOK, WorkOK, InstancesOK, ReloadOK, [Next]_vars
            PROVE WorkOK'
    OBVIOUS
  <1>a. Apart'
    BY ApartStep DEF Alone, WorkOK
  <1>o. OneOperator
    BY DEF Alone
  <1>t. /\ TasksOK /\ RegistryOK
        /\ \A t \in Operators : t \in Tasks /\ t \notin Reloaders
        /\ \A t \in Reloaders : t \in Tasks /\ t \notin Operators
    BY TheirTasks DEF TypeOK
  <1> SUFFICES StateOK' /\ VisitOK'
    BY <1>a DEF WorkOK
  <1>r. ASSUME NEW t \in Operators, OperatorStep(t)
        PROVE  /\ op' = op
               /\ \A r \in Reloaders : pc'[r] = pc[r] /\ todo'[r] = todo[r]
    BY <1>t, <1>r, OneSteps
  <1>i. ASSUME NEW t \in Operators, pc[t] # "idle", op[t] # "start"
        PROVE  \A r \in Reloaders : pc[r] = "idle"
    BY <1>i DEF WorkOK, Apart
  <1>1. ASSUME NEW t \in Operators,
               \/ \E n \in Names : BeginRegister(t, n) \/ BeginUnregister(t, n)
               \/ \E o \in Lifecycle : BeginAll(t, o)
        PROVE  StateOK' /\ VisitOK'
    <2>2. pc[t] = "idle" /\ pc'[t] \in {"idle", "describe", "next"}
      BY <1>t, <1>1, AfterOperation
    <2>3. \A r \in Reloaders : pc'[r] = pc[r] /\ todo'[r] = todo[r]
      BY <1>t, <1>1, AfterOperation
    <2>4. state' = state /\ instances' = instances
      BY <1>1 DEF BeginRegister, BeginUnregister, BeginAll
    <2> QED
      BY <1>o, <2>2, <2>3, <2>4, OperatorQuiet
  <1>2. ASSUME NEW t \in Operators,
               (\E D \in SUBSET Names : Describe(t, D)) \/ Invalidate(t) \/ Undescribe(t)
        PROVE  StateOK' /\ VisitOK'
    <2>1. OperatorStep(t)
      BY <1>2 DEF OperatorStep
    <2>2. pc[t] # "call" /\ pc'[t] \notin {"take", "call"}
      BY <1>t, <1>2, AfterGo, AfterFail DEF Describe, Invalidate, Undescribe, At
    <2>3. state' = state /\ instances' = instances
      BY <1>2 DEF Describe, Invalidate, Undescribe
    <2> QED
      BY <1>o, <1>r, <2>1, <2>2, <2>3, OperatorQuiet
  <1>3. ASSUME NEW t \in Operators, NEW s \in {"Pending", "Absent"},
               (Pend(t) /\ s = "Pending") \/ (Unpend(t) /\ s = "Absent")
        PROVE  StateOK' /\ VisitOK'
    <2> DEFINE n == Head(todo[t])
    <2>1. OperatorStep(t)
      BY <1>3 DEF OperatorStep
    <2>2. op[t] \in Changes /\ pc[t] = "pend" /\ SetState(n, s) /\
                instances' = instances /\ Go(t, "stale")
      BY <1>3 DEF Pend, Unpend, At, Changes
    <2>3. n \in Names
      BY <1>t, <2>2, HeadOf
    <2>4. pc'[t] = "stale"
      BY <1>t, <2>2, AfterGo
    <2>5. \A m \in Names : state'[m] = IF m = n THEN s ELSE state[m]
      BY <1>t, <2>2, <2>3, AfterSet
    <2>6. \A r \in Reloaders : pc[r] = "idle"
      BY <1>i, <2>2 DEF Changes
    <2> HIDE DEF n
    <2> QED
      BY <1>o, <1>r, <2>1, <2>2, <2>3, <2>4, <2>5, <2>6, OperatorMoves DEF At
  <1>4. ASSUME NEW t \in Operators, CheckNext(t) PROVE StateOK' /\ VisitOK'
    <2>1. OperatorStep(t) /\ pc[t] = "next" /\ state' = state /\ instances' = instances
      BY <1>4 DEF OperatorStep, CheckNext, registryVars
    <2>2. CASE pc'[t] \in {"idle", "next"}
      BY <1>o, <1>r, <2>1, <2>2, OperatorQuiet
    <2>3. CASE pc'[t] \notin {"idle", "next"}
      <3> DEFINE n == Head(todo[t])
      <3>1. Go(t, "take") /\ todo[t] # <<>> /\ Visits(op[t], state[n])
        BY <1>4, <1>t, <2>3, AfterGo, AfterAdvance DEF CheckNext
      <3>2. pc'[t] = "take" /\ todo' = todo
        BY <1>t, <3>1, AfterGo
      <3>3. n \in Names
        BY <1>t, <3>1 DEF TasksOK
      <3>4. /\ op'[t] = "start" => state[n] = "Initialized"
            /\ op'[t] = "stop" => state[n] \in {"Running", "Initialized"}
        BY <1>r, <2>1, <3>1 DEF Visits
      <3>5. ~ At(t, "init", "call") /\ ~ At(t, "start", "call")
        BY <2>1 DEF At
      <3>6. \A r \in Reloaders : pc[r] \in {"pre", "start", "swap", "running"} /\
                  Head(todo[r]) = n =>
                state[n] = "Running"
        BY DEF WorkOK, VisitOK
      <3>7. /\ ~ (state[n] = "Initializing") /\ ~ (state[n] = "Starting")
            /\ state[n] \in {"Initialized", "Running"} => instances'[n] # 0
        BY <1>o, <2>1, <3>3, <3>5 DEF OneOperator, WorkOK, StateOK, Found
      <3>8. \A m \in Names : state'[m] = IF m = n THEN state[n] ELSE state[m]
        BY <2>1
      <3>9. Head(todo'[t]) = n /\ At(t, "start", "call")' = FALSE
        BY <3>2 DEF At
      <3> HIDE DEF n
      <3> QED
        BY <1>o, <1>r, <2>1, <3>2, <3>3, <3>4, <3>5, <3>6, <3>7, <3>8, <3>9,
           OperatorMoves
           DEF At
    <2> QED
      BY <2>2, <2>3
  <1>5. ASSUME NEW t \in Operators, TakeFactory(t) PROVE StateOK' /\ VisitOK'
    <2> DEFINE n == Head(todo[t])
    <2>1. OperatorStep(t) /\ op[t] = "init" /\ pc[t] = "take" /\ instances' = instances
      BY <1>5 DEF OperatorStep, TakeFactory, At
    <2>2. CASE Advance(t, TRUE) /\ state' = state
      <3>1. pc'[t] = "next"
        BY <1>t, <2>2, AfterAdvance
      <3> QED
        BY <1>o, <1>r, <2>1, <2>2, <3>1, OperatorQuiet
    <2>3. CASE SetState(n, "Initializing") /\ Go(t, "call")
      <3>1. n \in Names
        BY <1>t, <2>1, HeadOf
      <3>2. pc'[t] = "call" /\ todo' = todo /\ op' = op
        BY <1>t, <2>3, AfterGo
      <3>3. \A m \in Names : state'[m] = IF m = n THEN "Initializing" ELSE state[m]
        BY <1>t, <2>3, <3>1, AfterSet
      <3>4. \A r \in Reloaders : pc[r] = "idle"
        BY <1>i, <2>1
      <3>5. At(t, "init", "call")' /\ n = Head(todo'[t]) /\ op'[t] = "init"
        BY <2>1, <3>2 DEF At
      <3>6. ~ At(t, "init", "call") /\ ~ At(t, "start", "call")
        BY <2>1 DEF At
      <3> HIDE DEF n
      <3>7. ~ At(t, "start", "take")' /\ ~ At(t, "start", "call")' /\
                  ~ At(t, "stop", "take")'
        BY <3>5 DEF At
      <3>8. \A r \in Reloaders : pc'[r] = pc[r] /\ todo'[r] = todo[r]
        BY <1>r, <2>1
      <3>9. \A r \in Reloaders : ~ (pc[r] \in {"pre", "start", "swap", "running"} /\
                  Head(todo[r]) = n)
        BY <3>4
      <3>10. instances' = instances
        BY <2>1
      <3> QED
        BY <1>o, <3>1, <3>3, <3>5, <3>6, <3>7, <3>8, <3>9, <3>10, OperatorMoves
    <2> QED
      BY <1>5, <2>2, <2>3 DEF TakeFactory
  <1>6. ASSUME NEW t \in Operators, Built(t) PROVE StateOK' /\ VisitOK'
    <2> DEFINE n == Head(todo[t])
    <2>1. OperatorStep(t) /\ op[t] = "init" /\ pc[t] = "call"
      BY <1>6 DEF OperatorStep, Built, At
    <2>2. n \in Names
      BY <1>t, <2>1, HeadOf
    <2>3. PICK s \in {"Initialized", "Failed"}, ok \in BOOLEAN :
            /\ SetState(n, s) /\ Advance(t, ok)
            /\ \/ s = "Initialized" /\ instances' = [instances EXCEPT ![n] = built + 1]
               \/ s = "Failed" /\ instances' = instances
      BY <1>6 DEF Built
    <2>4. pc'[t] = "next"
      BY <1>t, <2>3, AfterAdvance
    <2>5. \A m \in Names : state'[m] = IF m = n THEN s ELSE state[m]
      BY <1>t, <2>2, <2>3, AfterSet
    <2>6. \A r \in Reloaders : pc[r] = "idle"
      BY <1>i, <2>1
    <2>7. \/ instances' = instances
          \/ instances'[n] # 0 /\ \A m \in Names : m # n => instances'[m] = instances[m]
      BY <1>t, <2>2, <2>3 DEF RegistryOK
    <2>8. s = "Initialized" => instances'[n] # 0
      BY <1>t, <2>2, <2>3 DEF RegistryOK
    <2>9. \A m \in Names : m # n => ~(At(t, "init", "call") /\ m = Head(todo[t]))
                                 /\ ~(At(t, "start", "call") /\ m = Head(todo[t]))
      OBVIOUS
    <2> HIDE DEF n
    <2> QED
      BY <1>o, <1>r, <2>1, <2>2, <2>4, <2>5, <2>6, <2>7, <2>8, <2>9, OperatorMoves DEF At
  <1>7. ASSUME NEW t \in Operators, TakeInstance(t) PROVE StateOK' /\ VisitOK'
    <2> DEFINE n == Head(todo[t])
    <2>1. OperatorStep(t) /\ op[t] \in {"start", "stop"} /\ pc[t] = "take" /\
                instances' = instances
      BY <1>7 DEF OperatorStep, TakeInstance
    <2>2. n \in Names
      BY <1>t, <2>1, HeadOf
    <2>3. state[n] \in {"Running", "Initialized"} /\ Found(n)
      BY <2>1, <2>2 DEF WorkOK, VisitOK, StateOK, At
    <2>4. PICK s \in {"Starting", "Stopping"} :
            /\ SetState(n, s)
            /\ \/ op[t] = "start" /\ s = "Starting"
               \/ op[t] = "stop" /\ s = "Stopping"
      BY <1>7, <2>1 DEF TakeInstance
    <2>5. pc'[t] = "call" /\ todo' = todo /\ op' = op
      BY <1>t, <1>7, <2>3 DEF TakeInstance, TasksOK
    <2>6. \A m \in Names : state'[m] = IF m = n THEN s ELSE state[m]
      BY <1>t, <2>2, <2>4, AfterSet
    <2>7. \A r \in Reloaders : ~ (pc[r] \in {"pre", "start", "swap", "running"} /\
                Head(todo[r]) = n)
      BY <1>i, <2>1, <2>3 DEF WorkOK, VisitOK, At
    <2>8. ~ At(t, "init", "call") /\ ~ At(t, "start", "call")
      BY <2>1 DEF At
    <2> HIDE DEF n
    <2>9. /\ ~ At(t, "start", "take")' /\ ~ At(t, "stop", "take")'
          /\ At(t, "start", "call")' <=> s = "Starting"
      BY <2>1, <2>4, <2>5 DEF At
    <2>10. n = Head(todo'[t]) /\ instances' = instances /\ s # "Initializing"
      BY <2>1, <2>4, <2>5 DEF n
    <2>11. \A r \in Reloaders : pc'[r] = pc[r] /\ todo'[r] = todo[r]
      BY <1>r, <2>1
    <2>13. CASE s = "Starting"
      <3>1. /\ At(t, "start", "call")' /\ ~ At(t, "start", "take")' /\
                     ~ At(t, "stop", "take")'
            /\ n = Head(todo'[t]) /\ instances' = instances
        BY <2>9, <2>10, <2>13
      <3>2. \A m \in Names : state'[m] = IF m = n THEN "Starting" ELSE state[m]
        BY <2>6, <2>13
      <3> QED
        BY <1>o, <2>2, <2>7, <2>8, <2>11, <3>1, <3>2, OperatorMoves
    <2>14. CASE s = "Stopping"
      <3>1. /\ ~ At(t, "start", "call")' /\ ~ At(t, "start", "take")' /\
                     ~ At(t, "stop", "take")'
            /\ instances' = instances
        BY <2>9, <2>10, <2>14
      <3>2. \A m \in Names : state'[m] = IF m = n THEN "Stopping" ELSE state[m]
        BY <2>6, <2>14
      <3> QED
        BY <1>o, <2>2, <2>7, <2>8, <2>11, <3>1, <3>2, OperatorMoves
    <2> QED
      BY <2>13, <2>14
  <1>8. ASSUME NEW t \in Operators, Started(t) \/ Stopped(t) PROVE StateOK' /\ VisitOK'
    <2> DEFINE n == Head(todo[t])
    <2>1. OperatorStep(t) /\ op[t] \in {"start", "stop"} /\ pc[t] = "call" /\
                instances' = instances
      BY <1>8 DEF OperatorStep, Started, Stopped, At
    <2>2. n \in Names
      BY <1>t, <2>1, HeadOf
    <2>3. PICK s \in {"Running", "Failed", "Stopped"}, ok \in BOOLEAN :
            /\ SetState(n, s) /\ Advance(t, ok)
            /\ \/ op[t] = "start" /\ s \in {"Running", "Failed"}
               \/ op[t] = "stop" /\ s = "Stopped"
      BY <1>8 DEF Started, Stopped, At
    <2>4. pc'[t] = "next"
      BY <1>t, <2>3, AfterAdvance
    <2>5. \A m \in Names : state'[m] = IF m = n THEN s ELSE state[m]
      BY <1>t, <2>2, <2>3, AfterSet
    <2>6. s = "Running" => Found(n)
      <3>1. CASE op[t] = "start"
        BY <2>1, <2>2, <3>1 DEF InstancesOK, Found
      <3> QED
        BY <2>3, <3>1
    <2>7. \A r \in Reloaders : pc[r] \in {"pre", "start", "swap", "running"} /\
                Head(todo[r]) = n => s = "Running"
      <3>1. CASE op[t] = "start"
        BY <2>1, <3>1 DEF WorkOK, VisitOK, At
      <3>2. CASE op[t] = "stop"
        BY <1>i, <2>1, <3>2
      <3> QED
        BY <2>1, <3>1, <3>2
    <2>8. \A m \in Names : m # n => ~(At(t, "init", "call") /\ m = Head(todo[t]))
                                 /\ ~(At(t, "start", "call") /\ m = Head(todo[t]))
      OBVIOUS
    <2> HIDE DEF n
    <2>9. ~ At(t, "start", "take")' /\ ~ At(t, "start", "call")' /\ ~ At(t, "stop", "take")'
      BY <2>4 DEF At
    <2> QED
      BY <1>o, <1>r, <2>1, <2>2, <2>5, <2>6, <2>7, <2>8, <2>9, OperatorMoves DEF Found
  <1>9. ASSUME NEW r \in Reloaders, ReloaderStep(r) PROVE StateOK' /\ VisitOK'
    <2>1. op' = op /\ \A u \in Tasks : u # r => pc'[u] = pc[u] /\ todo'[u] = todo[u]
      BY <1>t, <1>9, OneSteps
    <2>2. todo' = todo
      BY <1>t, <1>9, AfterGo, AfterFail
         DEF ReloaderStep, CheckRunning, PreReplaced, NewStarted, NotStarted, Swap, SetRunning,
             PostReplaced
    <2>3. state' = state
      BY <1>9, ReloadKeepsState
    <2>4. \A n \in Names : Found(n) => instances'[n] # 0
      <3>1. CASE Swap(r)
        BY <1>t, <3>1 DEF Swap, At, Found, ReloadOK, Unswapped, RegistryOK
      <3>2. CASE ~Swap(r)
        BY <1>9, <3>2 DEF ReloaderStep, CheckRunning, PreReplaced, NewStarted, SetRunning,
                          PostReplaced, registryVars, Found
      <3> QED
        BY <3>1, <3>2
    <2>5. pc'[r] \in {"pre", "start", "swap", "running"} => state[Head(todo[r])] = "Running"
      BY <1>t, <1>9, AfterGo, AfterFail
         DEF ReloaderStep, CheckRunning, PreReplaced, NewStarted, NotStarted, Swap, SetRunning,
             PostReplaced, At, WorkOK, VisitOK
    <2> QED
      BY <2>1, <2>2, <2>3, <2>4, <2>5, ReloaderQuiet
  <1>10. ASSUME NEW r \in Reloaders, NEW n \in Names, BeginReload(r, n) PROVE StateOK' /\
               VisitOK'
    <2>1. /\ pc'[r] \in {"idle", "check"}
          /\ \A u \in Tasks : u # r => pc'[u] = pc[u] /\ op'[u] = op[u] /\
                   todo'[u] = todo[u]
      BY <1>t, <1>10, AfterReload
    <2>2. state' = state /\ instances' = instances
      BY <1>10 DEF BeginReload, registryVars
    <2>3. \A t \in Operators : pc'[t] = pc[t] /\ op'[t] = op[t] /\ todo'[t] = todo[t]
      BY <1>t, <2>1
    <2>4. \A t \in Reloaders : pc'[t] \in {"pre", "start", "swap", "running"} =>
              pc[t] = pc'[t] /\ todo'[t] = todo[t]
      BY <1>t, <2>1
    <2>5. StateOK'
      BY <2>2, <2>3 DEF WorkOK, StateOK, At, Found
    <2>6. VisitOK'
      BY <2>2, <2>3, <2>4 DEF WorkOK, VisitOK, At
    <2> QED
      BY <2>5, <2>6
  <1>11. CASE (\E t \in Reloaders : ReadNames(t)) \/ UNCHANGED vars
    <2>1. UNCHANGED <<pc, op, todo, state, instances>>
      BY <1>11 DEF ReadNames, vars, registryVars, taskVars
    <2> QED
      BY <2>1 DEF WorkOK, StateOK, VisitOK, At, Found
  <1> QED
    BY <1>1, <1>2, <1>3, <1>4, <1>5, <1>6, <1>7, <1>8, <1>9, <1>10, <1>11
       DEF Next, OperatorStep, Lifecycle

-----------------------------------------------------------------------------
(* No instance is lost *)

(* Where an instance that serves can be found.                             *)
Kept ==
    {instances[n] : n \in Names} \cup handed \cup rebuilt
        \cup {fresh[t] : t \in {u \in Reloaders : pc[u] = "swap"}}
        \cup {held[t] : t \in {u \in Reloaders : pc[u] \in {"running", "post"}}}

(* NoInstanceLost, in terms of Kept.                                       *)
ServingOK ==
    /\ \A n \in Names : state[n] = "Running" => instances[n] \in serving
    /\ serving \subseteq Kept

(* A step that touches no instance.                                        *)
LEMMA InstancesQuiet ==
    ASSUME TypeOK, InstancesOK, NEW t \in Operators,
           op' = op \/ pc'[t] # "call",
           \A u \in Operators : u # t => pc'[u] = pc[u] /\ op'[u] = op[u] /\
                 todo'[u] = todo[u] /\ held'[u] = held[u],
           UNCHANGED <<instances, built, serving>>,
           pc'[t] = "call" /\ op'[t] \in {"start", "stop"} =>
               held'[t] = instances[Head(todo'[t])] /\ held'[t] # 0
    PROVE  InstancesOK'
  BY DEF InstancesOK, Found

(* The same for the reloads ...                                            *)
LEMMA ReloadQuiet ==
    ASSUME ReloadOK,
           \A r \in Reloaders : pc'[r] = pc[r] /\ todo'[r] = todo[r] /\
                 held'[r] = held[r] /\ fresh'[r] = fresh[r],
           UNCHANGED <<instances, built, serving>>
    PROVE  ReloadOK'
  BY DEF ReloadOK, Unswapped

(* ... and for the instances that serve.                                   *)
LEMMA ServingQuiet ==
    ASSUME ServingOK,
           \A r \in Reloaders : pc'[r] = pc[r] /\ held'[r] = held[r] /\
                 fresh'[r] = fresh[r],
           UNCHANGED <<instances, serving, handed, rebuilt>>,
           \A n \in Names : state'[n] = "Running" => state[n] = "Running"
    PROVE  ServingOK'
  <1>1. Kept' = Kept
    BY DEF Kept
  <1> QED
    BY <1>1 DEF ServingOK

InstInv == InstancesOK /\ ReloadOK /\ ServingOK

(* What NoClash says of an operator that awaits a build, a start or a stop,*)
(* and of two reloads.                                                     *)
LEMMA KeepOff ==
    ASSUME TypeOK, NoClash
    PROVE  /\ \A t, u \in Operators : pc[t] = "call" /\ pc[u] = "call" /\ t # u =>
                 Head(todo[t]) # Head(todo[u])
           /\ \A t \in Operators, r \in Reloaders :
                 /\ pc[t] = "call" /\ pc[r] \in {"check", "pre", "start", "swap", "running"}
                 /\ op[t] = "start" => pc[r] # "check"
                 => Head(todo[t]) # Head(todo[r])
           /\ \A r, u \in Reloaders :
                 /\ pc[r] \in {"check", "pre", "start", "swap", "running"}
                 /\ pc[u] \in {"check", "pre", "start", "swap", "running"}
                 /\ r # u
                 => Head(todo[r]) # Head(todo[u])
  <1>1. \A t \in Operators : pc[t] \notin {"check", "pre", "start", "swap", "running"}
    BY TheirTasks DEF TypeOK, StepsOK, Fits
  <1>2. \A r \in Reloaders : op[r] # "start"
    BY DEF TypeOK, StepsOK
  <1> QED
    BY <1>1, <1>2, TheirTasks DEF NoClash, AtWork, MayMeet

(* Building, starting, stopping and swapping lose no instance of tasks     *)
(* that keep off each other's component.                                   *)
LEMMA InstanceStep == TypeOK /\ NoClash /\ InstInv /\ [Next]_vars => InstInv'
  <1> SUFFICES ASSUME TypeOK, NoClash, InstancesOK, ReloadOK, ServingOK, [Next]_vars
               PROVE  InstInv'
    BY DEF InstInv
  <1>t. /\ TasksOK /\ RegistryOK
        /\ \A t \in Operators : t \in Tasks /\ t \notin Reloaders
        /\ \A t \in Reloaders : t \in Tasks /\ t \notin Operators
    BY TheirTasks DEF TypeOK
  <1>b. /\ built \in Nat /\ \A n \in Names : instances[n] \in Nat /\ instances[n] <= built
        /\ \A i \in serving : i \in Nat /\ i <= built
    BY <1>t DEF RegistryOK, InstancesOK
  <1>r. ASSUME NEW t \in Operators, OperatorStep(t)
        PROVE  /\ op' = op
               /\ \A r \in Reloaders : pc'[r] = pc[r] /\ todo'[r] = todo[r] /\
                        held'[r] = held[r] /\ fresh'[r] = fresh[r]
               /\ \A u \in Operators : u # t => pc'[u] = pc[u] /\ op'[u] = op[u] /\
                        todo'[u] = todo[u] /\ held'[u] = held[u]
    BY <1>t, <1>r, OneSteps
  <1>h. /\ \A u \in Operators : pc[u] = "call" => Head(todo[u]) \in Names
        /\ \A r \in Reloaders : pc[r] \in {"check", "pre", "start", "swap", "running"} =>
              Head(todo[r]) \in Names
    BY <1>t, HeadOf
  <1>1. ASSUME NEW t \in Operators,
               \/ \E n \in Names : BeginRegister(t, n) \/ BeginUnregister(t, n)
               \/ \E o \in Lifecycle : BeginAll(t, o)
        PROVE  InstInv'
    <2>1. /\ pc'[t] # "call"
          /\ \A u \in Tasks : u # t => /\ pc'[u] = pc[u] /\ op'[u] = op[u]
                                       /\ todo'[u] = todo[u]
                                       /\ held'[u] = held[u] /\ fresh'[u] = fresh[u]
      BY <1>t, <1>1, AfterOperation
    <2>2. UNCHANGED <<instances, built, serving, handed, rebuilt, state>>
      BY <1>1 DEF BeginRegister, BeginUnregister, BeginAll
    <2>3. InstancesOK'
      BY <1>t, <2>1, <2>2, InstancesQuiet
    <2>4. ReloadOK' /\ ServingOK'
      BY <1>t, <2>1, <2>2, ReloadQuiet, ServingQuiet
    <2> QED
      BY <2>3, <2>4 DEF InstInv
  <1>2. ASSUME NEW t \in Operators,
               \/ (\E D \in SUBSET Names : Describe(t, D)) \/ Pend(t) \/ Invalidate(t)
               \/ Undescribe(t) \/ Unpend(t) \/ CheckNext(t) \/ TakeFactory(t)
        PROVE  InstInv'
    <2>1. OperatorStep(t)
      BY <1>2 DEF OperatorStep
    <2>2. UNCHANGED <<instances, built, serving, handed, rebuilt>>
      BY <1>2 DEF Describe, Pend, Invalidate, Undescribe, Unpend, CheckNext, TakeFactory,
                  registryVars, historyVars
    <2>3. \A n \in Names : state'[n] = "Running" => state[n] = "Running"
      <3>1. CASE state' = state
        BY <3>1
      <3>2. CASE \E s \in {"Pending", "Absent", "Initializing"} : SetState(Head(todo[t]), s)
        BY <1>t, <3>2 DEF SetState, RegistryOK
      <3> QED
        BY <1>2, <3>1, <3>2 DEF Describe, Pend, Invalidate, Undescribe, Unpend, CheckNext,
                                TakeFactory, registryVars
    <2>4. pc'[t] = "call" => op'[t] = "init"
      <3>1. CASE TakeFactory(t)
        BY <1>r, <2>1, <3>1 DEF TakeFactory, At
      <3>2. CASE CheckNext(t)
        <4>1. Go(t, "idle") \/ Go(t, "take") \/ Advance(t, TRUE)
          BY <3>2 DEF CheckNext
        <4>2. pc'[t] \in {"idle", "take", "next"}
          BY <1>t, <4>1, AfterGo, AfterAdvance
        <4> QED
          BY <4>2
      <3>3. CASE ~TakeFactory(t) /\ ~CheckNext(t)
        BY <1>t, <1>2, <3>3, AfterGo, AfterFail
           DEF Describe, Pend, Invalidate, Undescribe, Unpend
      <3> QED
        BY <3>1, <3>2, <3>3
    <2>5. InstancesOK'
      BY <1>r, <2>1, <2>2, <2>4, InstancesQuiet
    <2>6. ReloadOK' /\ ServingOK'
      BY <1>r, <2>1, <2>2, <2>3, ReloadQuiet, ServingQuiet
    <2> QED
      BY <2>5, <2>6 DEF InstInv
  <1>3. ASSUME NEW t \in Operators, Built(t) PROVE InstInv'
    <2> DEFINE n == Head(todo[t])
    <2>1. OperatorStep(t) /\ op[t] = "init" /\ pc[t] = "call"
      BY <1>3 DEF OperatorStep, Built, At
    <2>2. n \in Names
      BY <1>h, <2>1
    <2>3. PICK ok : Advance(t, ok)
      BY <1>3 DEF Built
    <2>4. pc'[t] = "next"
      BY <1>t, <2>3, AfterAdvance
    <2>5. /\ \A u \in Operators : pc[u] = "call" /\ u # t => Head(todo[u]) # n
          /\ \A r \in Reloaders : pc[r] \in {"check", "pre", "start", "swap", "running"} =>
                Head(todo[r]) # n
      BY <2>1, KeepOff
    <2>6. CASE SetState(n, "Failed") /\ UNCHANGED <<instances, built, rebuilt>>
      <3>1. UNCHANGED <<instances, built, rebuilt, serving, handed>>
        BY <1>3, <2>6 DEF Built
      <3>2. \A m \in Names : state'[m] = "Running" => state[m] = "Running"
        BY <1>t, <2>2, <2>6, AfterSet
      <3>3. InstancesOK'
        BY <1>r, <2>1, <2>4, <3>1, InstancesQuiet
      <3>4. ReloadOK' /\ ServingOK'
        BY <1>r, <2>1, <3>1, <3>2, ReloadQuiet, ServingQuiet
      <3> QED
        BY <3>3, <3>4 DEF InstInv
    <2>7. CASE /\ built' = built + 1 /\ SetState(n, "Initialized")
               /\ instances' = [instances EXCEPT ![n] = built + 1]
               /\ rebuilt' = rebuilt \cup {instances[n]}
      <3>1. serving' = serving /\ handed' = handed
        BY <1>3 DEF Built
      <3>2. \A m \in Names : instances'[m] = IF m = n THEN built + 1 ELSE instances[m]
        BY <1>t, <2>2, <2>7 DEF RegistryOK
      <3>3. \A m \in Names : state'[m] = IF m = n THEN "Initialized" ELSE state[m]
        BY <1>t, <2>2, <2>7, AfterSet
      <3> HIDE DEF n
      <3>4. InstancesOK'
        <4>1. /\ \A m \in Names : instances'[m] <= built'
              /\ \A i \in serving : i <= built'
          BY <1>b, <2>7, <3>2
        <4>2. \A k, m \in Names : instances'[k] = instances'[m] /\ instances'[k] # 0 =>
                    k = m
          BY <1>b, <3>2 DEF InstancesOK, Found
        <4>3. \A u \in Operators : pc'[u] = "call" => u # t /\ Head(todo[u]) \in Names
          BY <1>h, <1>r, <2>1, <2>4
        <4>4. \A u \in Operators : pc'[u] = "call" /\ op'[u] \in {"start", "stop"} =>
                  held'[u] = instances'[Head(todo'[u])] /\ held'[u] # 0
          BY <1>r, <2>1, <2>5, <3>2, <4>3 DEF InstancesOK
        <4> QED
          BY <3>1, <4>1, <4>2, <4>4 DEF InstancesOK, Found
      <3>5. ReloadOK'
        <4>1. \A r \in Reloaders : pc[r] \in {"check", "pre", "start", "swap", "running"} =>
                  instances'[Head(todo[r])] = instances[Head(todo[r])]
          BY <1>h, <2>5, <3>2
        <4>2. ASSUME NEW r \in Unswapped
              PROVE  fresh[r] <= built' /\ \A m \in Names : instances'[m] # fresh[r]
          <5>1. fresh[r] \in Nat /\ fresh[r] <= built /\ \A m \in Names : instances[m] # fresh[r]
            BY <1>t DEF ReloadOK, Unswapped, TasksOK
          <5> QED
            BY <1>b, <2>7, <3>2, <5>1
        <4>3. Unswapped' = Unswapped
          BY <1>r, <2>1 DEF Unswapped
        <4> QED
          BY <1>r, <2>1, <3>1, <4>1, <4>2, <4>3 DEF ReloadOK, Unswapped
      <3>6. \A m \in Names : state'[m] = "Running" => instances'[m] \in serving
        BY <3>2, <3>3 DEF ServingOK
      <3>7. serving \subseteq Kept'
        <4>1. \A m \in Names : instances[m] \in {instances'[k] : k \in Names} \cup rebuilt'
          BY <2>7, <3>2
        <4> QED
          BY <1>r, <2>1, <2>7, <3>1, <4>1 DEF ServingOK, Kept
      <3> QED
        BY <3>1, <3>4, <3>5, <3>6, <3>7 DEF InstInv, ServingOK
    <2> QED
      BY <1>3, <2>6, <2>7 DEF Built
  <1>4. ASSUME NEW t \in Operators, TakeInstance(t) PROVE InstInv'
    <2> DEFINE n == Head(todo[t])
    <2>1. OperatorStep(t) /\ op[t] \in {"start", "stop"} /\ pc[t] = "take"
      BY <1>4 DEF OperatorStep, TakeInstance
    <2>2. n \in Names
      BY <1>t, <2>1, HeadOf
    <2>3. UNCHANGED <<instances, built, serving, handed, rebuilt>>
      BY <1>4 DEF TakeInstance, historyVars
    <2>4. \A m \in Names : state'[m] = "Running" => state[m] = "Running"
      <3>1. PICK s \in {"Starting", "Stopping"} : SetState(n, s)
        BY <1>4 DEF TakeInstance
      <3> QED
        BY <1>t, <2>2, <3>1, AfterSet
    <2>5. InstancesOK'
      <3>1. CASE Found(n)
        <4>1. todo' = todo /\ held'[t] = instances[n]
          BY <1>t, <1>4, <3>1 DEF TakeInstance, TasksOK
        <4> QED
          BY <1>r, <2>1, <2>3, <3>1, <4>1, InstancesQuiet DEF Found
      <3>2. CASE ~Found(n)
        <4>1. Advance(t, TRUE)
          BY <1>4, <3>2 DEF TakeInstance
        <4>2. pc'[t] = "next"
          BY <1>t, <4>1, AfterAdvance
        <4> QED
          BY <1>r, <2>1, <2>3, <4>2, InstancesQuiet
      <3> QED
        BY <3>1, <3>2
    <2>6. ReloadOK' /\ ServingOK'
      BY <1>r, <2>1, <2>3, <2>4, ReloadQuiet, ServingQuiet
    <2> QED
      BY <2>5, <2>6 DEF InstInv
  <1>5. ASSUME NEW t \in Operators, Started(t) \/ Stopped(t) PROVE InstInv'
    <2> DEFINE n == Head(todo[t])
    <2>1. OperatorStep(t) /\ op[t] \in {"start", "stop"} /\ pc[t] = "call"
      BY <1>5 DEF OperatorStep, Started, Stopped, At
    <2>2. n \in Names /\ held[t] = instances[n] /\ held[t] # 0
      BY <1>h, <2>1 DEF InstancesOK
    <2>3. pc'[t] = "next"
      BY <1>t, <1>5, AfterAdvance DEF Started, Stopped
    <2>4. UNCHANGED <<instances, built, handed, rebuilt>>
      BY <1>5 DEF Started, Stopped
    <2>5. PICK s \in {"Running", "Failed", "Stopped"} :
            /\ SetState(n, s)
            /\ \/ op[t] = "start" /\ s = "Running" /\ serving' = serving \cup {held[t]}
               \/ op[t] = "start" /\ s = "Failed" /\ serving' = serving
               \/ op[t] = "stop" /\ s = "Stopped" /\ serving' = serving \ {held[t]}
      BY <1>5 DEF Started, Stopped, At
    <2>6. \A m \in Names : state'[m] = IF m = n THEN s ELSE state[m]
      BY <1>t, <2>2, <2>5, AfterSet
    <2>7. InstancesOK'
      <3>1. \A i \in serving' : i <= built
        BY <1>b, <2>2, <2>5
      <3>2. \A u \in Operators : pc'[u] = "call" => u # t
        BY <2>3
      <3> HIDE DEF n
      <3> QED
        BY <1>r, <2>1, <2>4, <3>1, <3>2 DEF InstancesOK, Found
    <2>8. ReloadOK'
      <3>1. ASSUME NEW r \in Unswapped PROVE fresh[r] \in serving' <=> fresh[r] \in serving
        BY <2>2, <2>5, <3>1 DEF ReloadOK
      <3>2. ASSUME NEW r \in Reloaders, pc[r] = "running" PROVE fresh[r] \in serving'
        <4>1. /\ fresh[r] = instances[Head(todo[r])] /\ fresh[r] \in serving
              /\ Head(todo[r]) \in Names /\ Head(todo[r]) # n
          BY <1>h, <2>1, <3>2, KeepOff DEF ReloadOK
        <4>2. fresh[r] # held[t]
          BY <2>2, <4>1 DEF InstancesOK, Found
        <4> QED
          BY <2>5, <4>1, <4>2
      <3>3. Unswapped' = Unswapped
        BY <1>r, <2>1 DEF Unswapped
      <3> HIDE DEF n
      <3> QED
        BY <1>r, <2>1, <2>4, <3>1, <3>2, <3>3 DEF ReloadOK, Unswapped
    <2> HIDE DEF n
    <2>9. Kept' = Kept
      BY <1>r, <2>1, <2>4 DEF Kept
    <2>10. ASSUME NEW m \in Names, state'[m] = "Running" PROVE instances[m] \in serving'
      <3>1. CASE m = n
        BY <2>2, <2>5, <2>6, <2>10, <3>1
      <3>2. CASE m # n
        <4>1. instances[m] \in serving
          BY <2>6, <2>10, <3>2 DEF ServingOK
        <4>2. instances[m] # held[t]
          BY <2>2, <3>2 DEF InstancesOK, Found
        <4> QED
          BY <2>5, <4>1, <4>2
      <3> QED
        BY <3>1, <3>2
    <2>11. serving' \subseteq Kept
      <3>1. held[t] \in Kept
        BY <2>2 DEF Kept
      <3> QED
        BY <2>5, <3>1 DEF ServingOK
    <2> QED
      BY <2>4, <2>7, <2>8, <2>9, <2>10, <2>11 DEF InstInv, ServingOK
  <1>6. ASSUME NEW r \in Reloaders, NEW n \in Names, BeginReload(r, n) PROVE InstInv'
    <2>1. /\ built' = built + 1 /\ state' = state
          /\ UNCHANGED <<instances, serving, handed, rebuilt>>
      BY <1>6 DEF BeginReload, registryVars
    <2>2. /\ pc[r] = "idle" /\ todo'[r] = <<n>> /\ Head(todo'[r]) = n
          /\ ~Found(n) => pc'[r] = "idle"
          /\ Found(n) => pc'[r] = "check" /\ held'[r] = instances[n] /\
                   fresh'[r] = built + 1
      BY <1>t, <1>6, AfterReload
    <2>3. \A u \in Tasks : u # r => pc'[u] = pc[u] /\ op'[u] = op[u] /\
                todo'[u] = todo[u] /\ held'[u] = held[u] /\ fresh'[u] = fresh[u]
      BY <1>t, <1>6, AfterReload
    <2>4. InstancesOK'
      <3>1. /\ \A m \in Names : instances[m] <= built + 1
            /\ \A i \in serving : i <= built + 1
        BY <1>b
      <3> QED
        BY <1>t, <2>1, <2>3, <3>1 DEF InstancesOK, Found
    <2>5. ReloadOK'
      <3>1. built + 1 # 0 /\ built + 1 \notin serving /\ \A m \in Names :
                  instances[m] # built + 1
        BY <1>b
      <3>2. \A u \in Unswapped : /\ u # r /\ u \in Tasks /\ fresh[u] # built + 1
                                 /\ fresh[u] <= built + 1
        <4>1. \A u \in Unswapped : u # r /\ u \in Tasks /\ fresh[u] \in Nat /\ fresh[u] <= built
          BY <1>t, <2>2 DEF ReloadOK, Unswapped, TasksOK
        <4> QED
          BY <1>b, <4>1
      <3>3. Unswapped' = IF Found(n) THEN Unswapped \cup {r} ELSE Unswapped
        BY <1>t, <2>2, <2>3 DEF Unswapped
      <3>4. \A u \in Reloaders : pc'[u] = "running" => u # r /\ u \in Tasks
        BY <1>t, <2>2
      <3>5. \A u \in Unswapped' :
              /\ held'[u] = instances'[Head(todo'[u])] /\ held'[u] # 0
              /\ fresh'[u] # 0 /\ fresh'[u] <= built'
              /\ \A m \in Names : instances'[m] # fresh'[u]
              /\ fresh'[u] \in serving' <=> pc'[u] = "swap"
        <4> SUFFICES ASSUME NEW u \in Unswapped'
                     PROVE  /\ held'[u] = instances[Head(todo'[u])] /\ held'[u] # 0
                            /\ fresh'[u] # 0 /\ fresh'[u] <= built + 1
                            /\ \A m \in Names : instances[m] # fresh'[u]
                            /\ fresh'[u] \in serving <=> pc'[u] = "swap"
          BY <2>1
        <4>1. CASE u \in Unswapped
          BY <2>3, <3>2, <4>1 DEF ReloadOK
        <4>2. CASE u = r /\ Found(n)
          BY <1>b, <2>2, <3>1, <4>2 DEF Found
        <4> QED
          BY <3>3, <4>1, <4>2
      <3>6. \A u, v \in Unswapped' : fresh'[u] = fresh'[v] => u = v
        BY <2>2, <2>3, <3>2, <3>3 DEF ReloadOK
      <3>7. \A u \in Reloaders : pc'[u] = "running" =>
                instances'[Head(todo'[u])] = fresh'[u] /\ fresh'[u] \in serving'
        BY <2>1, <2>3, <3>4 DEF ReloadOK
      <3> QED
        BY <3>5, <3>6, <3>7 DEF ReloadOK
    <2>6. Kept \subseteq Kept'
      BY <1>t, <2>1, <2>2, <2>3 DEF Kept
    <2>7. ServingOK'
      BY <2>1, <2>6 DEF ServingOK
    <2> QED
      BY <2>4, <2>5, <2>7 DEF InstInv
  <1>7. ASSUME NEW r \in Reloaders, ReloaderStep(r) PROVE InstInv'
    <2> DEFINE n == Head(todo[r])
    <2>1. /\ UNCHANGED <<op, todo, held, fresh, built, rebuilt>>
          /\ \A u \in Tasks : u # r => pc'[u] = pc[u]
      BY <1>7, <1>t, AfterGo, AfterFail
         DEF ReloaderStep, CheckRunning, PreReplaced, NewStarted, NotStarted, Swap, SetRunning,
             PostReplaced, historyVars
    <2>2. \A u \in Operators : u \in Tasks /\ u # r
      BY <1>t
    <2>3. CASE CheckRunning(r) \/ PreReplaced(r)
      <3>1. UNCHANGED <<state, instances, serving, handed>>
        BY <2>3 DEF CheckRunning, PreReplaced, registryVars, historyVars
      <3>2. pc[r] \in {"check", "pre"} /\ pc'[r] \in {"idle", "pre", "start"}
        BY <1>t, <2>3, AfterGo, AfterFail DEF CheckRunning, PreReplaced, At
      <3>3. InstancesOK'
        BY <2>1, <2>2, <3>1 DEF InstancesOK, Found
      <3>4. Unswapped' \subseteq Unswapped
        BY <1>t, <2>1, <3>2 DEF Unswapped
      <3>5. ReloadOK'
        <4>1. \A u \in Unswapped : pc'[u] = "swap" <=> pc[u] = "swap"
          BY <1>t, <2>1, <3>2 DEF Unswapped
        <4>2. \A u \in Reloaders : pc'[u] = "running" => pc[u] = "running"
          BY <1>t, <2>1, <3>2
        <4> QED
          BY <2>1, <3>1, <3>4, <4>1, <4>2 DEF ReloadOK
      <3>6. Kept' = Kept
        BY <1>t, <2>1, <3>1, <3>2 DEF Kept
      <3> QED
        BY <3>1, <3>3, <3>5, <3>6 DEF InstInv, ServingOK
    <2>4. CASE NewStarted(r)
      <3>1. pc[r] = "start" /\ UNCHANGED <<state, instances, handed>>
        BY <2>4 DEF NewStarted, At, registryVars
      <3>2. \/ pc'[r] = "swap" /\ serving' = serving \cup {fresh[r]}
            \/ pc'[r] = "idle" /\ serving' = serving
        BY <1>t, <2>4, AfterGo, AfterFail DEF NewStarted, NotStarted
      <3>3. /\ r \in Unswapped /\ fresh[r] <= built
            /\ \A u \in Unswapped : u # r => fresh[u] # fresh[r]
        BY <3>1 DEF ReloadOK, Unswapped
      <3>4. InstancesOK'
        BY <2>1, <2>2, <3>1, <3>2, <3>3 DEF InstancesOK, Found
      <3>5. ReloadOK'
        <4>1. Unswapped' \subseteq Unswapped /\ (r \in Unswapped' => pc'[r] = "swap")
          BY <1>t, <2>1, <3>1, <3>2 DEF Unswapped
        <4>2. \A u \in Unswapped' : fresh[u] \in serving' <=> pc'[u] = "swap"
          <5> SUFFICES ASSUME NEW u \in Unswapped'
                       PROVE  fresh[u] \in serving' <=> pc'[u] = "swap"
            OBVIOUS
          <5>1. CASE u = r
            BY <3>2, <4>1, <5>1
          <5>2. CASE u # r
            <6>1. u \in Tasks /\ u \in Unswapped
              BY <1>t, <4>1 DEF Unswapped
            <6>2. pc'[u] = pc[u] /\ fresh[u] # fresh[r]
              BY <2>1, <3>3, <5>2, <6>1
            <6> QED
              BY <3>2, <6>1, <6>2 DEF ReloadOK
          <5> QED
            BY <5>1, <5>2
        <4>3. \A u \in Reloaders : pc'[u] = "running" => pc[u] = "running"
          BY <1>t, <2>1, <3>2
        <4>4. serving \subseteq serving'
          BY <3>2
        <4> QED
          BY <2>1, <3>1, <4>1, <4>2, <4>3, <4>4 DEF ReloadOK
      <3>6. serving' \subseteq Kept'
        <4>1. Kept \subseteq Kept'
          BY <1>t, <2>1, <3>1, <3>2 DEF Kept
        <4>2. pc'[r] = "swap" => fresh[r] \in Kept'
          BY <2>1 DEF Kept
        <4> QED
          BY <3>2, <4>1, <4>2 DEF ServingOK
      <3>7. \A m \in Names : state'[m] = "Running" => instances'[m] \in serving'
        BY <3>1, <3>2 DEF ServingOK
      <3> QED
        BY <3>4, <3>5, <3>6, <3>7 DEF InstInv, ServingOK
    <2>5. CASE Swap(r)
      <3>1. pc[r] = "swap" /\ n \in Names
        BY <1>h, <2>5 DEF Swap, At
      <3>2. /\ UNCHANGED <<state, serving, handed>>
            /\ \A m \in Names : instances'[m] = IF m = n THEN fresh[r] ELSE instances[m]
        BY <1>t, <2>5, <3>1 DEF Swap, historyVars, RegistryOK
      <3>3. pc'[r] = "running"
        BY <1>t, <2>5, AfterGo DEF Swap
      <3>4. /\ r \in Unswapped /\ held[r] = instances[n] /\ fresh[r] <= built
            /\ fresh[r] \in serving /\ fresh[r] # 0
            /\ \A m \in Names : instances[m] # fresh[r]
            /\ \A u \in Unswapped : u # r => fresh[u] # fresh[r]
        BY <3>1 DEF ReloadOK, Unswapped
      <3>5. /\ \A u \in Operators : pc[u] = "call" => Head(todo[u]) # n
            /\ \A u \in Reloaders : u # r /\ pc[u] \in {"check", "pre", "start", "swap", "running"}
                  => Head(todo[u]) # n
        BY <3>1, KeepOff
      <3>6. Unswapped' = Unswapped \ {r}
        BY <1>t, <2>1, <3>3 DEF Unswapped
      <3>7. n = Head(todo[r])
        OBVIOUS
      <3> HIDE DEF n
      <3>8. InstancesOK'
        <4>1. \A k, m \in Names : instances'[k] = instances'[m] /\ instances'[k] # 0 =>
                    k = m
          BY <3>1, <3>2, <3>4 DEF InstancesOK, Found
        <4>2. \A u \in Operators : pc[u] = "call" /\ op[u] \in {"start", "stop"} =>
                  held[u] = instances'[Head(todo[u])] /\ held[u] # 0
          BY <1>h, <3>2, <3>5 DEF InstancesOK
        <4> QED
          BY <2>1, <2>2, <3>2, <3>4, <4>1, <4>2 DEF InstancesOK, Found
      <3>9. ReloadOK'
        <4>1. \A u \in Reloaders : u # r /\ pc[u] \in {"check", "pre", "start", "swap", "running"}
                  => instances'[Head(todo[u])] = instances[Head(todo[u])]
          BY <1>h, <3>2, <3>5
        <4>2. ASSUME NEW u \in Unswapped, u # r
              PROVE  /\ held[u] = instances'[Head(todo[u])]
                     /\ \A m \in Names : instances'[m] # fresh[u]
                     /\ pc'[u] = pc[u]
          BY <1>t, <2>1, <3>2, <3>4, <4>1, <4>2 DEF ReloadOK, Unswapped
        <4>3. \A u \in Reloaders : pc'[u] = "running" =>
                  instances'[Head(todo[u])] = fresh[u] /\ fresh[u] \in serving
          <5> SUFFICES ASSUME NEW u \in Reloaders, pc'[u] = "running"
                       PROVE  instances'[Head(todo[u])] = fresh[u] /\ fresh[u] \in serving
            OBVIOUS
          <5>1. CASE u = r
            BY <3>1, <3>2, <3>4, <3>7, <5>1
          <5>2. CASE u # r
            BY <1>t, <2>1, <4>1, <5>2 DEF ReloadOK
          <5> QED
            BY <5>1, <5>2
        <4> QED
          BY <2>1, <3>2, <3>6, <4>2, <4>3 DEF ReloadOK
      <3>10. \A m \in Names : state'[m] = "Running" => instances'[m] \in serving
        BY <3>2, <3>4 DEF ServingOK
      <3>11. serving \subseteq Kept'
        <4>1. \A m \in Names : instances[m] \in {instances'[k] : k \in Names} \cup {held[r]}
          BY <3>2, <3>4
        <4>2. fresh[r] \in {instances'[k] : k \in Names}
          BY <3>1, <3>2
        <4>3. \A u \in Reloaders : u # r => pc'[u] = pc[u]
          BY <1>t, <2>1
        <4> QED
          BY <2>1, <3>1, <3>2, <3>3, <4>1, <4>2, <4>3 DEF ServingOK, Kept
      <3> QED
        BY <3>2, <3>8, <3>9, <3>10, <3>11 DEF InstInv, ServingOK
    <2>6. CASE SetRunning(r)
      <3>1. pc[r] = "running" /\ n \in Names
        BY <1>h, <2>6 DEF SetRunning, At
      <3>2. UNCHANGED <<instances, serving, handed>>
        BY <2>6 DEF SetRunning, historyVars
      <3>3. pc'[r] = "post"
        BY <1>t, <2>6, AfterGo DEF SetRunning
      <3>4. \A m \in Names : state'[m] = IF m = n THEN "Running" ELSE state[m]
        BY <1>t, <2>6, <3>1, AfterSet DEF SetRunning
      <3>5. instances[n] \in serving
        BY <3>1 DEF ReloadOK
      <3> HIDE DEF n
      <3>6. InstancesOK'
        BY <2>1, <2>2, <3>2 DEF InstancesOK, Found
      <3>7. ReloadOK'
        <4>1. Unswapped' = Unswapped /\ \A u \in Unswapped : pc'[u] = pc[u]
          BY <1>t, <2>1, <3>1, <3>3 DEF Unswapped
        <4>2. \A u \in Reloaders : pc'[u] = "running" => pc[u] = "running"
          BY <1>t, <2>1, <3>3
        <4> QED
          BY <2>1, <3>2, <4>1, <4>2 DEF ReloadOK
      <3>8. Kept' = Kept
        BY <1>t, <2>1, <3>1, <3>2, <3>3 DEF Kept
      <3> QED
        BY <3>2, <3>4, <3>5, <3>6, <3>7, <3>8 DEF InstInv, ServingOK
    <2>7. CASE PostReplaced(r)
      <3>1. /\ pc[r] = "post" /\ UNCHANGED <<state, instances, serving>>
            /\ handed' = handed \cup {held[r]}
        BY <2>7 DEF PostReplaced, Returned, At, registryVars
      <3>2. pc'[r] = "idle"
        BY <1>t, <2>7, AfterGo DEF PostReplaced
      <3>3. InstancesOK'
        BY <2>1, <2>2, <3>1 DEF InstancesOK, Found
      <3>4. ReloadOK'
        <4>1. Unswapped' = Unswapped /\ \A u \in Unswapped : pc'[u] = pc[u]
          BY <1>t, <2>1, <3>1, <3>2 DEF Unswapped
        <4>2. \A u \in Reloaders : pc'[u] = "running" => pc[u] = "running"
          BY <1>t, <2>1, <3>2
        <4> QED
          BY <2>1, <3>1, <4>1, <4>2 DEF ReloadOK
      <3>5. Kept \subseteq Kept'
        BY <1>t, <2>1, <3>1, <3>2 DEF Kept
      <3> QED
        BY <3>1, <3>3, <3>4, <3>5 DEF InstInv, ServingOK
    <2> QED
      BY <1>7, <2>3, <2>4, <2>5, <2>6, <2>7 DEF ReloaderStep
  <1>8. CASE (\E t \in Reloaders : ReadNames(t)) \/ UNCHANGED vars
    <2>1. UNCHANGED <<pc, op, todo, held, fresh, state, instances, built, serving, handed, rebuilt>>
      BY <1>8 DEF ReadNames, vars, registryVars, taskVars, historyVars
    <2> QED
      BY <2>1 DEF InstInv, InstancesOK, ReloadOK, Unswapped, ServingOK, Kept, Found
  <1> QED
    BY <1>1, <1>2, <1>3, <1>4, <1>5, <1>6, <1>7, <1>8 DEF Next, OperatorStep, Lifecycle

-----------------------------------------------------------------------------
(* The order of starts and stops *)

(* What a component is started after, what it is stopped after, and the    *)
(* components a start or a stop has still to deal with.                    *)
Needs == [n \in Names |-> deps[n] \cap described]
NeededBy == [n \in Names |-> {m \in described : n \in deps[m]}]
Unstarted == {n \in Names : state[n] \in {"Initializing", "Initialized", "Starting"}}
Up == {n \in Names : state[n] \in {"Running", "Starting"}}
Unstopped == {n \in Names : state[n] \in {"Running", "Initialized"}}

(* In names, whatever a component has to wait for comes before it.         *)
Sorted(names, before, waiting) ==
    \A i \in DOMAIN names : \A m \in before[names[i]] \cap waiting :
        \E j \in DOMAIN names : j < i /\ names[j] = m

(* Every component that has to be dealt with comes in names.               *)
Occur(names, waiting) == \A m \in waiting : \E i \in DOMAIN names : names[i] = m

(* The loop goes on to the rest once the first is dealt with.              *)
LEMMA SortedTail ==
    ASSUME NEW s \in Seq(Names), s # <<>>, NEW before, NEW W, Sorted(s, before, W),
           NEW V, V \subseteq W \ {Head(s)}
    PROVE  Sorted(Tail(s), before, V)
  <1>1. /\ Len(s) \in Nat /\ DOMAIN s = 1..Len(s) /\ DOMAIN Tail(s) = 1..(Len(s) - 1)
        /\ \A i \in 1..(Len(s) - 1) : Tail(s)[i] = s[i + 1]
        /\ Head(s) = s[1]
    OBVIOUS
  <1> SUFFICES ASSUME NEW i \in DOMAIN Tail(s), NEW m \in before[Tail(s)[i]] \cap V
               PROVE  \E j \in DOMAIN Tail(s) : j < i /\ Tail(s)[j] = m
    BY DEF Sorted
  <1>2. i + 1 \in DOMAIN s /\ m \in before[s[i + 1]] \cap W
    BY <1>1
  <1>3. PICK j \in DOMAIN s : j < i + 1 /\ s[j] = m
    BY <1>2 DEF Sorted
  <1>4. j # 1
    BY <1>1, <1>3
  <1>5. j - 1 \in 1..(Len(s) - 1) /\ j - 1 < i /\ j - 1 + 1 = j
    BY <1>1, <1>3, <1>4
  <1>6. Tail(s)[j - 1] = m
    BY <1>1, <1>3, <1>5
  <1> QED
    BY <1>1, <1>5, <1>6

(* Nor does the loop leave out a component.                                *)
LEMMA OccurTail ==
    ASSUME NEW s \in Seq(Names), s # <<>>, NEW W, Occur(s, W), NEW V, V \subseteq W \ {Head(s)}
    PROVE  Occur(Tail(s), V)
  <1>1. /\ Len(s) \in Nat /\ DOMAIN s = 1..Len(s) /\ DOMAIN Tail(s) = 1..(Len(s) - 1)
        /\ \A i \in 1..(Len(s) - 1) : Tail(s)[i] = s[i + 1]
        /\ Head(s) = s[1]
    OBVIOUS
  <1> SUFFICES ASSUME NEW m \in V PROVE \E i \in 1..(Len(s) - 1) : Tail(s)[i] = m
    BY <1>1 DEF Occur
  <1>2. PICK i \in DOMAIN s : s[i] = m
    BY DEF Occur
  <1>3. i - 1 \in 1..(Len(s) - 1) /\ i - 1 + 1 = i
    BY <1>1, <1>2
  <1> QED
    BY <1>1, <1>2, <1>3

(* The first component waits for nothing.                                  *)
LEMMA HeadSorted ==
    ASSUME NEW s \in Seq(Names), s # <<>>, NEW before, NEW W, Sorted(s, before, W)
    PROVE  before[Head(s)] \cap W = {}
  <1>1. 1 \in DOMAIN s /\ Head(s) = s[1] /\ DOMAIN s \subseteq Nat \ {0}
    OBVIOUS
  <1> QED
    BY <1>1 DEF Sorted

(* An order of the descriptors is sorted for a start, its reverse for a    *)
(* stop, and every component occurs in it.                                 *)
LEMMA OrderSorted ==
    ASSUME TypeOK, NEW order \in Orders
    PROVE  /\ Sorted(order, Needs, Unstarted)
           /\ Sorted(Reverse(order), NeededBy, Up)
           /\ Occur(Reverse(order), Unstopped \cap described)
  <1>1. /\ order \in Seq(Names) /\ order \in Seq(described) /\ Follows(order, deps)
        /\ \A n \in described : \E i \in DOMAIN order : order[i] = n
    BY OrdersAreSequences
  <1>2. Len(order) \in Nat /\ DOMAIN order = 1..Len(order) /\ \A i \in DOMAIN order :
              order[i] \in Names
    BY <1>1
  <1>3. /\ Reverse(order) \in Seq(Names) /\ DOMAIN Reverse(order) = 1..Len(order)
        /\ \A i \in 1..Len(order) : Reverse(order)[i] = order[Len(order) - i + 1]
        /\ \A i \in DOMAIN order : \E j \in DOMAIN Reverse(order) :
               j = Len(order) - i + 1 /\ Reverse(order)[j] = order[i]
    BY <1>1, ReverseIs
  <1>4. Sorted(order, Needs, Unstarted)
    <2> SUFFICES ASSUME NEW i \in DOMAIN order, NEW m \in Needs[order[i]]
                 PROVE  \E j \in DOMAIN order : j < i /\ order[j] = m
      BY DEF Sorted
    <2>1. m \in deps[order[i]] /\ m \in described
      BY <1>2 DEF Needs
    <2>2. PICK j \in DOMAIN order : order[j] = m
      BY <1>1, <2>1
    <2>3. j < i
      BY <1>1, <2>1, <2>2 DEF Follows
    <2> QED
      BY <2>2, <2>3
  <1>5. Sorted(Reverse(order), NeededBy, Up)
    <2> SUFFICES ASSUME NEW i \in DOMAIN Reverse(order), NEW m \in NeededBy[Reverse(order)[i]]
                 PROVE  \E j \in DOMAIN Reverse(order) : j < i /\ Reverse(order)[j] = m
      BY DEF Sorted
    <2> DEFINE k == Len(order) - i + 1
    <2>1. k \in DOMAIN order /\ Reverse(order)[i] = order[k] /\ i \in 1..Len(order)
      BY <1>2, <1>3
    <2>2. m \in described /\ order[k] \in deps[m]
      BY <1>2, <2>1 DEF NeededBy
    <2>3. PICK l \in DOMAIN order : order[l] = m
      BY <1>1, <2>2
    <2>4. k < l
      BY <1>1, <2>1, <2>2, <2>3 DEF Follows
    <2>5. PICK j \in DOMAIN Reverse(order) : j = Len(order) - l + 1 /\
                Reverse(order)[j] = order[l]
      BY <1>3, <2>3
    <2>6. j < i
      BY <1>2, <2>1, <2>3, <2>4, <2>5
    <2> QED
      BY <2>3, <2>5, <2>6
  <1>6. Occur(Reverse(order), Unstopped \cap described)
    BY <1>1, <1>3 DEF Occur
  <1> QED
    BY <1>4, <1>5, <1>6

(* The components that start_all and stop_all have still to visit are      *)
(* sorted, and those that stop_all has to stop are among them.             *)
OrderOK ==
    \A t \in Operators :
        /\ op[t] = "start" /\ pc[t] # "idle" => Sorted(todo[t], Needs, Unstarted)
        /\ op[t] = "stop" /\ pc[t] # "idle" => Sorted(todo[t], NeededBy, Up)
        /\ op[t] = "stop" => \/ Dangling \/ Orders = {}
                             \/ pc[t] # "idle" /\ Occur(todo[t], Unstopped \cap described)
                             \/ Unstopped \cap described = {}

(* Fewer to deal with, no new obligation.                                  *)
LEMMA SortedSame ==
    ASSUME NEW s, NEW before, NEW W, Sorted(s, before, W), NEW V \in SUBSET W
    PROVE  Sorted(s, before, V)
  BY DEF Sorted

(* Dependencies change with the descriptors only.                          *)
LEMMA NeedsSame == UNCHANGED <<described, deps>> => Needs' = Needs /\ NeededBy' = NeededBy
  BY DEF Needs, NeededBy

(* Every step of the loops keeps the rest sorted, and no reload disturbs   *)
(* it.                                                                     *)
LEMMA OrderStep ==
    Alone /\ TypeOK /\ TopoOK /\ WorkOK /\ OrderOK /\ [Next]_vars => OrderOK'
  <1> SUFFICES ASSUME Alone, TypeOK, TopoOK, WorkOK, OrderOK, [Next]_vars PROVE OrderOK'
    OBVIOUS
  <1>o. \A t, u \in Operators : t = u
    BY DEF Alone, OneOperator
  <1>t. /\ TasksOK /\ RegistryOK
        /\ \A t \in Operators : t \in Tasks /\ t \notin Reloaders
        /\ \A t \in Reloaders : t \in Tasks /\ t \notin Operators
    BY TheirTasks DEF TypeOK
  <1>q. ASSUME NEW t \in Operators, op'[t] \notin {"start", "stop"} PROVE OrderOK'
    BY <1>o, <1>q DEF OrderOK
  <1>1. ASSUME NEW t \in Operators, NEW n \in Names, BeginRegister(t, n) \/ BeginUnregister(t, n)
        PROVE  OrderOK'
    <2>1. op'[t] \in Changes
      BY <1>t, <1>1, AfterBegin DEF BeginRegister, BeginUnregister, Changes
    <2> QED
      BY <1>q, <2>1 DEF Changes
  <1>2. ASSUME NEW t \in Operators, NEW o \in Lifecycle, BeginAll(t, o) PROVE OrderOK'
    <2>1. UNCHANGED <<described, deps, state>>
      BY <1>2 DEF BeginAll
    <2>2. /\ Orders' = Orders /\ (Dangling' <=> Dangling) /\ Needs' = Needs /\
                   NeededBy' = NeededBy
          /\ Unstarted' = Unstarted /\ Up' = Up /\ Unstopped' = Unstopped
      BY <2>1, OrdersSame, NeedsSame DEF Unstarted, Up, Unstopped
    <2>3. CASE topo = None /\ (Dangling \/ Orders = {})
      <3>1. Begin(t, o, "idle", <<>>, "err")
        BY <1>2, <2>3 DEF BeginAll
      <3>2. pc'[t] = "idle"
        BY <1>t, <3>1, AfterBegin
      <3> QED
        BY <1>o, <2>2, <2>3, <3>2 DEF OrderOK
    <2>4. CASE ~ (topo = None /\ (Dangling \/ Orders = {}))
      <3>1. PICK order \in IF topo = None THEN Orders ELSE {topo} :
                Begin(t, o, "next", IF o = "stop" THEN Reverse(order) ELSE order, "ok")
        BY <1>2, <2>4 DEF BeginAll
      <3>2. /\ pc[t] = "idle" /\ op'[t] = o /\ pc'[t] = "next"
            /\ todo'[t] = IF o = "stop" THEN Reverse(order) ELSE order
        BY <1>t, <3>1, AfterBegin
      <3>3. order \in Orders
        BY <1>o, <3>1, <3>2 DEF TopoOK
      <3>4. /\ Sorted(order, Needs, Unstarted)
            /\ Sorted(Reverse(order), NeededBy, Up)
            /\ Occur(Reverse(order), Unstopped \cap described)
        BY <3>3, OrderSorted
      <3> QED
        BY <1>o, <2>1, <2>2, <3>2, <3>4 DEF OrderOK
    <2> QED
      BY <2>3, <2>4
  <1>3. ASSUME NEW t \in Operators,
               \/ (\E D \in SUBSET Names : Describe(t, D)) \/ Pend(t) \/ Invalidate(t)
               \/ Undescribe(t) \/ Unpend(t) \/ TakeFactory(t) \/ Built(t)
        PROVE  OrderOK'
    <2>1. op[t] \in {"register", "unregister", "init"} /\ OperatorStep(t)
      BY <1>3
         DEF Describe, Pend, Invalidate, Undescribe, Unpend, TakeFactory, Built, At,
             OperatorStep
    <2>2. op' = op
      BY <1>t, <2>1, OneSteps
    <2> QED
      BY <1>q, <2>1, <2>2
  <1>4. ASSUME NEW t \in Operators, CheckNext(t) \/ TakeInstance(t) \/ Started(t) \/ Stopped(t)
        PROVE  OrderOK'
    <2> DEFINE n == Head(todo[t])
    <2>1. op' = op /\ pc[t] # "idle"
      BY <1>t, <1>4, OneSteps
         DEF OperatorStep, CheckNext, TakeInstance, Started, Stopped, At
    <2>2. UNCHANGED <<described, deps>>
      BY <1>4 DEF CheckNext, TakeInstance, Started, Stopped, registryVars
    <2>3. /\ Orders' = Orders /\ (Dangling' <=> Dangling) /\ Needs' = Needs /\
                   NeededBy' = NeededBy
      BY <2>2, OrdersSame, NeedsSame
    <2>4. todo[t] \in Seq(Names) /\ (todo[t] # <<>> => n \in Names)
      BY <1>t DEF TasksOK
    <2>5. ASSUME todo'[t] = todo[t], pc'[t] # "idle",
                 op[t] = "start" => Unstarted' \subseteq Unstarted,
                 op[t] = "stop" => Up' \subseteq Up /\ Unstopped' \subseteq Unstopped
          PROVE  OrderOK'
      <3>1. op[t] = "start" => Sorted(todo[t], Needs, Unstarted')
        BY <2>1, <2>5, SortedSame DEF OrderOK
      <3>2. op[t] = "stop" => Sorted(todo[t], NeededBy, Up')
        BY <2>1, <2>5, SortedSame DEF OrderOK
      <3>3. op[t] = "stop" => \/ Dangling \/ Orders = {}
                               \/ Occur(todo[t], Unstopped' \cap described)
                               \/ Unstopped' \cap described = {}
        BY <2>5 DEF OrderOK, Occur
      <3> QED
        BY <1>o, <2>1, <2>2, <2>3, <2>5, <3>1, <3>2, <3>3 DEF OrderOK
    <2>6. ASSUME todo[t] # <<>>, todo'[t] = Tail(todo[t]), pc'[t] # "idle",
                 op[t] = "start" => Unstarted' \subseteq Unstarted \ {n},
                 op[t] = "stop" => Up' \subseteq Up \ {n} /\
                       Unstopped' \subseteq Unstopped \ {n}
          PROVE  OrderOK'
      <3>1. op[t] = "start" => Sorted(Tail(todo[t]), Needs, Unstarted')
        BY <2>1, <2>4, <2>6, SortedTail DEF OrderOK
      <3>2. op[t] = "stop" => Sorted(Tail(todo[t]), NeededBy, Up')
        BY <2>1, <2>4, <2>6, SortedTail DEF OrderOK
      <3>3. op[t] = "stop" => \/ Dangling \/ Orders = {}
                               \/ Occur(Tail(todo[t]), Unstopped' \cap described)
                               \/ Unstopped' \cap described = {}
        <4> SUFFICES ASSUME op[t] = "stop", ~Dangling, Orders # {}, Unstopped' \cap described # {}
                     PROVE  Occur(Tail(todo[t]), Unstopped' \cap described)
          OBVIOUS
        <4>1. Occur(todo[t], Unstopped \cap described)
          BY <2>6 DEF OrderOK
        <4>2. Unstopped' \cap described \subseteq (Unstopped \cap described) \ {n}
          BY <2>6
        <4> QED
          BY <2>4, <2>6, <4>1, <4>2, OccurTail
      <3> QED
        BY <1>o, <2>1, <2>2, <2>3, <2>6, <3>1, <3>2, <3>3 DEF OrderOK
    <2>7. CASE CheckNext(t)
      <3>1. UNCHANGED state /\ pc[t] = "next"
        BY <2>7 DEF CheckNext, registryVars
      <3>2. Unstarted' = Unstarted /\ Up' = Up /\ Unstopped' = Unstopped
        BY <3>1 DEF Unstarted, Up, Unstopped
      <3>3. CASE todo[t] = <<>> /\ Go(t, "idle")
        <4>1. pc'[t] = "idle"
          BY <1>t, <3>3, AfterGo
        <4>2. \A W : Occur(<<>>, W) => W = {}
          BY DEF Occur
        <4>3. op[t] = "stop" => Dangling \/ Orders = {} \/ Unstopped \cap described = {}
          BY <3>3, <4>2 DEF OrderOK
        <4> QED
          BY <1>o, <2>1, <2>2, <2>3, <3>2, <4>1, <4>3 DEF OrderOK
      <3>4. CASE Go(t, "take")
        <4>1. pc'[t] = "take" /\ todo' = todo
          BY <1>t, <3>4, AfterGo
        <4> QED
          BY <2>5, <3>2, <4>1
      <3>5. CASE todo[t] # <<>> /\ ~Visits(op[t], state[n]) /\ Advance(t, TRUE)
        <4>1. pc'[t] = "next" /\ todo'[t] = Tail(todo[t])
          BY <1>t, <3>5, AfterAdvance
        <4>2. state[n] \notin {"Initializing", "Starting"}
          BY <1>o, <2>4, <3>1, <3>5 DEF WorkOK, StateOK, At
        <4>3. op[t] = "start" => n \notin Unstarted
          BY <3>5, <4>2 DEF Visits, Unstarted
        <4>4. op[t] = "stop" => n \notin Up /\ n \notin Unstopped
          BY <3>5, <4>2 DEF Visits, Up, Unstopped
        <4> HIDE DEF n
        <4> QED
          BY <2>6, <3>2, <3>5, <4>1, <4>3, <4>4
      <3> QED
        BY <2>7, <3>3, <3>4, <3>5 DEF CheckNext
    <2>8. CASE TakeInstance(t)
      <3>1. /\ op[t] \in {"start", "stop"} /\ pc[t] = "take" /\ n \in Names
            /\ SetState(n, IF op[t] = "start" THEN "Starting" ELSE "Stopping")
        BY <1>t, <2>8, HeadOf DEF TakeInstance
      <3>2. /\ op[t] = "start" => state[n] = "Initialized"
            /\ Found(n)
        BY <3>1 DEF WorkOK, VisitOK, StateOK, At
      <3>3. \A m \in Names :
                  state'[m] = IF m = n THEN IF op[t] = "start" THEN "Starting" ELSE "Stopping"
                                                 ELSE state[m]
        BY <1>t, <3>1, AfterSet
      <3>4. pc'[t] = "call" /\ todo' = todo
        BY <1>t, <2>8, <3>2 DEF TakeInstance, TasksOK
      <3> HIDE DEF n
      <3>5. op[t] = "start" => Unstarted' \subseteq Unstarted
        BY <3>2, <3>3 DEF Unstarted
      <3>6. op[t] = "stop" => Up' \subseteq Up /\ Unstopped' \subseteq Unstopped
        BY <3>3 DEF Up, Unstopped
      <3> QED
        BY <2>5, <3>4, <3>5, <3>6
    <2>9. CASE Started(t) \/ Stopped(t)
      <3>1. op[t] \in {"start", "stop"} /\ pc[t] = "call" /\ n \in Names /\ todo[t] # <<>>
        BY <1>t, <2>9, HeadOf DEF Started, Stopped, At
      <3>2. PICK s \in {"Running", "Failed", "Stopped"}, ok \in BOOLEAN :
              /\ SetState(n, s) /\ Advance(t, ok)
              /\ op[t] = "stop" => s = "Stopped"
        BY <2>9 DEF Started, Stopped, At
      <3>3. \A m \in Names : state'[m] = IF m = n THEN s ELSE state[m]
        BY <1>t, <3>1, <3>2, AfterSet
      <3>4. pc'[t] = "next" /\ todo'[t] = Tail(todo[t])
        BY <1>t, <3>2, AfterAdvance
      <3> HIDE DEF n
      <3>5. op[t] = "start" => Unstarted' \subseteq Unstarted \ {n}
        BY <3>1, <3>3 DEF Unstarted
      <3>6. op[t] = "stop" => Up' \subseteq Up \ {n} /\ Unstopped' \subseteq Unstopped \ {n}
        BY <3>1, <3>2, <3>3 DEF Up, Unstopped
      <3> QED
        BY <2>6, <3>1, <3>4, <3>5, <3>6
    <2> QED
      BY <1>4, <2>7, <2>8, <2>9
  <1>5. ASSUME \A t \in Operators : pc'[t] = pc[t] /\ op'[t] = op[t] /\ todo'[t] = todo[t],
               UNCHANGED <<described, deps, state>>
        PROVE  OrderOK'
    <2>1. /\ Orders' = Orders /\ (Dangling' <=> Dangling) /\ Needs' = Needs /\
                   NeededBy' = NeededBy
          /\ Unstarted' = Unstarted /\ Up' = Up /\ Unstopped' = Unstopped
      BY <1>5, OrdersSame, NeedsSame DEF Unstarted, Up, Unstopped
    <2> QED
      BY <1>5, <2>1 DEF OrderOK
  <1>6. ASSUME NEW r \in Reloaders, ReloaderStep(r) PROVE OrderOK'
    <2>1. state' = state
      BY <1>6, ReloadKeepsState
    <2>2. UNCHANGED <<described, deps>>
      BY <1>6 DEF ReloaderStep, CheckRunning, PreReplaced, NewStarted, Swap, SetRunning,
                  PostReplaced, registryVars
    <2>3. \A t \in Operators : pc'[t] = pc[t] /\ op'[t] = op[t] /\ todo'[t] = todo[t]
      BY <1>t, <1>6, OneSteps
    <2> QED
      BY <1>5, <2>1, <2>2, <2>3
  <1>7. ASSUME NEW r \in Reloaders, NEW n \in Names, BeginReload(r, n) PROVE OrderOK'
    <2>1. \A t \in Operators : pc'[t] = pc[t] /\ op'[t] = op[t] /\ todo'[t] = todo[t]
      BY <1>t, <1>7, AfterReload
    <2> QED
      BY <1>5, <1>7, <2>1 DEF BeginReload, registryVars
  <1>8. CASE (\E t \in Reloaders : ReadNames(t)) \/ UNCHANGED vars
    <2>1. UNCHANGED <<pc, op, todo, described, deps, state>>
      BY <1>8 DEF ReadNames, vars, registryVars, taskVars
    <2> QED
      BY <1>5, <2>1
  <1> QED
    BY <1>1, <1>2, <1>3, <1>4, <1>6, <1>7, <1>8 DEF Next, OperatorStep, Lifecycle

-----------------------------------------------------------------------------
(* The theorems *)

(* One task registers, initialises, starts and stops, one task reloads,    *)
(* and no reload overlaps a registration, an init_all or a stop_all.       *)
OneReloader == \A t, u \in Reloaders : t = u
Managed == Alone /\ OneReloader

(* The inductive invariant.                                                *)
RegistryInv == TypeOK /\ TopoOK /\ WorkOK /\ InstInv /\ OrderOK

(* It holds of the empty registry.                                         *)
LEMMA RegistryInit == Init => RegistryInv
  <1> SUFFICES ASSUME Init PROVE RegistryInv
    OBVIOUS
  <1>1. TypeOK
    <2>1. RegistryOK
      BY DEF Init, RegistryOK, States
    <2>2. TasksOK
      <3>1. <<>> \in Seq(Names)
        OBVIOUS
      <3> QED
        BY <3>1 DEF Init, TasksOK, Steps
    <2>3. StepsOK
      BY TheirTasks DEF Init, StepsOK, Fits
    <2> QED
      BY <2>1, <2>2, <2>3 DEF TypeOK
  <1>2. TopoOK
    BY DEF Init, TopoOK
  <1>3. WorkOK
    BY NamesAssumption DEF Init, WorkOK, Apart, StateOK, VisitOK, At, Tasks
  <1>4. InstInv
    BY NamesAssumption DEF Init, InstInv, InstancesOK, ReloadOK, Unswapped, ServingOK, Found,
                           Tasks
  <1>5. OrderOK
    BY NamesAssumption DEF Init, OrderOK, Tasks
  <1> QED
    BY <1>1, <1>2, <1>3, <1>4, <1>5 DEF RegistryInv

(* A reload of ManagedRuntime and the operator keep off each other's       *)
(* component: beside a reload only start_all runs, which takes up what is  *)
(* not Running yet, and a reload goes on with what is Running.             *)
LEMMA ManagedKeepOff == Managed /\ TypeOK /\ WorkOK => NoClash
  <1> SUFFICES ASSUME Managed, TypeOK, WorkOK, NEW t \in AtWork, NEW u \in AtWork,
                      t # u, Head(todo[t]) = Head(todo[u])
               PROVE  MayMeet(t, u) \/ MayMeet(u, t)
    BY DEF NoClash
  <1>1. ASSUME NEW x \in Operators, NEW r \in Reloaders, x \in AtWork, r \in AtWork,
               Head(todo[x]) = Head(todo[r])
        PROVE  MayMeet(x, r)
    <2>1. pc[r] \in {"check", "pre", "start", "swap", "running"} /\ pc[x] \in {"take", "call"}
      BY <1>1, TheirTasks DEF AtWork, TypeOK, StepsOK, Fits, Lifecycle
    <2>2. op[x] = "start"
      BY <2>1 DEF WorkOK, Apart
    <2>3. state[Head(todo[x])] \in {"Initialized", "Starting"}
      BY <2>1, <2>2 DEF WorkOK, VisitOK, At
    <2>4. pc[r] = "check"
      BY <1>1, <2>1, <2>3 DEF WorkOK, VisitOK
    <2> QED
      BY <2>2, <2>4 DEF MayMeet
  <1>2. t \in Tasks /\ u \in Tasks
    BY DEF AtWork
  <1> QED
    BY <1>1, <1>2 DEF Managed, Alone, OneOperator, OneReloader, Tasks

(* Every step keeps it.                                                    *)
LEMMA RegistryStep == Managed /\ RegistryInv /\ [Next]_vars => RegistryInv'
  BY TypeStep, TopoStep, WorkStep, InstanceStep, OrderStep, ManagedKeepOff
     DEF Managed, RegistryInv, InstInv

(* Whatever the number of components and tasks.                            *)
THEOREM TypeCorrect == Spec => []TypeOK
  <1>1. Init => TypeOK
    BY RegistryInit DEF RegistryInv
  <1> QED
    BY <1>1, TypeStep, PTL DEF Spec

(* The cached order is never stale for whoever uses it, whatever the tasks *)
(* that register and unregister meanwhile (recompute_topo,                 *)
(* invalidate_topo).                                                       *)
THEOREM CacheIsFresh == Spec => []TopoFresh
  <1>1. Init => TypeOK /\ TopoOK
    BY RegistryInit DEF RegistryInv
  <1>2. TypeOK /\ TopoOK /\ [Next]_vars => (TypeOK /\ TopoOK)'
    BY TypeStep, TopoStep
  <1>3. TypeOK /\ TopoOK => TopoFresh
    BY TopoIsFresh
  <1> QED
    BY <1>1, <1>2, <1>3, PTL DEF Spec

(* It holds always.                                                        *)
LEMMA RegistryCorrect == Managed => (Spec => []RegistryInv)
  <1> SUFFICES ASSUME Managed PROVE Spec => []RegistryInv
    OBVIOUS
  <1>1. RegistryInv /\ [Next]_vars => RegistryInv'
    BY RegistryStep
  <1> QED
    BY <1>1, RegistryInit, PTL DEF Spec

(* Dependencies are started before, and stopped after, what depends on     *)
(* them (start_all, stop_all), for any number of components.               *)
THEOREM StartsInOrder == Managed => (Spec => []OrderRespected)
  <1>1. RegistryInv => OrderRespected
    <2> SUFFICES ASSUME RegistryInv PROVE OrderRespected
      OBVIOUS
    <2>t. TypeOK /\ TopoOK /\ OrderOK /\ described \subseteq Names
      BY DEF RegistryInv, TypeOK, RegistryOK
    <2>1. TopoFresh
      BY <2>t, TopoIsFresh
    <2>2. ASSUME NEW t \in Tasks, pc[t] = "call", op[t] \in {"start", "stop"}
          PROVE  /\ t \in Operators /\ todo[t] \in Seq(Names) /\ todo[t] # <<>>
                 /\ Head(todo[t]) \in Names
      BY <2>t, <2>2, HeadOf, TheirTasks DEF TypeOK, TasksOK, StepsOK, Tasks
    <2>3. ASSUME NEW t \in Tasks, At(t, "start", "call"),
                 NEW m \in deps[Head(todo[t])] \cap described
          PROVE  state[m] \notin {"Initializing", "Initialized", "Starting"}
      <3>1. pc[t] = "call" /\ op[t] = "start"
        BY <2>3 DEF At
      <3>2. Needs[Head(todo[t])] \cap Unstarted = {}
        BY <2>t, <2>2, <3>1, HeadSorted DEF OrderOK
      <3> QED
        BY <2>t, <2>2, <2>3, <3>1, <3>2 DEF Needs, Unstarted
    <2>4. ASSUME NEW t \in Tasks, At(t, "stop", "call"),
                 NEW m \in described, Head(todo[t]) \in deps[m]
          PROVE  state[m] \notin {"Running", "Starting"}
      <3>1. pc[t] = "call" /\ op[t] = "stop"
        BY <2>4 DEF At
      <3>2. NeededBy[Head(todo[t])] \cap Up = {}
        BY <2>t, <2>2, <3>1, HeadSorted DEF OrderOK
      <3> QED
        BY <2>t, <2>2, <2>4, <3>1, <3>2 DEF NeededBy, Up
    <2> QED
      BY <2>1, <2>3, <2>4 DEF OrderRespected
  <1>2. Managed => (Spec => []RegistryInv)
    BY RegistryCorrect
  <1> QED
    BY <1>1, <1>2, PTL

(* A component that is Running serves, and one that serves is registered,  *)
(* about to be swapped in, returned by a reload or built anew over         *)
(* (replace_instance, start_all, stop_all, init_all): for any number of    *)
(* components, operators and reloaders, that overlap as they like but do   *)
(* not work on the same component at the same time.                        *)
THEOREM InstancesAreKept == ApartSpec => []NoInstanceLost
  <1> DEFINE Inv == TypeOK /\ NoClash /\ InstInv
  <1>1. Init => Inv
    BY RegistryInit DEF RegistryInv, Init, NoClash, AtWork
  <1>2. Inv /\ [Next /\ NoClash']_vars => Inv'
    <2>1. CASE Next /\ NoClash'
      BY <2>1, TypeStep, InstanceStep
    <2>2. CASE UNCHANGED vars
      <3>1. (TypeOK => TypeOK') /\ (TypeOK /\ NoClash /\ InstInv => InstInv')
        BY <2>2, TypeStep, InstanceStep
      <3>2. NoClash => NoClash'
        BY <2>2 DEF vars, taskVars, NoClash, AtWork, MayMeet
      <3> QED
        BY <3>1, <3>2
    <2> QED
      BY <2>1, <2>2
  <1>3. Inv => NoInstanceLost
    BY DEF InstInv, ServingOK, Kept, NoInstanceLost
  <1> QED
    BY <1>1, <1>2, <1>3, PTL DEF ApartSpec

(* The tasks of ManagedRuntime do keep off each other's component: one     *)
(* that operates the registry, one that reloads (ManagedRuntime::reload).  *)
THEOREM ManagedIsApart == Managed => (Spec => ApartSpec)
  <1> SUFFICES ASSUME Managed PROVE Spec => ApartSpec
    OBVIOUS
  <1>1. RegistryInv => NoClash
    BY ManagedKeepOff DEF RegistryInv
  <1>2. Spec => []RegistryInv
    BY RegistryCorrect
  <1>3. NoClash' /\ [Next]_vars => [Next /\ NoClash']_vars
    OBVIOUS
  <1> QED
    BY <1>1, <1>2, <1>3, PTL DEF Spec, ApartSpec

(* A stop_all that has an order leaves nothing running or to be started.   *)
THEOREM StopDrains == Managed => (Spec => []StopDrainsOrdered)
  <1>1. RegistryInv => StopDrainsOrdered
    <2> SUFFICES ASSUME RegistryInv, ~Dangling, Orders # {}, NEW t \in Operators,
                        op[t] = "stop", pc[t] = "idle", NEW n \in described
                 PROVE  state[n] \notin {"Running", "Initialized"}
      BY DEF StopDrainsOrdered
    <2>1. Unstopped \cap described = {} /\ n \in Names
      BY DEF RegistryInv, OrderOK, TypeOK, RegistryOK
    <2> QED
      BY <2>1 DEF Unstopped
  <1>2. Managed => (Spec => []RegistryInv)
    BY RegistryCorrect
  <1> QED
    BY <1>1, <1>2, PTL
==============================================================================
