------------------------- MODULE RunAdmissionProofs -------------------------
(***************************************************************************)
(* Proofs about RunAdmission, for any number of callers, sessions, inputs, *)
(* applications, tools and calls.                                          *)
(***************************************************************************)
EXTENDS RunAdmission, WellFoundedInduction, TLAPS

(* The mutex of a session, once created, is its own and stays; who is past *)
(* the lookup has it, who is past the lock holds it; nobody who has not    *)
(* locked holds any.                                                       *)
GateOK ==
    /\ \A s, t \in Sessions : locks[s] # 0 /\ locks[s] = locks[t] => s = t
    /\ \A c \in Callers :
        /\ stage[c] = "try" => handle[c] # 0 /\ handle[c] = locks[call[c].session]
        /\ Active(c) => held[c] # 0
        /\ stage[c] \in {"idle", "lookup", "insert", "try"} => held[c] = 0
        /\ held[c] # 0 => /\ call[c].session \in Sessions
                          /\ held[c] = locks[call[c].session]
    /\ \A c, d \in Callers : held[c] # 0 /\ held[c] = held[d] => c = d

(* Ids are never reused, and a scope has one owner.                        *)
ScopesOK ==
    /\ \A i, j \in DOMAIN layers : layers[i].id = layers[j].id => i = j
    /\ \A i \in DOMAIN layers : layers[i].id < next_id
    /\ \A c \in Callers : scope[c] # None =>
         /\ scope[c] < next_id
         /\ \E i \in DOMAIN layers : layers[i].id = scope[c]
    /\ \A a \in Apps : owned[a] # None =>
         /\ owned[a] < next_id
         /\ \E i \in DOMAIN layers : layers[i].id = owned[a]
    /\ \A c, d \in Callers : scope[c] # None /\ scope[c] = scope[d] => c = d
    /\ \A a, b \in Apps : owned[a] # None /\ owned[a] = owned[b] => a = b
    /\ \A c \in Callers, a \in Apps : scope[c] # None => scope[c] # owned[a]

-----------------------------------------------------------------------------
(* Facts about the stack of layers *)

(* A pushed layer goes on top of an unchanged stack.                       *)
LEMMA AppendFacts ==
    ASSUME NEW L, NEW q \in Seq(L), NEW e \in L
    PROVE  /\ Append(q, e) \in Seq(L)
           /\ Len(Append(q, e)) = Len(q) + 1
           /\ DOMAIN Append(q, e) = 1..(Len(q) + 1)
           /\ \A i \in 1..Len(q) : Append(q, e)[i] = q[i]
           /\ Append(q, e)[Len(q) + 1] = e
  OBVIOUS

(* A fresh layer is a layer.                                               *)
LEMMA NoToolsType == NoTools \in ToolMaps
  BY DEF NoTools, ToolMaps

(* pop_scope removes the top layer, if it has the given id, or nothing.    *)
LEMMA PopFacts ==
    ASSUME layers \in Seq(Layer), NEW id
    PROVE  /\ PopLayer(id) \in Seq(Layer)
           /\ DOMAIN PopLayer(id) \subseteq DOMAIN layers
           /\ \A i \in DOMAIN PopLayer(id) : PopLayer(id)[i] = layers[i]
           /\ \A i \in DOMAIN layers : layers[i].id # id => i \in DOMAIN PopLayer(id)
  <1>1. CASE layers # <<>> /\ layers[Len(layers)].id = id
    <2>1. PopLayer(id) = SubSeq(layers, 1, Len(layers) - 1)
      BY <1>1 DEF PopLayer
    <2>2. Len(layers) \in Nat /\ Len(layers) >= 1
      BY <1>1
    <2>3. /\ SubSeq(layers, 1, Len(layers) - 1) \in Seq(Layer)
          /\ DOMAIN SubSeq(layers, 1, Len(layers) - 1) = 1..(Len(layers) - 1)
          /\ \A i \in 1..(Len(layers) - 1) :
                SubSeq(layers, 1, Len(layers) - 1)[i] = layers[i]
      BY <2>2
    <2>4. DOMAIN layers = 1..Len(layers)
      OBVIOUS
    <2> QED
      BY <1>1, <2>1, <2>2, <2>3, <2>4
  <1>2. CASE ~(layers # <<>> /\ layers[Len(layers)].id = id)
    BY <1>2 DEF PopLayer
  <1> QED
    BY <1>1, <1>2

(* register_in_scope changes no id.                                        *)
LEMMA RegisterFacts ==
    ASSUME layers \in Seq(Layer), NEW id, NEW t \in Tools, NEW impl \in Apps
    PROVE  /\ RegisterIn(id, t, impl) \in Seq(Layer)
           /\ DOMAIN RegisterIn(id, t, impl) = DOMAIN layers
           /\ \A i \in DOMAIN layers : RegisterIn(id, t, impl)[i].id = layers[i].id
  <1> DEFINE r == RegisterIn(id, t, impl)
  <1>1. r = [i \in DOMAIN layers |-> IF layers[i].id = id
                                     THEN [layers[i] EXCEPT !.tools[t] = impl]
                                     ELSE layers[i]]
    BY DEF RegisterIn
  <1>2. \A i \in DOMAIN layers : r[i] \in Layer /\ r[i].id = layers[i].id
    <2> SUFFICES ASSUME NEW i \in DOMAIN layers
                 PROVE  r[i] \in Layer /\ r[i].id = layers[i].id
      OBVIOUS
    <2>1. layers[i] \in Layer
      OBVIOUS
    <2>2. /\ layers[i] = [id |-> layers[i].id, tools |-> layers[i].tools]
          /\ layers[i].id \in Nat /\ layers[i].tools \in ToolMaps
      BY <2>1 DEF Layer
    <2>3. [layers[i].tools EXCEPT ![t] = impl] \in ToolMaps
      BY <2>2 DEF ToolMaps, Impls
    <2>4. [layers[i] EXCEPT !.tools[t] = impl]
            = [id |-> layers[i].id, tools |-> [layers[i].tools EXCEPT ![t] = impl]]
      BY <2>1 DEF Layer
    <2>5. r[i] = IF layers[i].id = id THEN [layers[i] EXCEPT !.tools[t] = impl]
                                      ELSE layers[i]
      BY <1>1
    <2> QED
      BY <2>1, <2>2, <2>3, <2>4, <2>5 DEF Layer
  <1>3. DOMAIN layers = 1..Len(layers) /\ Len(layers) \in Nat
    OBVIOUS
  <1>4. r \in [1..Len(layers) -> Layer]
    BY <1>1, <1>2, <1>3
  <1>5. r \in Seq(Layer)
    BY <1>3, <1>4
  <1> QED
    BY <1>1, <1>2, <1>5

-----------------------------------------------------------------------------

(* Types are kept by every step of the code.                               *)
LEMMA TypeInit == Init => TypeOK
  BY InputsAssumption DEF Init, TypeOK, NoCall, Stages, Kinds, Answers, ToolMaps, Impls

LEMMA TypeStep == TypeOK /\ [Next]_vars => TypeOK'
  <1> SUFFICES ASSUME TypeOK, [Next]_vars PROVE TypeOK'
    OBVIOUS
  <1>l. ASSUME NEW callers \in SUBSET Callers, PushLayer(LiveScopes(callers))
        PROVE  /\ layers' \in Seq(Layer) /\ next_id' \in Nat
               /\ next_id \in Nat /\ base' = base /\ mingled' \subseteq Nat
    <2>1. next_id \in Nat /\ [id |-> next_id, tools |-> NoTools] \in Layer
      BY NoToolsType DEF TypeOK, Layer
    <2>2. layers \in Seq(Layer)
      BY DEF TypeOK
    <2>3. Append(layers, [id |-> next_id, tools |-> NoTools]) \in Seq(Layer)
      BY <2>1, <2>2, AppendFacts
    <2>4. LiveScopes(callers) \subseteq Nat
      BY DEF LiveScopes, TypeOK
    <2>5. mingled' \subseteq Nat
      BY <1>l, <2>1, <2>4 DEF PushLayer, TypeOK
    <2> QED
      BY <1>l, <2>1, <2>3, <2>5 DEF PushLayer
  <1>p. \A id : PopLayer(id) \in Seq(Layer)
    BY PopFacts DEF TypeOK
  <1>r. \A id : \A t \in Tools, impl \in Apps : RegisterIn(id, t, impl) \in Seq(Layer)
    BY RegisterFacts DEF TypeOK
  <1> USE DEF TypeOK, Stages, Kinds, Answers, gateVars, inputVars, toolVars, runVars
  <1>1. ASSUME NEW c \in Callers, NEW k \in Kinds, NEW s \in Sessions,
               NEW i \in Inputs, Call(c, k, s, i)
        PROVE  TypeOK'
    BY <1>1 DEF Call
  <1>2. ASSUME NEW c \in Callers, LookUp(c) PROVE TypeOK'
    BY <1>2 DEF LookUp
  <1>3. ASSUME NEW c \in Callers, InsertMutex(c) PROVE TypeOK'
    <2> DEFINE ss == call[c].session
    <2>1. ss \in Sessions
      BY <1>3 DEF InsertMutex
    <2>2. CASE MissingEntry(ss)
      <3>1. mutexes' = mutexes + 1 /\ locks' = [locks EXCEPT ![ss] = mutexes + 1]
        BY <1>3, <2>2 DEF InsertMutex
      <3>2. mutexes' \in Nat /\ 0..mutexes \subseteq 0..mutexes' /\ mutexes + 1 \in 0..mutexes'
        BY <3>1
      <3>3. locks' \in [Sessions -> 0..mutexes'] /\ locks'[ss] \in 0..mutexes'
        BY <2>1, <3>1, <3>2
      <3> QED
        BY <1>3, <3>2, <3>3 DEF InsertMutex
    <2>3. CASE ~MissingEntry(ss)
      BY <1>3, <2>1, <2>3 DEF InsertMutex
    <2> QED
      BY <2>2, <2>3
  <1>4. ASSUME NEW c \in Callers, TryLock(c) PROVE TypeOK'
    BY <1>4 DEF TryLock
  <1>5. ASSUME NEW c \in Callers, Admit(c) PROVE TypeOK'
    <2> DEFINE i == call[c].input
    <2>1. i \in Inputs /\ call[c].session \in Sessions
      BY <1>5 DEF Admit
    <2>2. CASE UNCHANGED inputVars
      BY <1>5, <2>2 DEF Admit
    <2>3. CASE /\ seen' = IF Dedup THEN Remember(i) ELSE seen
               /\ stage' = [stage EXCEPT ![c] = "push"]
               /\ UNCHANGED answer
      <3>1. seen' \subseteq Inputs
        BY <2>1, <2>3 DEF Remember
      <3> QED
        BY <1>5, <2>1, <2>3, <3>1 DEF Admit
    <2> QED
      BY <1>5, <2>2, <2>3 DEF Admit
  <1>6. ASSUME NEW c \in Callers, PushScope(c) PROVE TypeOK'
    BY <1>6, <1>l DEF PushScope
  <1>7. ASSUME NEW c \in Callers, CreateRun(c) PROVE TypeOK'
    BY <1>7 DEF CreateRun
  <1>8. ASSUME NEW c \in Callers, EndRun(c) PROVE TypeOK'
    BY <1>8 DEF EndRun
  <1>9. ASSUME NEW c \in Callers, DropScope(c) PROVE TypeOK'
    BY <1>9, <1>p DEF DropScope
  <1>10. ASSUME NEW c \in Callers, DropSession(c) PROVE TypeOK'
    BY <1>10 DEF DropSession
  <1>11. ASSUME NEW c \in Callers, Return(c) PROVE TypeOK'
    BY <1>11 DEF Return
  <1>12. ASSUME NEW c \in Callers, Drop(c) PROVE TypeOK'
    BY <1>12 DEF Drop
  <1>13. ASSUME NEW a \in Apps, AppPush(a) PROVE TypeOK'
    BY <1>13, <1>l DEF AppPush
  <1>14. ASSUME NEW a \in Apps, AppDrop(a) PROVE TypeOK'
    BY <1>14, <1>p DEF AppDrop
  <1>15. ASSUME NEW a \in Apps, NEW t \in Tools, AppRegister(a, t) PROVE TypeOK'
    BY <1>15, <1>r DEF AppRegister
  <1>16. ASSUME NEW t \in Tools, AppUnregister(t) PROVE TypeOK'
    BY <1>16 DEF AppUnregister, ToolMaps
  <1>17. CASE UNCHANGED vars
    BY <1>17 DEF vars
  <1> QED
    BY <1>1, <1>2, <1>3, <1>4, <1>5, <1>6, <1>7, <1>8, <1>9, <1>10, <1>11, <1>12, <1>13, <1>14, <1>15, <1>16, <1>17
    DEF Next, CallerStep

(* Every variable keeps its type.                                          *)
THEOREM TypeCorrect == Spec => []TypeOK
  BY TypeInit, TypeStep, PTL DEF Spec

-----------------------------------------------------------------------------
(* The gate *)
LEMMA GateInit == Init => GateOK
  BY DEF Init, GateOK, Active

LEMMA GateStep == TypeOK /\ GateOK /\ [Next]_vars => GateOK'
  <1> SUFFICES ASSUME TypeOK, GateOK, [Next]_vars PROVE GateOK'
    OBVIOUS
  <1> USE DEF TypeOK, GateOK, Active, Stages, Kinds, gateVars, inputVars, toolVars, runVars
  <1>1. ASSUME NEW c \in Callers, NEW k \in Kinds, NEW s \in Sessions,
               NEW i \in Inputs, Call(c, k, s, i)
        PROVE GateOK'
    BY <1>1 DEF Call
  <1>2. ASSUME NEW c \in Callers, LookUp(c) PROVE GateOK'
    BY <1>2 DEF LookUp
  <1>3. ASSUME NEW c \in Callers, InsertMutex(c) PROVE GateOK'
    <2> DEFINE ss == call[c].session
    <2>1. ss \in Sessions /\ held[c] = 0 /\ stage[c] = "insert"
      BY <1>3 DEF InsertMutex
    <2>2. stage' = [stage EXCEPT ![c] = "try"] /\ UNCHANGED <<held, call>>
      BY <1>3 DEF InsertMutex
    <2>3. handle' = [handle EXCEPT ![c] = locks'[ss]]
      BY <1>3 DEF InsertMutex
    <2>4. CASE locks[ss] = 0
      <3>1. locks' = [locks EXCEPT ![ss] = mutexes + 1]
        BY <1>3, <2>4 DEF InsertMutex, MissingEntry
      <3>2. \A s \in Sessions : locks[s] # mutexes + 1 /\ mutexes + 1 # 0
        OBVIOUS
      <3>3. \A d \in Callers : held[d] # 0 => call[d].session # ss
        BY <2>4
      <3>4. locks'[ss] = mutexes + 1 /\ \A s \in Sessions : s # ss => locks'[s] = locks[s]
        BY <2>1, <3>1
      <3>5. \A s, t \in Sessions : locks'[s] # 0 /\ locks'[s] = locks'[t] => s = t
        BY <3>2, <3>4
      <3>6. \A d \in Callers : stage'[d] = "try" =>
                handle'[d] # 0 /\ handle'[d] = locks'[call'[d].session]
        <4> SUFFICES ASSUME NEW d \in Callers, stage'[d] = "try"
                     PROVE  handle'[d] # 0 /\ handle'[d] = locks'[call'[d].session]
          OBVIOUS
        <4>1. CASE d = c
          BY <2>2, <2>3, <3>2, <3>4, <4>1
        <4>2. CASE d # c
          BY <2>2, <2>3, <2>4, <3>4, <4>2
        <4> QED
          BY <4>1, <4>2
      <3> QED
        BY <2>1, <2>2, <3>3, <3>4, <3>5, <3>6
    <2>5. CASE locks[ss] # 0
      <3>1. locks' = locks
        BY <1>3, <2>5 DEF InsertMutex, MissingEntry
      <3> QED
        BY <2>1, <2>2, <2>3, <2>5, <3>1
    <2> QED
      BY <2>4, <2>5
  <1>4. ASSUME NEW c \in Callers, TryLock(c) PROVE GateOK'
    <2>1. CASE Free(handle[c])
      <3>1. /\ held' = [held EXCEPT ![c] = handle[c]]
            /\ stage' = [stage EXCEPT ![c] = IF call[c].kind = "run"
                                             THEN "admit" ELSE "push"]
            /\ UNCHANGED <<locks, handle, call>>
        BY <1>4, <2>1 DEF TryLock
      <3>2. stage[c] = "try" /\ handle[c] # 0 /\ handle[c] = locks[call[c].session]
        BY <1>4 DEF TryLock
      <3>3. call[c].session \in Sessions
        BY <3>2
      <3>4. \A d \in Callers : held[d] # handle[c]
        BY <2>1 DEF Free
      <3>5. \A d \in Callers : d # c => held'[d] = held[d] /\ stage'[d] = stage[d]
        BY <3>1
      <3>6. held'[c] = handle[c] /\ stage'[c] \in {"admit", "push"}
        BY <3>1
      <3> QED
        BY <3>1, <3>2, <3>3, <3>4, <3>5, <3>6
    <2>2. CASE ~Free(handle[c])
      BY <1>4, <2>2 DEF TryLock
    <2> QED
      BY <2>1, <2>2
  <1>5. ASSUME NEW c \in Callers, Admit(c) PROVE GateOK'
    BY <1>5 DEF Admit
  <1>6. ASSUME NEW c \in Callers, PushScope(c) PROVE GateOK'
    BY <1>6 DEF PushScope
  <1>7. ASSUME NEW c \in Callers, CreateRun(c) PROVE GateOK'
    BY <1>7 DEF CreateRun
  <1>8. ASSUME NEW c \in Callers, EndRun(c) PROVE GateOK'
    BY <1>8 DEF EndRun
  <1>9. ASSUME NEW c \in Callers, DropScope(c) PROVE GateOK'
    BY <1>9 DEF DropScope
  <1>10. ASSUME NEW c \in Callers, DropSession(c) PROVE GateOK'
    BY <1>10 DEF DropSession
  <1>11. ASSUME NEW c \in Callers, Return(c) PROVE GateOK'
    BY <1>11 DEF Return
  <1>12. ASSUME NEW c \in Callers, Drop(c) PROVE GateOK'
    BY <1>12 DEF Drop
  <1>13. ASSUME NEW a \in Apps, AppPush(a) PROVE GateOK'
    BY <1>13 DEF AppPush
  <1>14. ASSUME NEW a \in Apps, AppDrop(a) PROVE GateOK'
    BY <1>14 DEF AppDrop
  <1>15. ASSUME NEW a \in Apps, NEW t \in Tools, AppRegister(a, t) PROVE GateOK'
    BY <1>15 DEF AppRegister
  <1>16. ASSUME NEW t \in Tools, AppUnregister(t) PROVE GateOK'
    BY <1>16 DEF AppUnregister
  <1>17. CASE UNCHANGED vars
    BY <1>17 DEF vars
  <1> QED
    BY <1>1, <1>2, <1>3, <1>4, <1>5, <1>6, <1>7, <1>8, <1>9, <1>10, <1>11, <1>12, <1>13, <1>14, <1>15, <1>16, <1>17
    DEF Next, CallerStep

(* The gate's invariant holds of every behaviour.                          *)
THEOREM GateCorrect == Spec => []GateOK
  BY TypeInit, GateInit, TypeStep, GateStep, PTL DEF Spec

LEMMA GateExcludes == TypeOK /\ GateOK => SessionExclusive
  BY DEF TypeOK, GateOK, SessionExclusive, Active, Stages

(* One active run per session, for any number of callers and sessions      *)
(* (session_gate.rs).                                                      *)
THEOREM OneRunPerSession == Spec => []SessionExclusive
  BY TypeCorrect, GateCorrect, GateExcludes, PTL

-----------------------------------------------------------------------------
(* The stack of scopes *)
LEMMA ScopesInit == Init => ScopesOK
  BY DEF Init, ScopesOK

(* What ScopesOK says of a stack that only moved ids around.               *)
Ids == {layers[i].id : i \in DOMAIN layers}

(* Pushing keeps the old layers and adds one with a new id.                *)
LEMMA PushIds ==
    ASSUME TypeOK, ScopesOK, next_id' = next_id + 1,
           layers' = Append(layers, [id |-> next_id, tools |-> NoTools])
    PROVE  /\ next_id \in Nat /\ next_id' = next_id + 1
           /\ \A i, j \in DOMAIN layers' : layers'[i].id = layers'[j].id => i = j
           /\ Ids' = Ids \cup {next_id}
  <1>1. next_id \in Nat /\ [id |-> next_id, tools |-> NoTools] \in Layer
    BY NoToolsType DEF TypeOK, Layer
  <1>2. layers \in Seq(Layer) /\ DOMAIN layers = 1..Len(layers) /\ Len(layers) \in Nat
    BY DEF TypeOK
  <1>3. layers' = Append(layers, [id |-> next_id, tools |-> NoTools]) /\ next_id' = next_id + 1
    OBVIOUS
  <1>4. /\ DOMAIN layers' = 1..(Len(layers) + 1)
        /\ \A i \in 1..Len(layers) : layers'[i] = layers[i]
        /\ layers'[Len(layers) + 1].id = next_id
    <2>1. /\ DOMAIN layers' = 1..(Len(layers) + 1)
          /\ \A i \in 1..Len(layers) : layers'[i] = layers[i]
          /\ layers'[Len(layers) + 1] = [id |-> next_id, tools |-> NoTools]
      BY <1>1, <1>2, <1>3, AppendFacts
    <2> QED
      BY <2>1
  <1>5. \A i \in 1..Len(layers) : layers[i].id < next_id
    BY <1>2 DEF ScopesOK
  <1>6. \A i \in 1..Len(layers) : layers[i].id \in Nat
    <2>1. \A i \in 1..Len(layers) : layers[i] \in Layer
      BY <1>2
    <2> QED
      BY <2>1 DEF Layer
  <1>7. \A i, j \in 1..Len(layers) : layers[i].id = layers[j].id => i = j
    BY <1>2 DEF ScopesOK
  <1>8. \A i \in DOMAIN layers' : i \in 1..Len(layers) \/ i = Len(layers) + 1
    BY <1>2, <1>4
  <1>9. \A i, j \in DOMAIN layers' : layers'[i].id = layers'[j].id => i = j
    BY <1>1, <1>4, <1>5, <1>6, <1>7, <1>8
  <1>10. Ids' = Ids \cup {next_id}
    <2>1. \A x : x \in Ids' <=> \E i \in DOMAIN layers' : x = layers'[i].id
      BY DEF Ids
    <2>2. \A x : x \in Ids <=> \E i \in 1..Len(layers) : x = layers[i].id
      BY <1>2 DEF Ids
    <2>3. 1..Len(layers) \subseteq DOMAIN layers' /\ Len(layers) + 1 \in DOMAIN layers'
      BY <1>2, <1>4
    <2>4. \A x : x \in Ids' => x \in Ids \cup {next_id}
      BY <2>1, <2>2, <1>4, <1>8
    <2>5. \A x : x \in Ids \cup {next_id} => x \in Ids'
      BY <2>1, <2>2, <2>3, <1>4
    <2> QED
      BY <2>4, <2>5
  <1> QED
    BY <1>1, <1>3, <1>9, <1>10

(* Popping id takes no other id off the stack.                             *)
LEMMA PopIds ==
    ASSUME TypeOK, ScopesOK, NEW id, layers' = PopLayer(id)
    PROVE  /\ \A i, j \in DOMAIN layers' : layers'[i].id = layers'[j].id => i = j
           /\ Ids' \subseteq Ids
           /\ \A x \in Ids : x # id => x \in Ids'
  <1>1. /\ DOMAIN layers' \subseteq DOMAIN layers
        /\ \A i \in DOMAIN layers' : layers'[i] = layers[i]
        /\ \A i \in DOMAIN layers : layers[i].id # id => i \in DOMAIN layers'
    BY PopFacts DEF TypeOK
  <1>2. \A i, j \in DOMAIN layers : layers[i].id = layers[j].id => i = j
    BY DEF ScopesOK
  <1>3. \A i, j \in DOMAIN layers' : layers'[i].id = layers'[j].id => i = j
    BY <1>1, <1>2
  <1>4. Ids' \subseteq Ids
    BY <1>1 DEF Ids
  <1>5. \A x \in Ids : x # id => x \in Ids'
    BY <1>1 DEF Ids
  <1> QED
    BY <1>3, <1>4, <1>5

(* ScopesOK in terms of the ids on the stack.                              *)
Owners ==
    /\ \A n \in Ids : n < next_id
    /\ \A c \in Callers : scope[c] # None => scope[c] \in Ids
    /\ \A a \in Apps : owned[a] # None => owned[a] \in Ids
    /\ \A c, d \in Callers : scope[c] # None /\ scope[c] = scope[d] => c = d
    /\ \A a, b \in Apps : owned[a] # None /\ owned[a] = owned[b] => a = b
    /\ \A c \in Callers, a \in Apps : scope[c] # None => scope[c] # owned[a]

Distinct == \A i, j \in DOMAIN layers : layers[i].id = layers[j].id => i = j

LEMMA ScopesByIds == ScopesOK <=> Distinct /\ Owners
  <1>1. ScopesOK => Distinct /\ Owners
    BY DEF ScopesOK, Distinct, Owners, Ids
  <1>2. Distinct /\ Owners => ScopesOK
    BY DEF ScopesOK, Distinct, Owners, Ids
  <1> QED
    BY <1>1, <1>2

LEMMA ScopesStep == TypeOK /\ ScopesOK /\ [Next]_vars => ScopesOK'
  <1>n. (ScopesOK <=> Distinct /\ Owners)'
    BY ScopesByIds, PTL
  <1> SUFFICES ASSUME TypeOK, ScopesOK, [Next]_vars PROVE Distinct' /\ Owners'
    BY <1>n
  <1>d. Distinct /\ Owners
    BY ScopesByIds
  <1>t. /\ scope \in [Callers -> Nat \cup {None}]
        /\ owned \in [Apps -> Nat \cup {None}]
        /\ None \notin Nat
    BY NoneAssumption DEF TypeOK
  <1>i. \A n \in Ids : n \in Nat
    <2>1. \A i \in DOMAIN layers : layers[i] \in Layer
      BY DEF TypeOK
    <2> QED
      BY <2>1 DEF Ids, Layer
  <1>u. ASSUME UNCHANGED <<layers, next_id, scope, owned>> PROVE Distinct' /\ Owners'
    BY <1>u, <1>d DEF Distinct, Owners, Ids
  <1>1. ASSUME NEW c \in Callers, NEW k \in Kinds, NEW s \in Sessions,
               NEW i \in Inputs, Call(c, k, s, i)
        PROVE Distinct' /\ Owners'
    BY <1>1, <1>u DEF Call, toolVars
  <1>2. ASSUME NEW c \in Callers, LookUp(c) PROVE Distinct' /\ Owners'
    BY <1>2, <1>u DEF LookUp, toolVars
  <1>3. ASSUME NEW c \in Callers, InsertMutex(c) PROVE Distinct' /\ Owners'
    BY <1>3, <1>u DEF InsertMutex, toolVars
  <1>4. ASSUME NEW c \in Callers, TryLock(c) PROVE Distinct' /\ Owners'
    BY <1>4, <1>u DEF TryLock, toolVars
  <1>5. ASSUME NEW c \in Callers, Admit(c) PROVE Distinct' /\ Owners'
    BY <1>5, <1>u DEF Admit, toolVars
  <1>6. ASSUME NEW c \in Callers, CreateRun(c) PROVE Distinct' /\ Owners'
    BY <1>6, <1>u DEF CreateRun, toolVars
  <1>7. ASSUME NEW c \in Callers, EndRun(c) PROVE Distinct' /\ Owners'
    BY <1>7, <1>u DEF EndRun, toolVars
  <1>8. ASSUME NEW c \in Callers, DropSession(c) PROVE Distinct' /\ Owners'
    BY <1>8, <1>u DEF DropSession, toolVars
  <1>9. ASSUME NEW c \in Callers, Return(c) PROVE Distinct' /\ Owners'
    BY <1>9, <1>u DEF Return, toolVars
  <1>10. ASSUME NEW c \in Callers, Drop(c) PROVE Distinct' /\ Owners'
    BY <1>10, <1>u DEF Drop, toolVars
  <1>11. ASSUME NEW c \in Callers, PushScope(c) PROVE Distinct' /\ Owners'
    <2>1. /\ next_id' = next_id + 1 /\ next_id \in Nat
          /\ scope' = [scope EXCEPT ![c] = next_id] /\ owned' = owned
          /\ Distinct' /\ Ids' = Ids \cup {next_id}
      BY <1>11, PushIds DEF PushScope, PushLayer, Distinct
    <2> QED
      BY <2>1, <1>d, <1>t, <1>i DEF Owners
  <1>12. ASSUME NEW a \in Apps, AppPush(a) PROVE Distinct' /\ Owners'
    <2>1. /\ next_id' = next_id + 1 /\ next_id \in Nat
          /\ owned' = [owned EXCEPT ![a] = next_id] /\ scope' = scope
          /\ Distinct' /\ Ids' = Ids \cup {next_id}
      BY <1>12, PushIds DEF AppPush, PushLayer, Distinct, runVars
    <2> QED
      BY <2>1, <1>d, <1>t, <1>i DEF Owners
  <1>13. ASSUME NEW c \in Callers, DropScope(c) PROVE Distinct' /\ Owners'
    <2>1. /\ next_id' = next_id /\ scope[c] # None
          /\ scope' = [scope EXCEPT ![c] = None] /\ owned' = owned
          /\ Distinct' /\ Ids' \subseteq Ids
          /\ \A x \in Ids : x # scope[c] => x \in Ids'
      BY <1>13, PopIds DEF DropScope, Distinct
    <2> QED
      BY <2>1, <1>d, <1>t DEF Owners
  <1>14. ASSUME NEW a \in Apps, AppDrop(a) PROVE Distinct' /\ Owners'
    <2>1. /\ next_id' = next_id /\ owned[a] # None
          /\ owned' = [owned EXCEPT ![a] = None] /\ scope' = scope
          /\ Distinct' /\ Ids' \subseteq Ids
          /\ \A x \in Ids : x # owned[a] => x \in Ids'
      BY <1>14, PopIds DEF AppDrop, Distinct, runVars
    <2> QED
      BY <2>1, <1>d, <1>t DEF Owners
  <1>15. ASSUME NEW a \in Apps, NEW t \in Tools, AppRegister(a, t) PROVE Distinct' /\ Owners'
    <2>1. /\ DOMAIN layers' = DOMAIN layers
          /\ \A i \in DOMAIN layers : layers'[i].id = layers[i].id
      BY <1>15, RegisterFacts DEF AppRegister, TypeOK
    <2>2. UNCHANGED <<next_id, scope, owned>>
      BY <1>15 DEF AppRegister, runVars
    <2>3. Ids' = Ids
      BY <2>1 DEF Ids
    <2>4. Distinct'
      BY <2>1, <1>d DEF Distinct
    <2> QED
      BY <2>2, <2>3, <2>4, <1>d DEF Owners
  <1>16. ASSUME NEW t \in Tools, AppUnregister(t) PROVE Distinct' /\ Owners'
    BY <1>16, <1>u DEF AppUnregister, runVars
  <1>17. CASE UNCHANGED vars
    BY <1>17, <1>u DEF vars, toolVars
  <1> QED
    BY <1>1, <1>2, <1>3, <1>4, <1>5, <1>6, <1>7, <1>8, <1>9, <1>10, <1>11, <1>12, <1>13, <1>14, <1>15, <1>16, <1>17
    DEF Next, CallerStep

LEMMA ScopesPresent == ScopesOK => LiveScopesPresent
  BY ScopesByIds DEF Owners, LiveScopesPresent, Ids

(* Nobody's scope is popped but by its own guard, for any number of runs   *)
(* and applications on one registry (ScopedToolRegistry).                  *)
THEOREM ScopesSurvive == Spec => []LiveScopesPresent
  BY TypeInit, ScopesInit, TypeStep, ScopesStep, ScopesPresent, PTL DEF Spec

-----------------------------------------------------------------------------
(* The gate implements SessionLock *)
LEMMA LockInit == Init => Lock!Init
  BY DEF Init, Lock!Init, Holders

LEMMA LockStep == TypeOK /\ GateOK /\ [Next]_vars => [Lock!Next]_Holders
  <1> SUFFICES ASSUME TypeOK, GateOK, [Next]_vars PROVE [Lock!Next]_Holders
    OBVIOUS
  <1>t. /\ held \in [Callers -> 0..mutexes] /\ DOMAIN stage = Callers
        /\ DOMAIN call = Callers
    BY DEF TypeOK
  <1>u. ASSUME UNCHANGED <<held, call>> PROVE Holders' = Holders
    BY <1>u DEF Holders
  <1>1. ASSUME NEW c \in Callers, NEW k \in Kinds, NEW s \in Sessions,
               NEW i \in Inputs, Call(c, k, s, i)
        PROVE [Lock!Next]_Holders
    <2>1. held' = held /\ held[c] = 0 /\ \A d \in Callers : d # c => call'[d] = call[d]
      BY <1>1, <1>t DEF Call, gateVars, GateOK
    <2>2. Holders' = Holders
      BY <2>1 DEF Holders
    <2> QED
      BY <2>2
  <1>2. ASSUME NEW c \in Callers, LookUp(c) PROVE [Lock!Next]_Holders
    BY <1>2, <1>u DEF LookUp, gateVars
  <1>3. ASSUME NEW c \in Callers, InsertMutex(c) PROVE [Lock!Next]_Holders
    BY <1>3, <1>u DEF InsertMutex, gateVars
  <1>4. ASSUME NEW c \in Callers, Admit(c) PROVE [Lock!Next]_Holders
    BY <1>4, <1>u DEF Admit, gateVars
  <1>5. ASSUME NEW c \in Callers, PushScope(c) PROVE [Lock!Next]_Holders
    BY <1>5, <1>u DEF PushScope, gateVars
  <1>6. ASSUME NEW c \in Callers, CreateRun(c) PROVE [Lock!Next]_Holders
    BY <1>6, <1>u DEF CreateRun, gateVars
  <1>7. ASSUME NEW c \in Callers, EndRun(c) PROVE [Lock!Next]_Holders
    BY <1>7, <1>u DEF EndRun, gateVars
  <1>8. ASSUME NEW c \in Callers, DropScope(c) PROVE [Lock!Next]_Holders
    BY <1>8, <1>u DEF DropScope, gateVars
  <1>9. ASSUME NEW c \in Callers, Return(c) PROVE [Lock!Next]_Holders
    BY <1>9, <1>u DEF Return, gateVars
  <1>10. ASSUME NEW c \in Callers, Drop(c) PROVE [Lock!Next]_Holders
    BY <1>10, <1>u DEF Drop, gateVars
  <1>11. ASSUME NEW c \in Callers, TryLock(c) PROVE [Lock!Next]_Holders
    <2> DEFINE ss == call[c].session
    <2>1. CASE Free(handle[c])
      <3>1. /\ held' = [held EXCEPT ![c] = handle[c]] /\ call' = call
            /\ stage[c] = "try" /\ handle[c] # 0 /\ handle[c] = locks[ss]
        BY <1>11, <2>1 DEF TryLock, GateOK
      <3>2. ss \in Sessions
        BY <3>1 DEF TypeOK
      <3>3. \A d \in Callers : held[d] # 0 => call[d].session # ss
        BY <2>1, <3>1 DEF Free, GateOK
      <3>4. Holders[ss] = {}
        BY <3>2, <3>3 DEF Holders
      <3>5. \A d \in Callers : held'[d] = IF d = c THEN handle[c] ELSE held[d]
        BY <3>1, <1>t
      <3>6. Holders' = [Holders EXCEPT ![ss] = {c}]
        <4>1. \A s \in Sessions : s # ss => Holders'[s] = Holders[s]
          BY <3>1, <3>5 DEF Holders
        <4>2. Holders'[ss] = {c}
          BY <3>1, <3>2, <3>3, <3>5 DEF Holders
        <4> QED
          BY <3>2, <4>1, <4>2 DEF Holders
      <3> QED
        BY <3>2, <3>4, <3>6 DEF Lock!Next, Lock!Acquire
    <2>2. CASE ~Free(handle[c])
      BY <1>11, <2>2, <1>u DEF TryLock
    <2> QED
      BY <2>1, <2>2
  <1>12. ASSUME NEW c \in Callers, DropSession(c) PROVE [Lock!Next]_Holders
    <2> DEFINE ss == call[c].session
    <2>1. held' = [held EXCEPT ![c] = 0] /\ call' = call /\ held[c] # 0
      BY <1>12 DEF DropSession
    <2>2. ss \in Sessions /\ held[c] = locks[ss]
      BY <2>1 DEF GateOK
    <2>3. \A d \in Callers : held[d] # 0 /\ call[d].session = ss => d = c
      BY <2>1, <2>2 DEF GateOK
    <2>4. \A d \in Callers : held'[d] = IF d = c THEN 0 ELSE held[d]
      BY <2>1, <1>t
    <2>5. Holders[ss] = {c}
      BY <2>1, <2>2, <2>3 DEF Holders
    <2>6. Holders' = [Holders EXCEPT ![ss] = {}]
      <3>1. \A s \in Sessions : s # ss => Holders'[s] = Holders[s]
        BY <2>1, <2>4 DEF Holders
      <3>2. Holders'[ss] = {}
        BY <2>1, <2>2, <2>3, <2>4 DEF Holders
      <3> QED
        BY <2>2, <3>1, <3>2 DEF Holders
    <2> QED
      BY <2>2, <2>5, <2>6 DEF Lock!Next, Lock!Release
  <1>13. ASSUME NEW a \in Apps, AppPush(a) PROVE [Lock!Next]_Holders
    BY <1>13, <1>u DEF AppPush, runVars, gateVars
  <1>14. ASSUME NEW a \in Apps, AppDrop(a) PROVE [Lock!Next]_Holders
    BY <1>14, <1>u DEF AppDrop, runVars, gateVars
  <1>15. ASSUME NEW a \in Apps, NEW t \in Tools, AppRegister(a, t) PROVE [Lock!Next]_Holders
    BY <1>15, <1>u DEF AppRegister, runVars, gateVars
  <1>16. ASSUME NEW t \in Tools, AppUnregister(t) PROVE [Lock!Next]_Holders
    BY <1>16, <1>u DEF AppUnregister, runVars, gateVars
  <1>17. CASE UNCHANGED vars
    BY <1>17, <1>u DEF vars, gateVars
  <1> QED
    BY <1>1, <1>2, <1>3, <1>4, <1>5, <1>6, <1>7, <1>8, <1>9, <1>10, <1>11, <1>12, <1>13, <1>14, <1>15, <1>16, <1>17
    DEF Next, CallerStep

(* The mutex map, the double look-up and try_lock_owned implement one lock *)
(* per session (SessionGate).                                              *)
THEOREM GateIsALock == Spec => ImplementsSessionLock
  <1>1. Init => Lock!Init
    BY LockInit
  <1>2. TypeOK /\ GateOK /\ [Next]_vars => [Lock!Next]_Holders
    BY LockStep
  <1> QED
    BY <1>1, <1>2, TypeCorrect, GateCorrect, PTL DEF Spec, ImplementsSessionLock, Lock!Spec
-----------------------------------------------------------------------------
(* What the model is offered *)

(* A set of numbers that is not empty has a least one.                     *)
LEMMA LeastExists ==
    ASSUME NEW S \in SUBSET Nat, S # {}
    PROVE  \E i \in S : \A j \in S : i <= j
  <1>1. IsWellFoundedOn(OpToRel(<, Nat), Nat)
    BY NatLessThanWellFounded
  <1>2. PICK i \in S : \A j \in S : ~ (<<j, i>> \in OpToRel(<, Nat))
    BY <1>1, WFMin
  <1>3. \A j \in S : ~ (j < i)
    BY <1>2 DEF OpToRel
  <1> QED
    BY <1>3

(* The overlays of the layers, one after the other.                        *)
Overlays(u, n) ==
    /\ u = [i \in 0..n |-> u[i]] /\ u[0] = base
    /\ \A i \in 1..n : u[i] = Overlay(u[i - 1], layers[i])

(* Under n layers a name is the topmost layer's that has it, or the base's. *)
Topmost(tools, n, t) ==
    \/ /\ \A i \in 1..n : layers[i].tools[t] = None
       /\ tools[t] = base[t]
    \/ \E i \in 1..n : /\ layers[i].tools[t] # None
                       /\ \A j \in 1..n : layers[j].tools[t] # None => j <= i
                       /\ tools[t] = layers[i].tools[t]

(* However many layers there are, they can be overlaid.                    *)
LEMMA OverlaysExist ==
    ASSUME layers \in Seq(Layer)
    PROVE  \E u : Overlays(u, Len(layers))
  <1> DEFINE B == {n \in 0..Len(layers) : ~ \E u : Overlays(u, n)}
  <1>1. Len(layers) \in Nat
    OBVIOUS
  <1>2. SUFFICES ASSUME B # {} PROVE FALSE
    BY <1>1
  <1>3. PICK n \in B : \A m \in B : n <= m
    <2>1. B \in SUBSET Nat
      BY <1>1
    <2> HIDE DEF B
    <2> QED
      BY <1>2, <2>1, LeastExists
  <1>4. n # 0
    <2>1. Overlays([i \in 0..0 |-> base], 0)
      BY DEF Overlays
    <2> QED
      BY <1>3, <2>1
  <1>5. n - 1 \in 0..Len(layers) /\ n - 1 \notin B /\ n \in 1..Len(layers)
    <2>1. n \in 0..Len(layers)
      BY <1>3
    <2>2. n - 1 \in 0..Len(layers) /\ n \in 1..Len(layers) /\ ~(n <= n - 1)
      BY <1>1, <1>4, <2>1
    <2> HIDE DEF B
    <2> QED
      BY <1>3, <2>2
  <1>6. PICK v : Overlays(v, n - 1)
    BY <1>5
  <1> DEFINE u == [i \in 0..n |-> IF i = n THEN Overlay(v[n - 1], layers[n]) ELSE v[i]]
  <1>7. Overlays(u, n)
    <2>1. u = [i \in 0..n |-> u[i]] /\ u[0] = base
      BY <1>5, <1>6 DEF Overlays
    <2>2. ASSUME NEW i \in 1..n
          PROVE  u[i] = Overlay(u[i - 1], layers[i])
      <3>1. CASE i = n
        <4>1. u[i - 1] = v[n - 1] /\ u[i] = Overlay(v[n - 1], layers[n])
          BY <1>5, <3>1
        <4> QED
          BY <3>1, <4>1
      <3>2. CASE i # n
        <4>1. i \in 1..(n - 1) /\ i - 1 \in 0..n /\ i - 1 # n /\ i \in 0..n
          BY <1>5, <3>2
        <4>2. u[i] = v[i] /\ u[i - 1] = v[i - 1]
          BY <3>2, <4>1
        <4>3. v[i] = Overlay(v[i - 1], layers[i])
          BY <1>6, <4>1 DEF Overlays
        <4> QED
          BY <4>2, <4>3
      <3> QED
        BY <3>1, <3>2
    <2> HIDE DEF u
    <2> QED
      BY <2>1, <2>2 DEF Overlays
  <1> QED
    BY <1>3, <1>7

(* An overlay hides what is below it, and nothing more.                    *)
LEMMA OverlayIsTop ==
    ASSUME layers \in Seq(Layer), NEW u, Overlays(u, Len(layers)), NEW t \in Tools
    PROVE  \A n \in 0..Len(layers) : Topmost(u[n], n, t)
  <1> DEFINE B == {n \in 0..Len(layers) : ~ Topmost(u[n], n, t)}
  <1>1. Len(layers) \in Nat
    OBVIOUS
  <1>2. SUFFICES ASSUME B # {} PROVE FALSE
    OBVIOUS
  <1>3. PICK n \in B : \A m \in B : n <= m
    <2>1. B \in SUBSET Nat
      BY <1>1
    <2> HIDE DEF B
    <2> QED
      BY <1>2, <2>1, LeastExists
  <1>4. n # 0
    <2>1. Topmost(u[0], 0, t)
      BY DEF Overlays, Topmost
    <2> QED
      BY <1>3, <2>1
  <1>5. n - 1 \in 0..Len(layers) /\ n - 1 \notin B /\ n \in 1..Len(layers)
    <2>1. n \in 0..Len(layers)
      BY <1>3
    <2>2. n - 1 \in 0..Len(layers) /\ n \in 1..Len(layers) /\ ~(n <= n - 1)
      BY <1>1, <1>4, <2>1
    <2> HIDE DEF B
    <2> QED
      BY <1>3, <2>2
  <1>6. Topmost(u[n - 1], n - 1, t)
    BY <1>5
  <1>7. u[n] = Overlay(u[n - 1], layers[n])
    BY <1>5 DEF Overlays
  <1>8. CASE layers[n].tools[t] # None
    <2>1. u[n][t] = layers[n].tools[t]
      BY <1>7, <1>8 DEF Overlay
    <2>2. \A j \in 1..n : j <= n
      BY <1>5
    <2>3. Topmost(u[n], n, t)
      BY <1>5, <1>8, <2>1, <2>2 DEF Topmost
    <2> QED
      BY <1>3, <2>3
  <1>9. CASE layers[n].tools[t] = None
    <2>1. u[n][t] = u[n - 1][t]
      BY <1>7, <1>9 DEF Overlay
    <2>2. \A j \in 1..n : j = n \/ j \in 1..(n - 1)
      BY <1>5
    <2>3. \A j \in 1..(n - 1) : j \in 1..n
      BY <1>5
    <2>4. Topmost(u[n], n, t)
      BY <1>6, <1>9, <2>1, <2>2, <2>3 DEF Topmost
    <2> QED
      BY <1>3, <2>4
  <1> QED
    BY <1>8, <1>9

(* The overlays are what Specs goes through.                               *)
LEMMA SpecsIsOverlay ==
    ASSUME layers \in Seq(Layer)
    PROVE  \E u : Overlays(u, Len(layers)) /\ Specs = u[Len(layers)]
  <1> DEFINE n == Len(layers)
             Step(u) == [i \in 0..n |-> IF i = 0 THEN base ELSE Overlay(u[i - 1], layers[i])]
  <1>1. n \in Nat
    OBVIOUS
  <1>2. \E u : u = Step(u)
    <2>1. PICK u : Overlays(u, n)
      BY OverlaysExist
    <2>2. \A i \in 0..n : u[i] = IF i = 0 THEN base ELSE Overlay(u[i - 1], layers[i])
      <3>1. \A i \in 0..n : i = 0 \/ i \in 1..n
        BY <1>1
      <3> QED
        BY <2>1, <3>1 DEF Overlays
    <2>3. u = [i \in 0..n |-> u[i]]
      BY <2>1 DEF Overlays
    <2> QED
      BY <2>2, <2>3
  <1> DEFINE w == CHOOSE u : u = Step(u)
  <1>3. w = Step(w)
    BY <1>2
  <1>4. Specs = w[n]
    BY DEF Specs
  <1> HIDE DEF w
  <1>5. Overlays(w, n)
    <2>1. \A i \in 1..n : i \in 0..n /\ i # 0
      BY <1>1
    <2>2. 0 \in 0..n
      BY <1>1
    <2>3. \A i \in 0..n : w[i] = IF i = 0 THEN base ELSE Overlay(w[i - 1], layers[i])
      BY <1>3
    <2>4. w = [i \in 0..n |-> w[i]]
      BY <1>3
    <2> QED
      BY <2>1, <2>2, <2>3, <2>4 DEF Overlays
  <1> QED
    BY <1>4, <1>5

LEMMA SpecsAgree == TypeOK => SpecsAgreeWithGet
  <1> SUFFICES ASSUME TypeOK, NEW t \in Tools PROVE Specs[t] = Get(t)
    BY DEF SpecsAgreeWithGet
  <1>1. layers \in Seq(Layer) /\ Len(layers) \in Nat /\ DOMAIN layers = 1..Len(layers)
    BY DEF TypeOK
  <1>2. PICK u : Overlays(u, Len(layers)) /\ Specs = u[Len(layers)]
    BY <1>1, SpecsIsOverlay
  <1>3. Topmost(Specs, Len(layers), t)
    BY <1>1, <1>2, OverlayIsTop
  <1> DEFINE having == {i \in DOMAIN layers : layers[i].tools[t] # None}
  <1>4. CASE having = {}
    BY <1>1, <1>3, <1>4 DEF Get, Topmost
  <1>5. CASE having # {}
    <2>1. PICK i \in having : (\A j \in having : j <= i) /\ Specs[t] = layers[i].tools[t]
      BY <1>1, <1>3, <1>5 DEF Topmost
    <2>2. \A k \in having : (\A j \in having : j <= k) => k = i
      BY <1>1, <2>1
    <2>3. (CHOOSE k \in having : \A j \in having : j <= k) = i
      BY <2>1, <2>2
    <2> QED
      BY <1>5, <2>1, <2>3 DEF Get
  <1> QED
    BY <1>4, <1>5

(* For any stack of scopes: the model is offered, under every name, the    *)
(* tool that a call of this name resolves to (ScopedToolRegistry).         *)
THEOREM OffersWhatRuns == Spec => []SpecsAgreeWithGet
  BY TypeCorrect, SpecsAgree, PTL

-----------------------------------------------------------------------------
(* Scopes that nothing but their own session's runs were beside *)

(* The layer on top has this id.                                           *)
OnTop(id) == layers # <<>> /\ layers[Len(layers)].id = id

(* Whoever has a scope holds his session; a live scope that no other was   *)
(* beside is on top, and one left behind was not alone.                    *)
ScopesHeld ==
    \A c \in Callers : scope[c] # None => /\ held[c] # 0
                                         /\ stage[c] \in {"create", "running", "unwind"}
LiveOnTop ==
    /\ \A c \in Callers : scope[c] # None => OnTop(scope[c]) \/ scope[c] \in mingled
    /\ \A a \in Apps : owned[a] # None => OnTop(owned[a]) \/ owned[a] \in mingled

StackOK == ScopesHeld /\ LiveOnTop /\ NoLeakedScopes

(* Where a scope is pushed, every live one is beside it: a session has one *)
(* holder, who has none yet.                                               *)
LEMMA PushedBeside ==
    ASSUME GateOK, StackOK, NEW c \in Callers, stage[c] = "push"
    PROVE  LiveScopes({d \in Callers : call[d].session # call[c].session}) = LiveScopes(Callers)
  <1>1. held[c] # 0 /\ scope[c] = None
    BY DEF GateOK, Active, StackOK, ScopesHeld
  <1>2. \A d \in Callers : scope[d] # None => call[d].session # call[c].session
    BY <1>1 DEF GateOK, StackOK, ScopesHeld
  <1> QED
    BY <1>2 DEF LiveScopes

(* A push mingles the live scopes with the new one, or there are none.     *)
LEMMA PushStack ==
    ASSUME TypeOK, ScopesOK, StackOK, PushLayer(LiveScopes(Callers)),
           \A c \in Callers : scope'[c] # scope[c] => scope'[c] = next_id /\ scope[c] = None,
           \A a \in Apps : owned'[a] # owned[a] => owned'[a] = next_id /\ owned[a] = None,
           \/ \E c \in Callers : scope'[c] = next_id
           \/ \E a \in Apps : owned'[a] = next_id
    PROVE  LiveOnTop' /\ NoLeakedScopes'
  <1>1. /\ layers' = Append(layers, [id |-> next_id, tools |-> NoTools])
        /\ layers \in Seq(Layer) /\ next_id \in Nat /\ None \notin Nat
    BY NoneAssumption DEF PushLayer, TypeOK
  <1>2. /\ DOMAIN layers' = 1..(Len(layers) + 1) /\ DOMAIN layers = 1..Len(layers)
        /\ \A i \in 1..Len(layers) : layers'[i] = layers[i]
        /\ Len(layers') = Len(layers) + 1 /\ layers' # <<>>
        /\ layers'[Len(layers')] = [id |-> next_id, tools |-> NoTools]
    BY <1>1
  <1>3. layers' # <<>> /\ layers'[Len(layers')].id = next_id
    BY <1>2
  <1>4. /\ mingled \subseteq mingled'
        /\ LiveScopes(Callers) \subseteq mingled'
    BY DEF PushLayer
  <1>5. /\ \A c \in Callers : scope[c] # None => scope[c] \in mingled'
        /\ \A a \in Apps : owned[a] # None => owned[a] \in mingled'
    BY <1>4 DEF LiveScopes
  <1>6. LiveOnTop'
    <2>1. ASSUME NEW c \in Callers, scope'[c] # None PROVE OnTop(scope[c])' \/ scope'[c] \in mingled'
      <3>1. CASE scope'[c] = scope[c]
        BY <1>5, <2>1, <3>1
      <3>2. CASE scope'[c] = next_id
        BY <1>3, <3>2 DEF OnTop
      <3> QED
        BY <3>1, <3>2
    <2>2. ASSUME NEW a \in Apps, owned'[a] # None PROVE OnTop(owned[a])' \/ owned'[a] \in mingled'
      <3>1. CASE owned'[a] = owned[a]
        BY <1>5, <2>2, <3>1
      <3>2. CASE owned'[a] = next_id
        BY <1>3, <3>2 DEF OnTop
      <3> QED
        BY <3>1, <3>2
    <2> QED
      BY <2>1, <2>2 DEF LiveOnTop
  <1>7. NoLeakedScopes'
    <2> SUFFICES ASSUME NEW i \in DOMAIN layers'
                 PROVE  \/ \E c \in Callers : scope'[c] = layers'[i].id
                        \/ \E a \in Apps : owned'[a] = layers'[i].id
                        \/ layers'[i].id \in mingled'
      BY DEF NoLeakedScopes
    <2>1. CASE i = Len(layers')
      <3>1. layers'[i].id = next_id
        BY <1>2, <2>1
      <3> QED
        BY <3>1
    <2>2. CASE i \in DOMAIN layers
      <3>1. layers'[i] = layers[i] /\ layers[i] \in Layer
        BY <1>1, <1>2, <2>2
      <3>2. layers[i].id \in Nat
        BY <3>1 DEF Layer
      <3>3. CASE layers[i].id \in mingled
        BY <3>1, <3>3, <1>4
      <3>4. CASE \E c \in Callers : scope[c] = layers[i].id
        BY <3>1, <3>2, <3>4, <1>1, <1>5
      <3>5. CASE \E a \in Apps : owned[a] = layers[i].id
        BY <3>1, <3>2, <3>5, <1>1, <1>5
      <3> QED
        BY <2>2, <3>3, <3>4, <3>5 DEF StackOK, NoLeakedScopes
    <2> QED
      BY <1>1, <1>2, <2>1, <2>2
  <1> QED
    BY <1>6, <1>7

(* A pop takes the scope away, or leaves a mingled one behind.             *)
LEMMA PopStack ==
    ASSUME TypeOK, ScopesOK, StackOK, NEW id \in Ids, layers' = PopLayer(id), mingled' = mingled,
           OnTop(id) \/ id \in mingled,
           \A c \in Callers : IF scope[c] = id THEN scope'[c] = None ELSE scope'[c] = scope[c],
           \A a \in Apps : IF owned[a] = id THEN owned'[a] = None ELSE owned'[a] = owned[a]
    PROVE  LiveOnTop' /\ NoLeakedScopes'
  <1>1. /\ layers \in Seq(Layer) /\ None \notin Nat
        /\ \A i, j \in DOMAIN layers : layers[i].id = layers[j].id => i = j
        /\ DOMAIN layers = 1..Len(layers)
    BY NoneAssumption DEF TypeOK, ScopesOK
  <1>2. CASE OnTop(id)
    <2>1. /\ DOMAIN layers' = 1..(Len(layers) - 1)
          /\ \A i \in DOMAIN layers' : layers'[i] = layers[i] /\ i \in DOMAIN layers
          /\ Len(layers) \in DOMAIN layers
      BY <1>1, <1>2 DEF OnTop, PopLayer
    <2>2. \A i \in DOMAIN layers' : layers'[i].id # id
      BY <1>1, <1>2, <2>1 DEF OnTop
    <2>3. LiveOnTop'
      <3>1. \A c \in Callers : scope'[c] # None => scope'[c] \in mingled'
        BY <1>2 DEF OnTop, StackOK, LiveOnTop
      <3>2. \A a \in Apps : owned'[a] # None => owned'[a] \in mingled'
        BY <1>2 DEF OnTop, StackOK, LiveOnTop
      <3> QED
        BY <3>1, <3>2 DEF LiveOnTop
    <2>4. NoLeakedScopes'
      BY <2>1, <2>2 DEF StackOK, NoLeakedScopes
    <2> QED
      BY <2>3, <2>4
  <1>3. CASE ~OnTop(id)
    <2>1. layers' = layers /\ id \in mingled
      BY <1>3 DEF OnTop, PopLayer
    <2>2. LiveOnTop'
      BY <2>1 DEF OnTop, StackOK, LiveOnTop
    <2>3. NoLeakedScopes'
      BY <2>1 DEF StackOK, NoLeakedScopes
    <2> QED
      BY <2>2, <2>3
  <1> QED
    BY <1>2, <1>3

LEMMA StackStep == TypeOK /\ GateOK /\ ScopesOK /\ StackOK /\ [Next]_vars => StackOK'
  <1> SUFFICES ASSUME TypeOK, GateOK, ScopesOK, StackOK, [Next]_vars PROVE StackOK'
    OBVIOUS
  <1>t. /\ DOMAIN stage = Callers /\ DOMAIN held = Callers
        /\ scope \in [Callers -> Nat \cup {None}] /\ owned \in [Apps -> Nat \cup {None}]
        /\ next_id \in Nat /\ None \notin Nat
    BY NoneAssumption DEF TypeOK
  <1>o. Distinct /\ Owners
    BY ScopesByIds
  <1>u. ASSUME UNCHANGED <<layers, mingled, scope, owned>>, ScopesHeld' PROVE StackOK'
    BY <1>u DEF StackOK, LiveOnTop, OnTop, NoLeakedScopes
  <1>1. ASSUME NEW c \in Callers, PushScope(c) PROVE StackOK'
    <2>1. /\ stage[c] = "push" /\ scope' = [scope EXCEPT ![c] = next_id]
          /\ UNCHANGED <<held, owned>>
          /\ stage' \in {[stage EXCEPT ![c] = "create"], [stage EXCEPT ![c] = "running"]}
      BY <1>1 DEF PushScope, gateVars
    <2>2. held[c] # 0 /\ scope[c] = None
      BY <2>1 DEF GateOK, Active, StackOK, ScopesHeld
    <2>3. ScopesHeld'
      BY <1>t, <2>1, <2>2 DEF StackOK, ScopesHeld
    <2>4. PushLayer(LiveScopes(Callers))
      BY <1>1, <2>1, PushedBeside DEF PushScope
    <2>5. LiveOnTop' /\ NoLeakedScopes'
      <3>1. \A d \in Callers : scope'[d] # scope[d] => scope'[d] = next_id /\ scope[d] = None
        BY <1>t, <2>1, <2>2
      <3>2. scope'[c] = next_id
        BY <1>t, <2>1
      <3> QED
        BY <2>1, <2>4, <3>1, <3>2, PushStack
    <2> QED
      BY <2>3, <2>5 DEF StackOK
  <1>2. ASSUME NEW a \in Apps, AppPush(a) PROVE StackOK'
    <2>1. /\ owned[a] = None /\ owned' = [owned EXCEPT ![a] = next_id]
          /\ PushLayer(LiveScopes(Callers)) /\ UNCHANGED <<held, scope, stage>>
      BY <1>2 DEF AppPush, runVars, gateVars
    <2>2. LiveOnTop' /\ NoLeakedScopes'
      <3>1. \A b \in Apps : owned'[b] # owned[b] => owned'[b] = next_id /\ owned[b] = None
        BY <1>t, <2>1
      <3>2. owned'[a] = next_id
        BY <1>t, <2>1
      <3> QED
        BY <2>1, <3>1, <3>2, PushStack
    <2>3. ScopesHeld'
      BY <2>1 DEF StackOK, ScopesHeld
    <2> QED
      BY <2>2, <2>3 DEF StackOK
  <1>3. ASSUME NEW c \in Callers, DropScope(c) PROVE StackOK'
    <2>1. /\ scope[c] # None /\ layers' = PopLayer(scope[c]) /\ scope' = [scope EXCEPT ![c] = None]
          /\ UNCHANGED <<mingled, owned, held, stage>>
      BY <1>3 DEF DropScope, gateVars
    <2>2. scope[c] \in Ids /\ (OnTop(scope[c]) \/ scope[c] \in mingled)
      BY <2>1, <1>o DEF Owners, StackOK, LiveOnTop
    <2>3. /\ \A d \in Callers : IF scope[d] = scope[c] THEN scope'[d] = None ELSE scope'[d] = scope[d]
          /\ \A a \in Apps : owned[a] # scope[c] /\ owned'[a] = owned[a]
      BY <1>t, <1>o, <2>1 DEF Owners
    <2>4. LiveOnTop' /\ NoLeakedScopes'
      BY <2>1, <2>2, <2>3, PopStack
    <2>5. ScopesHeld'
      BY <1>t, <2>1 DEF StackOK, ScopesHeld
    <2> QED
      BY <2>4, <2>5 DEF StackOK
  <1>4. ASSUME NEW a \in Apps, AppDrop(a) PROVE StackOK'
    <2>1. /\ owned[a] # None /\ layers' = PopLayer(owned[a]) /\ owned' = [owned EXCEPT ![a] = None]
          /\ UNCHANGED <<mingled, scope, held, stage>>
      BY <1>4 DEF AppDrop, runVars, gateVars
    <2>2. owned[a] \in Ids /\ (OnTop(owned[a]) \/ owned[a] \in mingled)
      BY <2>1, <1>o DEF Owners, StackOK, LiveOnTop
    <2>3. /\ \A b \in Apps : IF owned[b] = owned[a] THEN owned'[b] = None ELSE owned'[b] = owned[b]
          /\ \A c \in Callers : scope[c] # owned[a] /\ scope'[c] = scope[c]
      BY <1>t, <1>o, <2>1 DEF Owners
    <2>4. LiveOnTop' /\ NoLeakedScopes'
      BY <2>1, <2>2, <2>3, PopStack
    <2>5. ScopesHeld'
      BY <2>1 DEF StackOK, ScopesHeld
    <2> QED
      BY <2>4, <2>5 DEF StackOK
  <1>5. ASSUME NEW a \in Apps, NEW t \in Tools, AppRegister(a, t) PROVE StackOK'
    <2>1. /\ DOMAIN layers' = DOMAIN layers /\ layers' \in Seq(Layer) /\ layers \in Seq(Layer)
          /\ \A i \in DOMAIN layers : layers'[i].id = layers[i].id
      BY <1>5, RegisterFacts DEF AppRegister, TypeOK
    <2>2. /\ Len(layers') = Len(layers)
          /\ layers # <<>> <=> layers' # <<>>
          /\ layers # <<>> => Len(layers) \in DOMAIN layers
      BY <2>1
    <2>3. UNCHANGED <<mingled, scope, owned, held, stage>>
      BY <1>5 DEF AppRegister, runVars, gateVars
    <2>4. \A x : OnTop(x) => /\ layers' # <<>>
                             /\ layers'[Len(layers')].id = x
      BY <2>1, <2>2 DEF OnTop
    <2>5. LiveOnTop'
      BY <2>3, <2>4 DEF StackOK, LiveOnTop, OnTop
    <2>6. NoLeakedScopes'
      BY <2>1, <2>3 DEF StackOK, NoLeakedScopes
    <2>7. ScopesHeld'
      BY <2>3 DEF StackOK, ScopesHeld
    <2> QED
      BY <2>5, <2>6, <2>7 DEF StackOK
  <1>6. ASSUME NEW c \in Callers, DropSession(c) PROVE StackOK'
    <2>1. ScopesHeld'
      BY <1>6, <1>t DEF DropSession, ScopeFirst, StackOK, ScopesHeld
    <2> QED
      BY <1>6, <2>1, <1>u DEF DropSession, toolVars
  <1>7. ASSUME NEW c \in Callers, TryLock(c) PROVE StackOK'
    <2>1. ScopesHeld'
      BY <1>7, <1>t DEF TryLock, StackOK, ScopesHeld
    <2> QED
      BY <1>7, <2>1, <1>u DEF TryLock, toolVars
  <1>8. ASSUME NEW c \in Callers, Return(c) PROVE StackOK'
    <2>1. ScopesHeld'
      BY <1>8, <1>t DEF Return, gateVars, StackOK, ScopesHeld
    <2> QED
      BY <1>8, <2>1, <1>u DEF Return, toolVars
  <1>9. ASSUME NEW c \in Callers,
               \/ LookUp(c) \/ InsertMutex(c) \/ Admit(c) \/ CreateRun(c) \/ EndRun(c) \/ Drop(c)
               \/ \E k \in Kinds, s \in Sessions, i \in Inputs : Call(c, k, s, i)
        PROVE StackOK'
    <2>1. UNCHANGED <<held, scope, layers, mingled, owned>>
      BY <1>9 DEF LookUp, InsertMutex, Admit, CreateRun, EndRun, Drop, Call, toolVars, gateVars
    <2>2. \A d \in Callers : stage[d] \in {"create", "running", "unwind"} =>
                                 stage'[d] \in {"create", "running", "unwind"}
      BY <1>9, <1>t DEF LookUp, InsertMutex, Admit, CreateRun, EndRun, Drop, Call
    <2>3. ScopesHeld'
      BY <2>1, <2>2 DEF StackOK, ScopesHeld
    <2> QED
      BY <2>1, <2>3, <1>u
  <1>10. ASSUME NEW t \in Tools, AppUnregister(t) PROVE StackOK'
    <2>1. UNCHANGED <<layers, mingled, scope, owned, held, stage>>
      BY <1>10 DEF AppUnregister, runVars, gateVars
    <2> QED
      BY <2>1, <1>u DEF StackOK, ScopesHeld
  <1>11. CASE UNCHANGED vars
    <2>1. UNCHANGED <<layers, mingled, scope, owned, held, stage>>
      BY <1>11 DEF vars, gateVars, toolVars
    <2> QED
      BY <2>1, <1>u DEF StackOK, ScopesHeld
  <1> QED
    BY <1>1, <1>2, <1>3, <1>4, <1>5, <1>6, <1>7, <1>8, <1>9, <1>10, <1>11 DEF Next, CallerStep

(* A scope is left behind only by overlapping with another session's, or   *)
(* with an application's: the runs of one session leave none, for any      *)
(* number of callers, sessions and applications (ScopeGuard, SessionGuard).*)
THEOREM NothingStaysBehind == Spec => []NoLeakedScopes
  <1>1. Init => StackOK
    BY DEF Init, StackOK, ScopesHeld, LiveOnTop, NoLeakedScopes
  <1>2. StackOK => NoLeakedScopes
    BY DEF StackOK
  <1> QED
    BY <1>1, <1>2, StackStep, TypeInit, TypeStep, GateInit, GateStep, ScopesInit, ScopesStep, PTL DEF Spec
=============================================================================
