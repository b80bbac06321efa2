---------------------------- MODULE RunAdmission ----------------------------
(***************************************************************************)
(* How concurrent calls of AgentRuntime::run and AgentRuntime::resume get  *)
(* into the runtime: the per-session lock of SessionGate, the input        *)
(* admission pipeline with its fingerprint cache, and the stack of tool    *)
(* scopes that every run shares with the application.                      *)
(*                                                                         *)
(* A caller is one task that calls run or resume again and again; an       *)
(* application (Apps) pushes scopes of its own on the same registry,       *)
(* registers tools in them and drops them.  What a run does between its    *)
(* admission and its end is module AgentRun; here it is the stage          *)
(* "running".  Each step below is the code between two awaits, or one      *)
(* critical section of a synchronous mutex: other threads run in between.  *)
(***************************************************************************)
EXTENDS Naturals, Sequences

CONSTANTS
    Callers,     \* tasks that call run or resume
    Sessions,    \* sessions of the store
    Inputs,      \* user inputs, up to the trimming that fingerprints do
    BadInputs,   \* inputs that validation rejects (empty or too long)
    Apps,        \* application tasks that use the scoped registry directly
    Tools,       \* tool names
    None,        \* no scope, no tool, no session or input yet
    Dedup,       \* InputAdmissionConfig: enabled and deduplicate
    MaxCalls     \* bound: calls of run and resume, and of push_scope by
                 \* applications, together

ASSUME NoneAssumption == None \notin Nat \cup Apps \cup {"base"}
ASSUME InputsAssumption == BadInputs \subseteq Inputs /\ Dedup \in BOOLEAN
ASSUME BoundsAssumption == MaxCalls \in Nat

VARIABLES
    locks,      \* SessionGate::locks: the mutex of each session, 0 if none yet
    mutexes,    \* how many mutexes were created (they are numbered from 1)
    stage,      \* where each caller is in run / resume
    call,       \* what each caller called, with which session and input
    handle,     \* the mutex a caller cloned out of the map
    held,       \* the mutex locked by the caller's SessionGuard, or 0
    scope,      \* the scope its ScopeGuard pops, or None
    answer,     \* how the caller's latest call ended, or is about to end
    seen,       \* InputAdmission::seen_fingerprints
    base,       \* the base ToolRegistry: name -> implementation
    layers,     \* ScopeState::layers, bottom first
    next_id,    \* ScopeState::next_id
    owned,      \* the scope of each application, or None
    calls,      \* history: number of calls, for the bound
    mingled     \* history: the scopes that were ever on the stack together
                \* with a live one of another session or of an application

gateVars  == <<locks, mutexes, handle, held>>
inputVars == <<seen>>
toolVars  == <<base, layers, next_id, mingled>>
vars == <<gateVars, inputVars, toolVars, stage, call, scope, answer, owned,
          calls>>

Stages == {"idle", "lookup", "insert", "try", "admit", "push", "create",
           "running", "unwind"}
Kinds == {"run", "resume"}
NoCall == [kind |-> "run", session |-> None, input |-> None]
Answers == {"none", "busy", "invalid", "duplicate", "error", "ended",
            "dropped"}
Impls == Apps \cup {"base"}
ToolMaps == [Tools -> Impls \cup {None}]
NoTools == [t \in Tools |-> None]
Layer == [id : Nat, tools : ToolMaps]

(* The callers that are past admission: they run on a session.             *)
Active(c) == stage[c] \in {"admit", "push", "create", "running"}

-----------------------------------------------------------------------------
(* The scoped registry *)

(* ScopedToolRegistry::get: topmost layer that has the name, then the base *)
Get(t) ==
    LET having == {i \in DOMAIN layers : layers[i].tools[t] # None}
    IN  IF having = {} THEN base[t]
        ELSE layers[CHOOSE i \in having : \A j \in having : j <= i].tools[t]

\* Mutant: a layer adds names, but does not hide those below.
OverlayBelow(below, layer) ==
    [t \in Tools |-> IF below[t] # None THEN below[t] ELSE layer.tools[t]]

(* ScopedToolRegistry::specs: the base, overlaid by one layer at a time    *)
Overlay(below, layer) ==
    [t \in Tools |-> IF layer.tools[t] # None THEN layer.tools[t]
                                              ELSE below[t]]

Specs ==
    LET upTo[n \in 0..Len(layers)] ==
            IF n = 0 THEN base ELSE Overlay(upTo[n - 1], layers[n])
    IN  upTo[Len(layers)]

(* The live scopes of these callers and of the applications.               *)
LiveScopes(callers) ==
    {scope[c] : c \in {d \in callers : scope[d] # None}}
        \cup {owned[a] : a \in {b \in Apps : owned[b] # None}}

(* push_scope: an empty layer with a fresh id on top                       *)
PushLayer(beside) ==
    /\ layers' = Append(layers, [id |-> next_id, tools |-> NoTools])
    /\ next_id' = next_id + 1
    /\ mingled' = IF beside = {} THEN mingled ELSE mingled \cup beside \cup {next_id}
    /\ UNCHANGED base

\* Mutant: pop whatever is on top.
PopAny(id) == IF layers # <<>> THEN SubSeq(layers, 1, Len(layers) - 1)
                               ELSE layers

(* pop_scope, called by ScopeGuard::drop: a no-op unless id is on top      *)
PopLayer(id) ==
    IF layers # <<>> /\ layers[Len(layers)].id = id
    THEN SubSeq(layers, 1, Len(layers) - 1)
    ELSE layers

(* register_in_scope: a tool replaces its namesake in the layer with id    *)
RegisterIn(id, t, impl) ==
    [i \in DOMAIN layers |->
        IF layers[i].id = id
        THEN [layers[i] EXCEPT !.tools[t] = impl]
        ELSE layers[i]]

-----------------------------------------------------------------------------
Init ==
    /\ locks = [s \in Sessions |-> 0]
    /\ mutexes = 0
    /\ stage = [c \in Callers |-> "idle"]
    /\ call = [c \in Callers |-> NoCall]
    /\ handle = [c \in Callers |-> 0]
    /\ held = [c \in Callers |-> 0]
    /\ scope = [c \in Callers |-> None]
    /\ answer = [c \in Callers |-> "none"]
    /\ seen = {}
    /\ base \in [Tools -> {"base", None}]
    /\ layers = <<>>
    /\ next_id = 0 /\ mingled = {}
    /\ owned = [a \in Apps |-> None]
    /\ calls = 0

(* run or resume is called.  run has found its session in the store,       *)
(* resume has loaded its snapshot; neither holds anything yet.             *)
Call(c, k, s, i) ==
    /\ stage[c] = "idle" /\ calls < MaxCalls
    /\ calls' = calls + 1
    /\ call' = [call EXCEPT ![c] = [kind |-> k, session |-> s, input |-> i]]
    /\ answer' = [answer EXCEPT ![c] = "none"]
    /\ stage' = [stage EXCEPT ![c] = "lookup"]
    /\ UNCHANGED <<gateVars, inputVars, toolVars, scope, owned>>

(* SessionGate::acquire, under the read lock of the map: clone the mutex   *)
LookUp(c) ==
    LET s == call[c].session IN
    /\ stage[c] = "lookup"
    /\ handle' = [handle EXCEPT ![c] = locks[s]]
    /\ stage' = [stage EXCEPT ![c] = IF locks[s] = 0 THEN "insert" ELSE "try"]
    /\ UNCHANGED <<locks, mutexes, held, inputVars, toolVars, call, scope,
                   answer, owned, calls>>

\* Mutant: the entry is not looked at again under the write lock.
AlwaysMissing(s) == TRUE

(* ..., under the write lock: entry(session).or_insert_with(a new mutex)   *)
MissingEntry(s) == locks[s] = 0

InsertMutex(c) ==
    LET s == call[c].session IN
    /\ stage[c] = "insert"
    /\ IF MissingEntry(s)
       THEN /\ mutexes' = mutexes + 1
            /\ locks' = [locks EXCEPT ![s] = mutexes + 1]
       ELSE UNCHANGED <<mutexes, locks>>
    /\ handle' = [handle EXCEPT ![c] = locks'[s]]
    /\ stage' = [stage EXCEPT ![c] = "try"]
    /\ UNCHANGED <<held, inputVars, toolVars, call, scope, answer, owned, calls>>

(* ..., try_lock_owned: the caller gets the mutex or SessionBusy at once.  *)
(* Only run goes on to admission.                                          *)
Free(m) == \A d \in Callers : held[d] # m

\* Mutant: lock().await in the place of try_lock_owned.
TryLockWaits(c) ==
    /\ stage[c] = "try" /\ Free(handle[c])
    /\ held' = [held EXCEPT ![c] = handle[c]]
    /\ stage' = [stage EXCEPT ![c] = IF call[c].kind = "run"
                                     THEN "admit" ELSE "push"]
    /\ UNCHANGED <<locks, mutexes, handle, inputVars, toolVars, call, scope,
                   answer, owned, calls>>

TryLock(c) ==
    /\ stage[c] = "try"
    /\ IF Free(handle[c])
       THEN /\ held' = [held EXCEPT ![c] = handle[c]]
            /\ stage' = [stage EXCEPT ![c] = IF call[c].kind = "run"
                                             THEN "admit" ELSE "push"]
            /\ UNCHANGED answer
       ELSE /\ stage' = [stage EXCEPT ![c] = "unwind"]
            /\ answer' = [answer EXCEPT ![c] = "busy"]
            /\ UNCHANGED held
    /\ UNCHANGED <<locks, mutexes, handle, inputVars, toolVars, call, scope,
                   owned, calls>>

(* InputAdmission::admit: validation, then the fingerprint is remembered,  *)
(* under its mutex, or found.                                              *)
Remember(i) == seen \cup {i}

Admit(c) ==
    LET i == call[c].input
        reject(why) == /\ stage' = [stage EXCEPT ![c] = "unwind"]
                       /\ answer' = [answer EXCEPT ![c] = why]
                       /\ UNCHANGED inputVars
    IN
    /\ stage[c] = "admit"
    /\ \/ i \in BadInputs /\ reject("invalid")
       \/ i \notin BadInputs /\ Dedup /\ i \in seen /\ reject("duplicate")
       \/ /\ i \notin BadInputs
          /\ Dedup => i \notin seen
          /\ seen' = IF Dedup THEN Remember(i) ELSE seen
          /\ stage' = [stage EXCEPT ![c] = "push"]
          /\ UNCHANGED answer
    /\ UNCHANGED <<gateVars, toolVars, call, scope, owned, calls>>

(* push_scope_guarded.  A resumed run exists already; run creates one.     *)
PushScope(c) ==
    /\ stage[c] = "push"
    /\ PushLayer(LiveScopes({d \in Callers : call[d].session # call[c].session}))
    /\ scope' = [scope EXCEPT ![c] = next_id]
    /\ stage' = [stage EXCEPT ![c] = IF call[c].kind = "run"
                                     THEN "create" ELSE "running"]
    /\ UNCHANGED <<gateVars, inputVars, call, answer, owned, calls>>

(* The run record is created, or the store fails and run returns.          *)
CreateRun(c) ==
    /\ stage[c] = "create"
    /\ \/ stage' = [stage EXCEPT ![c] = "running"] /\ UNCHANGED answer
       \/ /\ stage' = [stage EXCEPT ![c] = "unwind"]
          /\ answer' = [answer EXCEPT ![c] = "error"]
    /\ UNCHANGED <<gateVars, inputVars, toolVars, call, scope, owned, calls>>

(* The run loop is over, with a result or an error (module AgentRun).      *)
EndRun(c) ==
    /\ stage[c] = "running"
    /\ stage' = [stage EXCEPT ![c] = "unwind"]
    /\ answer' = [answer EXCEPT ![c] = "ended"]
    /\ UNCHANGED <<gateVars, inputVars, toolVars, call, scope, owned, calls>>

(* The caller drops the future at one of its awaits.                       *)
Drop(c) ==
    /\ stage[c] \in {"lookup", "insert", "create", "running"}
    /\ stage' = [stage EXCEPT ![c] = "unwind"]
    /\ answer' = [answer EXCEPT ![c] = "dropped"]
    /\ UNCHANGED <<gateVars, inputVars, toolVars, call, scope, owned, calls>>

\* Mutant: the guards are declared the other way round.
SessionFirst(c) == held[c] = 0

(* The locals of run and resume are dropped in the reverse order of their  *)
(* declaration: first the ScopeGuard, then the SessionGuard.  Other tasks  *)
(* run between the two.                                                    *)
ScopeFirst(c) == scope[c] # None

DropScope(c) ==
    /\ stage[c] = "unwind" /\ scope[c] # None /\ ScopeFirst(c)
    /\ layers' = PopLayer(scope[c])
    /\ scope' = [scope EXCEPT ![c] = None]
    /\ UNCHANGED <<gateVars, inputVars, base, next_id, mingled, stage, call,
                   answer, owned, calls>>

DropSession(c) ==
    /\ stage[c] = "unwind" /\ held[c] # 0 /\ ~ScopeFirst(c)
    /\ held' = [held EXCEPT ![c] = 0]
    /\ UNCHANGED <<locks, mutexes, handle, inputVars, toolVars, stage, call,
                   scope, answer, owned, calls>>

Return(c) ==
    /\ stage[c] = "unwind" /\ scope[c] = None /\ held[c] = 0
    /\ stage' = [stage EXCEPT ![c] = "idle"]
    /\ UNCHANGED <<gateVars, inputVars, toolVars, call, scope, answer, owned,
                   calls>>

-----------------------------------------------------------------------------
(* The application's use of the registry it shares with the runs *)
runVars == <<gateVars, inputVars, stage, call, scope, answer>>

AppPush(a) ==
    /\ owned[a] = None /\ calls < MaxCalls
    /\ calls' = calls + 1
    /\ PushLayer(LiveScopes(Callers))
    /\ owned' = [owned EXCEPT ![a] = next_id]
    /\ UNCHANGED runVars

AppRegister(a, t) ==
    /\ owned[a] # None
    /\ layers' = RegisterIn(owned[a], t, a)
    /\ UNCHANGED <<runVars, base, next_id, mingled, owned, calls>>

AppDrop(a) ==
    /\ owned[a] # None
    /\ layers' = PopLayer(owned[a])
    /\ owned' = [owned EXCEPT ![a] = None]
    /\ UNCHANGED <<runVars, base, next_id, mingled, calls>>

(* unregister_from_base works through a shared reference                   *)
AppUnregister(t) ==
    /\ base[t] # None /\ Apps # {}
    /\ base' = [base EXCEPT ![t] = None]
    /\ UNCHANGED <<runVars, layers, next_id, mingled, owned, calls>>

CallerStep(c) ==
    \/ LookUp(c) \/ InsertMutex(c) \/ TryLock(c) \/ Admit(c) \/ PushScope(c)
    \/ CreateRun(c) \/ EndRun(c)
    \/ DropScope(c) \/ DropSession(c) \/ Return(c)

Next ==
    \/ \E c \in Callers :
        \/ \E k \in Kinds, s \in Sessions, i \in Inputs : Call(c, k, s, i)
        \/ CallerStep(c)
        \/ Drop(c)
    \/ \E a \in Apps :
        \/ AppPush(a) \/ AppDrop(a)
        \/ \E t \in Tools : AppRegister(a, t)
    \/ \E t \in Tools : AppUnregister(t)

Spec == Init /\ [][Next]_vars

(* Fairness: the executor polls every task, and the stores answer.  A run  *)
(* is not assumed to end: nobody may have to wait for that.                *)
Prompt(c) == CallerStep(c) /\ stage[c] # "running"

FairSpec == Spec /\ \A c \in Callers : WF_vars(Prompt(c))

-----------------------------------------------------------------------------
(* Properties *)

(* Types.                                                                  *)
TypeOK ==
    /\ locks \in [Sessions -> 0..mutexes] /\ mutexes \in Nat
    /\ stage \in [Callers -> Stages]
    /\ call \in [Callers -> [kind : Kinds, session : Sessions \cup {None},
                             input : Inputs \cup {None}]]
    /\ \A c \in Callers : stage[c] \notin {"idle", "unwind"} =>
                            call[c].session \in Sessions /\ call[c].input \in Inputs
    /\ handle \in [Callers -> 0..mutexes]
    /\ held \in [Callers -> 0..mutexes]
    /\ scope \in [Callers -> Nat \cup {None}]
    /\ answer \in [Callers -> Answers]
    /\ seen \subseteq Inputs
    /\ base \in ToolMaps
    /\ layers \in Seq(Layer)
    /\ next_id \in Nat /\ mingled \subseteq Nat
    /\ owned \in [Apps -> Nat \cup {None}]
    /\ calls \in Nat

(* At most one run is active in a session, whatever the order in which     *)
(* callers look the session's mutex up, create it, lock it and are dropped *)
(* (session_gate.rs: "Prevents concurrent runs from interleaving writes to *)
(* the same session").                                                     *)
SessionExclusive ==
    \A c, d \in Callers :
        Active(c) /\ Active(d) /\ call[c].session = call[d].session => c = d

(* The map of mutexes with its two looks-up, try_lock and the guard dropped *)
(* last implement the abstract lock: nobody enters a session before the    *)
(* guard of the caller that is in it has been dropped.                     *)
Holders == [s \in Sessions |-> {c \in Callers : held[c] # 0
                                               /\ call[c].session = s}]
Lock == INSTANCE SessionLock WITH holders <- Holders
ImplementsSessionLock == Lock!Spec

(* However scopes are pushed and dropped by others, a scope stays on the   *)
(* stack until its own guard drops it: pop_scope never takes another's.    *)
LiveScopesPresent ==
    LET ids == {layers[i].id : i \in DOMAIN layers} IN
    /\ \A c \in Callers : scope[c] # None => scope[c] \in ids
    /\ \A a \in Apps : owned[a] # None => owned[a] \in ids

(* The specs offered to the model and the tool a call resolves to agree:   *)
(* specs overlays bottom-up what get searches top-down (tool_scope.rs).    *)
SpecsAgreeWithGet == \A t \in Tools : Specs[t] = Get(t)

(* A scope that its guard has left behind, as pop_scope does with one that *)
(* is not on top, was on the stack together with a live one of another     *)
(* session or of an application. The runs of one session leave none: each  *)
(* ScopeGuard goes before the SessionGuard that lets the next run in       *)
(* (agent.rs:284-286), wherever the runs are dropped.                      *)
NoLeakedScopes ==
    \A i \in DOMAIN layers :
        \/ \E c \in Callers : scope[c] = layers[i].id
        \/ \E a \in Apps : owned[a] = layers[i].id
        \/ layers[i].id \in mingled

(* A call is refused or begins to run although other runs, the one that    *)
(* holds its session too, may go on for ever.                              *)
CallsAnswered ==
    \A c \in Callers :
        stage[c] \notin {"idle", "running"} ~> stage[c] \in {"idle", "running"}
=============================================================================
