------------------------------ MODULE ToolBatch ------------------------------
(* The tool calls of one model answer, executed as a batch by the            *)
(* ToolRuntime that the runs of a runtime share: concurrency-safe tools      *)
(* together, the others one at a time behind them, all under one semaphore.  *)
EXTENDS Integers, Sequences, FiniteSets

CONSTANTS
    Batches,    \* calls of execute_batch, of any runs
    Tools,
    Permits,    \* max_tool_concurrency, at least 1
    CallLists,  \* the lists of calls a model may answer with
    MaxUpsets,  \* bound: registry changes, dropped batches, failing store calls
    None

ASSUME BatchAssumption ==
    /\ Permits \in Nat \ {0} /\ MaxUpsets \in Nat
    /\ CallLists \subseteq Seq(Tools) \ {<<>>}
    /\ None \notin [call: Nat, out: {"ok", "error"}]

VARIABLES
    kind,         \* the registry: a tool is "safe", "exclusive" or "absent"
    lenient,      \* policy.continue_on_tool_failure
    batch,        \* per batch: its calls and how far each has come
    free,         \* permits left
    executions,   \* records [batch, call, out] in the execution store
    changes, faults

batchVars == <<kind, lenient, batch, free, executions, changes, faults>>

Idle == [phase |-> "idle", calls |-> <<>>, together |-> {}, status |-> <<>>, results |-> <<>>]

BatchInit ==
    /\ kind \in [Tools -> {"safe", "exclusive"}]
    /\ lenient \in BOOLEAN
    /\ batch = [b \in Batches |-> Idle]
    /\ free = Permits
    /\ executions = {}
    /\ changes = 0 /\ faults = 0

Upset == changes + faults < MaxUpsets

Calls(b) == DOMAIN batch[b].calls
Together(b) == batch[b].together
Alone(b) == Calls(b) \ Together(b)
Status(b, i) == batch[b].status[i]
Ended(b, i) == Status(b, i) \in {"ok", "error"}
Answered(b, i) == batch[b].results[i] # None

\* The calls are partitioned by the tools registered now; a call of a tool
\* that is not registered goes with the exclusive ones.
ExecuteBatch(b, calls) ==
    /\ batch[b].phase = "idle"
    /\ batch' = [batch EXCEPT ![b] =
           [phase    |-> "together",
            calls    |-> calls,
            together |-> {i \in DOMAIN calls : kind[calls[i]] = "safe"},
            status   |-> [i \in DOMAIN calls |-> "waiting"],
            results  |-> [i \in DOMAIN calls |-> None]]]
    /\ UNCHANGED <<kind, lenient, free, executions, changes, faults>>

\* The exclusive call whose turn it is: the first without a result.
Next1(b) == CHOOSE i \in Alone(b) :
                ~Answered(b, i) /\ \A j \in Alone(b) : j < i => Answered(b, j)

\* Mutant: the exclusive calls are started with the concurrent ones.
MayStartAny(b, i) == batch[b].phase = "together" /\ Status(b, i) = "waiting"

MayStart(b, i) ==
    /\ Status(b, i) = "waiting"
    /\ \/ batch[b].phase = "together" /\ i \in Together(b)
       \/ batch[b].phase = "alone" /\ i \in Alone(b) /\ i = Next1(b)

\* A call gets a permit and, in the same step, looks its tool up in the
\* registry of that moment and validates the arguments.
Start(b, i) ==
    /\ MayStart(b, i)
    /\ free > 0 /\ free' = free - 1
    /\ kind[batch[b].calls[i]] # "absent"
    /\ batch' = [batch EXCEPT ![b].status[i] = "running"]
    /\ UNCHANGED <<kind, lenient, executions, changes, faults>>

\* How a call ends. A concurrent call gives its permit back; an exclusive one
\* keeps it until it is recorded, unless its error ends the batch.
EndWith(b, i, out, permits) ==
    LET gone == i \in Alone(b) /\ out = "error" /\ ~lenient
    IN  /\ batch' = [batch EXCEPT ![b].status[i] = out,
                                  ![b].phase = IF gone THEN "failed" ELSE @]
        /\ free' = IF i \in Together(b) \/ gone THEN permits + 1 ELSE permits

\* Tool not found, or arguments its schema refuses: no tool is executed.
Refuse(b, i) ==
    /\ MayStart(b, i)
    /\ free > 0
    /\ EndWith(b, i, "error", free - 1)
    /\ UNCHANGED <<kind, lenient, executions, changes, faults>>

\* The tool returns, fails, or runs into tool_timeout.
Finish(b, i, out) ==
    /\ batch[b].phase \in {"together", "alone"}
    /\ Status(b, i) = "running"
    /\ EndWith(b, i, out, free)
    /\ UNCHANGED <<kind, lenient, executions, changes, faults>>

\* An execution record is stored; that the store fails is only logged.
Recorded(b, i) ==
    \/ /\ executions' = executions \cup {[batch |-> b, call |-> i, out |-> Status(b, i)]}
       /\ UNCHANGED faults
    \/ Upset /\ faults' = faults + 1 /\ UNCHANGED executions

Answer(b, i) == [batch EXCEPT ![b].results[i] = [call |-> i, out |-> Status(b, i)]]

\* join_all gives the concurrent results in the order of the calls.
Pending(b) == {i \in Together(b) : ~Answered(b, i) /\ \A j \in Together(b) : j < i => Answered(b, j)}

\* When all concurrent calls have ended, each is recorded and answered; the
\* first error ends the batch unless the policy is lenient.
Gather(b) ==
    /\ batch[b].phase = "together"
    /\ \A i \in Together(b) : Ended(b, i)
    /\ \E i \in Pending(b) :
        \/ /\ lenient \/ Status(b, i) = "ok"
           /\ batch' = Answer(b, i)
           /\ Recorded(b, i)
        \/ /\ ~lenient /\ Status(b, i) = "error"
           /\ batch' = [batch EXCEPT ![b].phase = "failed"]
           /\ UNCHANGED <<executions, faults>>
    /\ UNCHANGED <<kind, lenient, free, changes>>

StartAlone(b) ==
    /\ batch[b].phase = "together"
    /\ \A i \in Together(b) : Answered(b, i)
    /\ batch' = [batch EXCEPT ![b].phase = "alone"]
    /\ UNCHANGED <<kind, lenient, free, executions, changes, faults>>

\* Mutant: the permit of an exclusive call is not given back.
RecordAloneKeepsPermit(b) ==
    /\ batch[b].phase = "alone"
    /\ \E i \in Alone(b) : /\ Ended(b, i) /\ ~Answered(b, i)
                           /\ batch' = Answer(b, i)
                           /\ Recorded(b, i)
    /\ UNCHANGED <<kind, lenient, free, changes>>

\* An exclusive call is recorded under its permit.
RecordAlone(b) ==
    /\ batch[b].phase = "alone"
    /\ \E i \in Alone(b) : /\ Ended(b, i) /\ ~Answered(b, i)
                           /\ batch' = Answer(b, i)
                           /\ Recorded(b, i)
    /\ free' = free + 1
    /\ UNCHANGED <<kind, lenient, changes>>

\* Mutant: the results of the concurrent group come first.
MergedByGroup(b) ==
    [n \in Calls(b) |->
        batch[b].results[CHOOSE i \in Calls(b) :
            n = Cardinality({j \in Calls(b) : \/ (j \in Together(b)) = (i \in Together(b)) /\ j <= i
                                              \/ j \in Together(b) /\ i \in Alone(b)})]]

Merged(b) == batch[b].results

Return(b) ==
    /\ batch[b].phase = "alone"
    /\ \A i \in Calls(b) : Answered(b, i)
    /\ batch' = [batch EXCEPT ![b].phase = "returned", ![b].results = Merged(b)]
    /\ UNCHANGED <<kind, lenient, free, executions, changes, faults>>

Holding(b) == {i \in Calls(b) : \/ Status(b, i) = "running"
                                \/ i \in Alone(b) /\ Ended(b, i) /\ ~Answered(b, i)
                                    /\ batch[b].phase = "alone"}

\* The run is interrupted: the future of the batch is dropped, its tools with
\* it, and the permits they held are free again.
Drop(b) ==
    /\ batch[b].phase \in {"together", "alone"}
    /\ Upset /\ faults' = faults + 1
    /\ batch' = [batch EXCEPT ![b].phase = "dropped",
           ![b].status = [i \in Calls(b) |-> IF @[i] = "running" THEN "waiting" ELSE @[i]]]
    /\ free' = free + Cardinality(Holding(b))
    /\ UNCHANGED <<kind, lenient, executions, changes>>

\* register_tool and unregister_tool, at any time.
RegisterTool(t, k) ==
    /\ k # kind[t]
    /\ Upset /\ changes' = changes + 1
    /\ kind' = [kind EXCEPT ![t] = k]
    /\ UNCHANGED <<lenient, batch, free, executions, faults>>

\* What execute_batch does by itself once it is called. Every tool ends: the
\* timeout of the policy sees to it.
BatchStep(b) ==
    \/ \E i \in Calls(b) : Start(b, i) \/ Refuse(b, i)
    \/ \E i \in Calls(b), out \in {"ok", "error"} : Finish(b, i, out)
    \/ Gather(b) \/ StartAlone(b) \/ RecordAlone(b) \/ Return(b)

BatchNext ==
    \/ \E b \in Batches : \/ \E calls \in CallLists : ExecuteBatch(b, calls)
                          \/ BatchStep(b)
                          \/ Drop(b)
    \/ \E t \in Tools, k \in {"safe", "exclusive", "absent"} : RegisterTool(t, k)

BatchFairness == \A b \in Batches : WF_batchVars(BatchStep(b))
-----------------------------------------------------------------------------
Over == {"returned", "failed", "dropped"}

\* A batch that returns has one result per call, at the call's own place, and
\* none of an error unless the policy is lenient: run_loop appends the results
\* in this order and the provider pairs them with its calls. However it ends,
\* a tool that was executed is recorded, unless a store failed, the run was
\* dropped, or a call before it in the list failed.
ResultsInCallOrder ==
    \A b \in Batches :
        /\ batch[b].phase = "returned" =>
            \A i \in Calls(b) : /\ batch[b].results[i] = [call |-> i, out |-> Status(b, i)]
                                /\ Ended(b, i)
                                /\ Status(b, i) = "ok" \/ lenient
        /\ faults = 0 /\ batch[b].phase \in Over =>
            \A i \in Calls(b) : Status(b, i) = "ok" =>
                \/ [batch |-> b, call |-> i, out |-> "ok"] \in executions
                \/ ~lenient /\ \E j \in Together(b) : j < i /\ Status(b, j) = "error"

\* A tool taken for exclusive runs while no other call of its batch does, and
\* none is started behind an error that ends the batch.
ExclusiveAlone ==
    \A b \in Batches : \A i \in Alone(b) : Status(b, i) # "waiting" =>
        \A j \in Calls(b) \ {i} :
            /\ Status(b, i) = "running" => Status(b, j) # "running"
            /\ j \in Together(b) \/ j < i => Ended(b, j) /\ (lenient \/ Status(b, j) = "ok")

\* A batch ends, whatever the batches it shares the semaphore with do.
BatchEnds == \A b \in Batches : (batch[b].phase # "idle") ~> (batch[b].phase \in Over)
=============================================================================
