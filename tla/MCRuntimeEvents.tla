-------------------------- MODULE MCRuntimeEvents --------------------------
(* Two observers of one runtime's events, one at a time: the bridge with a  *)
(* reader behind it, or the listeners of an invocation with the queue.      *)
EXTENDS EventPipeline, Invocation

CONSTANTS Stores, Adapters, Listeners, QueueListeners

Wirings ==
    {[store |-> w[1], adapter |-> w[2], queue |-> FALSE, readers |-> Readers,
      listeners |-> {}, resumed |-> {}] :
        w \in (Stores \X Adapters) \cap {<<"memory", "memory">>, <<"redis", "redis">>,
                                        <<"postgres", "nats">>}}
    \cup {[store |-> "memory", adapter |-> "memory", queue |-> Cardinality(ls) = 1,
           readers |-> {}, listeners |-> ls,
           resumed |-> IF Cardinality(ls) = 1 THEN Runs ELSE {}] :
            ls \in {Listeners, QueueListeners} \ {{}}}

allVars == <<eventVars, pipelineVars, invocationVars>>

Init == /\ wiring \in Wirings
        /\ EventsInit
        /\ PipelineInit
        /\ InvocationInit

Next == \/ wiring.listeners = {} /\ PipelineNext /\ UNCHANGED invocationVars
        \/ wiring.listeners # {} /\ InvocationNext /\ UNCHANGED pipelineVars

Spec == Init /\ [][Next]_allVars
FairSpec == Spec /\ PipelineFairness
=============================================================================
