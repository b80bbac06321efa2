------------------------------- MODULE MCCalls -------------------------------
(* One behaviour exercises one of: two batches of tool calls that share a    *)
(* semaphore, the gate between a run and two approval interfaces, a streamed *)
(* model call, the doom loop detector, sub-engines that create others, tasks *)
(* that wait on the shutdown token, a request that falls back through a      *)
(* chain of providers, a batch of calls under a host's limits, or a map of   *)
(* extensions that several tasks change.                                     *)
EXTENDS ToolBatch, ApprovalGate, ProviderStream, DoomLoop, SubEngines, ShutdownToken,
        ModelRouter, ToolLimits, ExtensionPoint

CONSTANTS fetch, edit, b1, b2, root, child, grandchild

Parents == (child :> root) @@ (grandchild :> child)

\* One list that mixes both kinds, one that starts with an exclusive call.
Lists == {<<fetch, edit, fetch>>, <<edit, fetch>>}

Block(blockKind, index, id) == [kind |-> blockKind, index |-> index, id |-> id]
Comment == Block("comment", 0, "none")
Piece == Block("text", 0, "none")
Call(index, id) == Block("start", index, id)
Arguments1(index, id) == Block("args", index, id)
End(index, id) == Block("stop", index, id)
Final(reason) == Block(reason, 0, "none")

\* OpenAI interleaves two calls behind a text; two comments in a row.
\* Anthropic sends two calls, or one behind a text.
ServerReplies ==
    [openai |->
        {<<Piece, Comment, Call(0, "a"), Call(1, "b"), Arguments1(1, "b"), Arguments1(0, "a"),
           Final("ToolCalls"), Final("other")>>,
         <<Comment, Comment, Piece, Comment, Final("Stop")>>},
     anthropic |->
        {<<Final("other"), Call(0, "a"), Arguments1(0, "a"), End(0, "a"), Call(1, "b"), Arguments1(1, "b"),
           End(1, "b"), Final("ToolCalls")>>,
         <<Piece, End(0, "none"), Call(1, "a"), Arguments1(1, "a"), End(1, "a"), Final("ToolCalls")>>}]

Config(consecutive, minCycle, maxCycle, repetitions) ==
    [consecutive |-> consecutive, minCycle |-> minCycle, maxCycle |-> maxCycle, repetitions |-> repetitions]

\* The default with shorter cycles, one that repeats once, and the tightest.
DoomConfigs == {Config(3, 2, 2, 2), Config(3, 2, 3, 1), Config(2, 1, 2, 2)}

\* A provider listed twice, one without the capabilities, one not registered.
ProviderChains == {<<>>, <<"p">>, <<"q">>, <<"gone">>, <<"p", "q", "p">>, <<"gone", "p", "q">>, <<"p", "gone">>}
ProviderOffers == [p |-> "capable", q |-> "incapable"] @@ ("gone" :> "absent")

LimitsOf(calls, input, output, total, sandbox) ==
    [calls |-> calls, input |-> input, output |-> output, cumulative |-> total, sandbox |-> sandbox]

\* No limit, every limit, and two that only bound the output; tools of two
\* profiles, and one that is not registered.
ToolLimitConfigs == {LimitsOf({}, {}, {}, {}, {}), LimitsOf({2}, {1}, {2}, {3}, {1}), LimitsOf({}, {}, {2}, {3}, {})}
ToolSandboxes == [read |-> 1, write |-> 2]
Asked(tool, input) == [tool |-> tool, input |-> input]
ToolLists == {<<>>, <<Asked("read", 1), Asked("write", 2), Asked("read", 1)>>, <<Asked("gone", 1), Asked("read", 2)>>}
ScopeFilters == [allowlist : {{}, {"read"}}, denylist : {{}, {"read"}}]

VARIABLE part

Init == /\ part \in {"batches", "gate", "stream", "doom", "engines", "token", "router", "limits", "point"}
        /\ BatchInit /\ kind = [t \in Tools |-> IF t = fetch THEN "safe" ELSE "exclusive"]
        /\ part # "batches" => lenient
        /\ GateInit
        /\ StreamInit /\ (part # "stream" => adapter = "openai" /\ Len(reply) = 5)
        /\ DoomInit /\ (part # "doom" => config = Config(3, 2, 2, 2))
        /\ EnginesInit
        /\ TokenInit
        /\ part # "token" => \A x \in Waiters, y \in Signallers : wait[x].on = root /\ signal[y].of = root
        /\ PointInit
        /\ LimitsInit
        /\ part # "limits" => asked = <<>> /\ hooks /\ filter = CHOOSE f \in Filters : TRUE
        /\ part # "limits" => limits = CHOOSE l \in LimitConfigs : TRUE
        /\ RouterInit /\ (part # "router" => request = "chat" /\ chain = <<>> /\ retries)

Next == /\ UNCHANGED part
        /\ \/ part = "batches" /\ BatchNext /\ UNCHANGED <<gateVars, streamVars, doomVars, engineVars, tokenVars, routerVars, limitVars, pointVars>>
           \/ part = "gate" /\ GateNext /\ UNCHANGED <<batchVars, streamVars, doomVars, engineVars, tokenVars, routerVars, limitVars, pointVars>>
           \/ part = "stream" /\ StreamNext /\ UNCHANGED <<batchVars, gateVars, doomVars, engineVars, tokenVars, routerVars, limitVars, pointVars>>
           \/ part = "doom" /\ DoomNext /\ UNCHANGED <<batchVars, gateVars, streamVars, engineVars, tokenVars, routerVars, limitVars, pointVars>>
           \/ part = "engines" /\ EnginesNext /\ UNCHANGED <<batchVars, gateVars, streamVars, doomVars, tokenVars, routerVars, limitVars, pointVars>>
           \/ part = "token" /\ TokenNext /\ UNCHANGED <<batchVars, gateVars, streamVars, doomVars, engineVars, routerVars, limitVars, pointVars>>
           \/ part = "router" /\ RouterNext /\ UNCHANGED <<batchVars, gateVars, streamVars, doomVars, engineVars, tokenVars, limitVars, pointVars>>
           \/ part = "limits" /\ LimitsNext /\ UNCHANGED <<batchVars, gateVars, streamVars, doomVars, engineVars, tokenVars, routerVars, pointVars>>
           \/ part = "point" /\ PointNext /\ UNCHANGED <<batchVars, gateVars, streamVars, doomVars, engineVars, tokenVars, routerVars, limitVars>>

Spec == /\ Init
        /\ [][Next]_<<part, batchVars, gateVars, streamVars, doomVars, engineVars, tokenVars, routerVars, limitVars, pointVars>>
        /\ BatchFairness /\ TokenFairness
=============================================================================
