----------------------------- MODULE ToolLimits -----------------------------
(* The tool runtime of behest-tool for hosts that want limits: a batch of     *)
(* calls through a scope's filter, one after the other, with checks before    *)
(* each execution and hooks around it.                                       *)
EXTENDS Integers, Sequences, FiniteSets

CONSTANTS
    LimitedBatches, \* the lists of calls a model may make: [tool, input]
    Sandboxes,      \* registered tool -> its sandbox profile, 0 to 3
    Filters,        \* ScopedFilter: [allowlist, denylist] of tools
    LimitConfigs,   \* ToolRuntimeLimits, each field a set: {} is no limit
    OutputSizes

ASSUME ToolLimitsAssumption ==
    /\ \A f \in LimitConfigs : \A l \in f.cumulative : l \in Nat
    /\ OutputSizes \subseteq Nat

VARIABLES
    asked, filter, limits, hooks,
    answers,    \* call -> its result: "none" while it has none
    cumulative, \* cumulative_output_bytes
    begun,      \* history: the calls whose tool was started
    delivered   \* history: the bytes of all values answered with

limitVars == <<asked, filter, limits, hooks, answers, cumulative, begun, delivered>>

Within(amount, limit) == \A l \in limit : amount <= l

\* ScopedFilter::allows: the denylist comes first, an empty allowlist allows all.
Allows(tool) ==
    /\ tool \notin filter.denylist
    /\ filter.allowlist = {} \/ tool \in filter.allowlist

Allowed == {i \in DOMAIN asked : Allows(asked[i].tool)}

Error(reason) == [kind |-> reason, size |-> 0]
Value(size) == [kind |-> "ok", size |-> size]
Unanswered(i) == answers[i] = Error("none")

LimitsInit ==
    /\ asked \in LimitedBatches
    /\ filter \in Filters
    /\ limits \in LimitConfigs
    /\ hooks \in BOOLEAN
    /\ answers = [i \in DOMAIN asked |->
                    IF i \notin Allowed THEN Error("unavailable")
                    ELSE IF ~Within(Cardinality(Allowed), limits.calls) THEN Error("tooMany")
                    ELSE Error("none")]
    /\ cumulative = 0
    /\ begun = {}
    /\ delivered = 0

InTurn(i) == Unanswered(i) /\ \A j \in DOMAIN asked : j < i => ~Unanswered(j)

\* What the three checks in front of the hooks let through.
Passes(i) ==
    /\ asked[i].tool \in DOMAIN Sandboxes
    /\ Within(asked[i].input, limits.input)
    /\ Within(Sandboxes[asked[i].tool], limits.sandbox)

\* The loop of execute_batch: once the sum is over its limit, this call and all
\* that follow are answered by an error, though their tools are executed.
Respond(i, result) ==
    /\ cumulative' = cumulative + result.size
    /\ IF Within(cumulative', limits.cumulative)
       THEN answers' = [answers EXCEPT ![i] = result] /\ delivered' = delivered + result.size
       ELSE answers' = [answers EXCEPT ![i] = Error("overrun")] /\ UNCHANGED delivered
    /\ UNCHANGED <<asked, filter, limits, hooks>>

\* Unknown, too large an input, too wide a sandbox; or a hook says no.
TurnDown(i) ==
    /\ InTurn(i)
    /\ ~Passes(i) \/ hooks
    /\ Respond(i, Error("refused"))
    /\ UNCHANGED begun

\* The tool fails, runs out of time, or returns more than it may.
ExecuteFails(i) ==
    /\ InTurn(i) /\ Passes(i)
    /\ Respond(i, Error("failed"))
    /\ begun' = begun \cup {i}

\* after_execute gets the result as &mut: a hook may put any value there.
Execute(i) ==
    /\ InTurn(i) /\ Passes(i)
    /\ \E size \in OutputSizes :
          /\ Within(size, limits.output) \/ hooks
          /\ Respond(i, Value(size))
    /\ begun' = begun \cup {i}

LimitsNext == \E i \in DOMAIN asked : TurnDown(i) \/ ExecuteFails(i) \/ Execute(i)

LimitsSpec == LimitsInit /\ [][LimitsNext]_limitVars
-----------------------------------------------------------------------------
\* Whatever tools and hooks return, the values of a batch never exceed
\* max_cumulative_output_bytes, and no tool is started that the filter hides,
\* whose sandbox or input is over the limit, or in a batch that is too long.
LimitsEnforced ==
    /\ Within(delivered, limits.cumulative)
    /\ \A i \in begun :
          /\ Allows(asked[i].tool) /\ Passes(i)
          /\ Within(Cardinality(Allowed), limits.calls)
=============================================================================
