------------------------------ MODULE MCAgentRun ------------------------------
(* Small instances of AgentRun: the answers the model may give, and budgets. *)
EXTENDS AgentRun

\* Every combination of finish reason, calls and tokens a provider may send.
AllAnswers == [finish: Finishes, calls: 0..2, tokens: 0..MaxTokens]

\* The same without usage reports.
UnmeteredAnswers == [finish: Finishes, calls: 0..2, tokens: {0}]

\* A provider that lists tool calls exactly when it finishes for them.
OrderlyAnswers == {a \in AllAnswers : a.calls > 0 <=> a.finish = "ToolCalls"}

NoBudget == {}
SmallBudget == {1}
=============================================================================
