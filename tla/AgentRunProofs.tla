---------------------------- MODULE AgentRunProofs ----------------------------
(***************************************************************************)
(* Theorems about AgentRun: type correctness, completeness of what a       *)
(* resumption needs, the bounds on model calls, tokens and continuations,  *)
(* the order of the session's history, and the agreement of outcomes.      *)
(***************************************************************************)
EXTENDS AgentRun, FiniteSetTheorems, SequenceTheorems, TLAPS

SavedStates == Blocks \ {"ProcessingResponse"}
CallStates == {"BuildingContext", "CallingModel"}

\* What every snapshot ever saved guarantees to the block it names.
SnapshotOK(s) ==
    s # NoSnapshot =>
        /\ s.state \in SavedStates
        /\ s.state \in CallStates => /\ s.iteration \in 1..MaxIterations
                                     /\ \A limit \in Budget : s.usage < limit
        /\ \A limit \in Budget : s.usage < limit + MaxTokens
        /\ s.state = "ExecutingTools" => s.answer # NoAnswer
        /\ s.state \in {"ExecutingTools", "Persisting"} => s.finish = "ToolCalls"

\* Where control can stand with each value of resume_from, and what the local
\* variables hold by then.
ControlOK ==
    /\ resumeFrom \in SavedStates
    /\ pc \in {"Idle", "Created", "SessionLoaded"} => resumeFrom = "CheckingPolicy"
    /\ pc \in Blocks /\ resumeFrom = "ExecutingTools" =>
           pc # "Persisting" /\ answer # NoAnswer /\ finish = "ToolCalls"
    /\ pc \in Blocks /\ resumeFrom = "Persisting" => finish = "ToolCalls"
    /\ pc \in Blocks /\ resumeFrom = "CallingModel" =>
           pc \in {"CheckingPolicy", "BuildingContext", "CallingModel"}
    /\ pc \in {"Compacting", "Assembling"} =>
           resumeFrom \in {"CheckingPolicy", "BuildingContext", "CallingModel"}
    /\ pc \in {"AwaitingModel", "AwaitingTools", "AppendingResults"} =>
           resumeFrom = "CheckingPolicy"
    /\ pc = "CallingModel" /\ resumeFrom \in {"CheckingPolicy", "CallingModel"} =>
           request = "Some"
    /\ pc = "ProcessingResponse" /\ resumeFrom = "CheckingPolicy" =>
           answer # NoAnswer /\ finish # "None"
    /\ pc \in {"ExecutingTools", "Persisting"} /\ resumeFrom = "CheckingPolicy" =>
           finish = "ToolCalls"
    /\ pc = "ExecutingTools" /\ resumeFrom = "CheckingPolicy" =>
           answer # NoAnswer
    /\ pc \in {"AwaitingTools", "AppendingResults"} => finish = "ToolCalls"

\* Between a passed policy check and the model call it allows.
BeforeCall ==
    \/ pc \in {"BuildingContext", "CallingModel"}
       /\ resumeFrom \in {"CheckingPolicy", "BuildingContext", "CallingModel"}
    \/ pc \in {"Compacting", "Assembling"}
    \/ pc \in Blocks /\ resumeFrom \in CallStates

\* The bounds, with the slack the next model call needs.
BoundsOK ==
    /\ modelCalls <= iteration
    /\ modelCalls <= MaxIterations
    /\ \A limit \in Budget : usage < limit + MaxTokens
    /\ BeforeCall => modelCalls < iteration /\ iteration <= MaxIterations
    /\ BeforeCall \/ pc = "AwaitingModel" => \A limit \in Budget : usage < limit

IInv ==
    /\ TypeOK
    /\ RecoveryDataComplete
    /\ SnapshotOK(snapshot) /\ SnapshotOK(loaded)
    /\ ControlOK
    /\ BoundsOK

-----------------------------------------------------------------------------
\* What the three functions of a block return (TurnTransition and the block
\* tests of run_loop_inner).
LEMMA BlockFacts ==
    /\ \A b \in Blocks : NextBlock(b) \in Blocks
    /\ \A b \in Blocks : StatusFor(b) \in Statuses
    /\ \A b \in Blocks : EntersFrom(b) =
           IF b = "BuildingContext"
           THEN {"CheckingPolicy", "BuildingContext", "CallingModel"}
           ELSE {"CheckingPolicy", b}
    /\ NextBlock("CheckingPolicy") = "BuildingContext"
    /\ NextBlock("BuildingContext") = "CallingModel"
    /\ NextBlock("CallingModel") = "ProcessingResponse"
    /\ NextBlock("ProcessingResponse") = "ExecutingTools"
    /\ NextBlock("ExecutingTools") = "Persisting"
    /\ NextBlock("Persisting") = "CheckingPolicy"
BY DEF NextBlock, StatusFor, EntersFrom, Blocks, Statuses, Terminal

\* Saying a message and emitting an event keep the logs in their types.
LEMMA LogTypes ==
    /\ \A h \in Seq(Messages), m \in Messages : Append(h, m) \in Seq(Messages)
    /\ \A h \in Seq(Events), e \in Events : Append(h, e) \in Seq(Events)
    /\ \A h \in Seq(Events), r \in Answers : h \o Usage(r) \in Seq(Events)
    /\ \A h \in Seq(Messages) : Len(h) \in Nat
PROOF
  <1>1. <<"UsageRecorded">> \in Seq(Events) /\ <<>> \in Seq(Events)
    BY DEF Events
  <1>2. \A r \in Answers : Usage(r) \in Seq(Events)
    BY <1>1 DEF Usage
  <1>3. \A h, g \in Seq(Events) : h \o g \in Seq(Events)
    OBVIOUS
  <1> QED
    BY <1>2, <1>3

\* Every step keeps the variables in their types.
LEMMA TypeStep == TypeOK /\ [Next]_vars => TypeOK'
PROOF
  <1> SUFFICES ASSUME TypeOK, [Next]_vars PROVE TypeOK'
    OBVIOUS
  <1>a. ASSUME NEW m \in Messages, history' = Append(history, m)
        PROVE  history' \in Seq(Messages)
    BY <1>a, LogTypes DEF TypeOK
  <1>b. ASSUME NEW e \in Events, events' = Append(events, e)
        PROVE  events' \in Seq(Events)
    BY <1>b, LogTypes DEF TypeOK
  <1>c. ASSUME NEW r \in Answers, events' = events \o Usage(r)
        PROVE  events' \in Seq(Events)
    BY <1>c, LogTypes DEF TypeOK
  <1> USE AgentRunAssumption, BlockFacts
  <1> USE DEF TypeOK, Places, Blocks, Results, Statuses, Terminal, Finishes, Replies,
              NoAnswer, task, durable, ghost, Rejoin,
              UpdateStatus, Saving
  <1>1. CASE CreateRun
    BY <1>1 DEF CreateRun, Emit, Events
  <1>2. CASE LoadSession
    BY <1>2 DEF LoadSession
  <1>3. CASE AppendInput
    BY <1>3 DEF AppendInput, Say, Messages
  <1>4. CASE SkipBlock
    BY <1>4 DEF SkipBlock
  <1>5. CASE CheckPolicy
    BY <1>5 DEF CheckPolicy, SaveAt, Snapshots
  <1>6. CASE EnterBuildingContext
    BY <1>6 DEF EnterBuildingContext, UpdateStatus, Snapshots, Entering
  <1>7. CASE CompactIfNeeded
    BY <1>7 DEF CompactIfNeeded, ReturnErr
  <1>8. CASE BuildContext
    BY <1>8 DEF BuildContext, ReturnErr
  <1>9. CASE CallModel
    BY <1>9 DEF CallModel, UpdateStatus, Snapshots, Emit, Events, ReturnErr
  <1>10. CASE ModelAnswers
    <2>1. PICK reply \in Answers :
              /\ usage' = usage + reply.tokens
              /\ finish' = reply.finish
              /\ answer' = [id |-> Len(history) + 1, calls |-> reply.calls]
              /\ history' = Append(history,
                     [role |-> "assistant", id |-> Len(history) + 1,
                      calls |-> reply.calls])
              /\ events' = (events \o Usage(reply))
                              \o <<"AssistantMessageCommitted">>
      BY <1>10 DEF ModelAnswers, Say
    <2>2. reply \in [finish: Finishes, calls: Nat, tokens: 0..MaxTokens]
      OBVIOUS
    <2>3. [role |-> "assistant", id |-> Len(history) + 1,
           calls |-> reply.calls] \in Messages
      BY <2>2, LogTypes DEF Messages
    <2>4. history' \in Seq(Messages)
      BY <2>1, <2>3, LogTypes
    <2>5. events' \in Seq(Events)
      BY <2>1, LogTypes DEF Events
    <2>6. usage' \in Nat /\ finish' \in Finishes /\ answer' \in Replies
      BY <2>1, <2>2, LogTypes
    <2> QED
      BY <1>10, <2>4, <2>5, <2>6 DEF ModelAnswers
  <1>11. CASE ModelFails
    <2>1. events' = events \/ \E r \in Answers : events' = events \o Usage(r)
      BY <1>11 DEF ModelFails
    <2>2. events' \in Seq(Events)
      BY <2>1, <1>c
    <2> QED
      BY <1>11, <2>2 DEF ModelFails, ReturnErr
  <1>12. CASE ContextOverflows
    BY <1>12 DEF ContextOverflows, ReturnErr
  <1>13. CASE ProcessResponse
    <2>1. [role |-> "continue", id |-> 0, calls |-> 0] \in Messages
      BY DEF Messages
    <2>4. \/ history' = history
          \/ history' = Append(history, [role |-> "continue", id |-> 0, calls |-> 0])
      BY <1>13 DEF ProcessResponse, Say
    <2>5. recovery' \in Nat
      BY <1>13 DEF ProcessResponse
    <2>2. history' \in Seq(Messages) /\ recovery' \in Nat
      BY <2>1, <2>4, <2>5, <1>a
    <2>3. pc' \in Places /\ result' \in Results
      BY <1>13 DEF ProcessResponse, ReturnErr
    <2> QED
      BY <1>13, <2>2, <2>3 DEF ProcessResponse
  <1>14. CASE EnterExecutingTools
    <2>1. events' \in Seq(Events)
      BY <1>14, LogTypes DEF EnterExecutingTools, Emit, Events
    <2>2. pc' \in Places /\ result' \in Results
      BY <1>14 DEF EnterExecutingTools, ReturnErr
    <2>3. status' \in Statuses
      BY <1>14 DEF EnterExecutingTools
    <2> QED
      BY <1>14, <2>1, <2>2, <2>3 DEF EnterExecutingTools
  <1>15. CASE ExecuteTools
    BY <1>15 DEF ExecuteTools, ReturnErr
  <1>16. CASE AppendResult
    <2>1. [role |-> "tool", id |-> answer.id, calls |-> appended + 1] \in Messages
      BY DEF Messages
    <2>4. \/ history' = history /\ events' = events
          \/ /\ history' = Append(history, [role |-> "tool", id |-> answer.id,
                                             calls |-> appended + 1])
             /\ events' = Append(events, "ToolMessageCommitted")
      BY <1>16 DEF AppendResult, SayResult, ToolMessage, Say, Emit
    <2>2. history' \in Seq(Messages) /\ events' \in Seq(Events)
      BY <2>1, <2>4, <1>a, <1>b DEF Events
    <2>3. pc' \in Places /\ appended' \in Nat
      BY <1>16 DEF AppendResult
    <2> QED
      BY <1>16, <2>2, <2>3 DEF AppendResult
  <1>17. CASE Persist
    BY <1>17 DEF Persist, UpdateStatus, Snapshots, ReturnErr
  <1>18. CASE Complete
    BY <1>18 DEF Complete, Emit, Events
  <1>19. CASE FailRun
    BY <1>19 DEF FailRun, Emit, Events
  <1>20. CASE Exit
    BY <1>20 DEF Exit
  <1>21. CASE StoreFails
    BY <1>21 DEF StoreFails, ReturnErr
  <1>22. CASE Drop
    BY <1>22 DEF Drop
  <1>23. CASE ResumeLoad
    BY <1>23 DEF ResumeLoad
  <1>24. CASE ResumeRefused
    BY <1>24 DEF ResumeRefused
  <1>25. CASE ResumeStart
    BY <1>25 DEF ResumeStart, Snapshots, NoSnapshot
  <1>26. CASE UNCHANGED vars
    BY <1>26 DEF vars
  <1>27. CASE SaveSnapshot
    BY <1>27 DEF SaveSnapshot, SaveAt, Entering, Snapshots
  <1> QED
    BY <1>1, <1>2, <1>3, <1>4, <1>5, <1>6, <1>7, <1>8, <1>9, <1>10, <1>11, <1>12, <1>13, <1>14, <1>15, <1>16, <1>17, <1>18, <1>19, <1>20, <1>21, <1>22, <1>23, <1>24, <1>25, <1>26, <1>27 DEF Next, Start, Loop

\* The run's record is of the right type in every reachable state.
THEOREM TypeCorrect == Spec => []TypeOK
PROOF
  <1>1. Init => TypeOK
    BY AgentRunAssumption DEF Init, TypeOK, Places, Results, Statuses, Blocks, Replies, NoAnswer, Saving
  <1>2. TypeOK /\ [Next]_vars => TypeOK'
    BY TypeStep
  <1> QED
    BY <1>1, <1>2, PTL DEF Spec

-----------------------------------------------------------------------------

\* Every snapshot that is saved or loaded is complete.
LEMMA SnapshotStep == IInv /\ [Next]_vars => SnapshotOK(snapshot)' /\ SnapshotOK(loaded)'
PROOF
  <1> SUFFICES ASSUME IInv, [Next]_vars PROVE SnapshotOK(snapshot)' /\ SnapshotOK(loaded)'
    OBVIOUS
  <1> USE AgentRunAssumption, BlockFacts
  <1> USE DEF IInv, TypeOK, Blocks, NoAnswer, task, durable, ghost, Rejoin, SnapshotOK, NoSnapshot,
              SavedStates, CallStates, ControlOK, BoundsOK, BeforeCall
  <1>1. CASE CreateRun
    BY <1>1 DEF CreateRun
  <1>2. CASE LoadSession
    BY <1>2 DEF LoadSession
  <1>3. CASE AppendInput
    BY <1>3 DEF AppendInput
  <1>4. CASE SkipBlock
    BY <1>4 DEF SkipBlock
  <1>5. CASE CheckPolicy
    BY <1>5 DEF CheckPolicy, SaveAt, Entering
  <1>6. CASE EnterBuildingContext
    BY <1>6 DEF EnterBuildingContext, UpdateStatus, Entering
  <1>7. CASE CompactIfNeeded
    BY <1>7 DEF CompactIfNeeded, ReturnErr
  <1>8. CASE BuildContext
    BY <1>8 DEF BuildContext, ReturnErr
  <1>9. CASE CallModel
    BY <1>9 DEF CallModel, UpdateStatus, ReturnErr, Entering
  <1>10. CASE ModelAnswers
    BY <1>10 DEF ModelAnswers
  <1>11. CASE ModelFails
    BY <1>11 DEF ModelFails, ReturnErr
  <1>12. CASE ContextOverflows
    BY <1>12 DEF ContextOverflows, ReturnErr
  <1>13. CASE ProcessResponse
    BY <1>13 DEF ProcessResponse, ReturnErr, Entering
  <1>14. CASE EnterExecutingTools
    BY <1>14 DEF EnterExecutingTools, UpdateStatus, ReturnErr, Entering
  <1>15. CASE ExecuteTools
    BY <1>15 DEF ExecuteTools, ReturnErr
  <1>16. CASE AppendResult
    BY <1>16 DEF AppendResult
  <1>17. CASE Persist
    BY <1>17 DEF Persist, UpdateStatus, ReturnErr, Entering
  <1>18. CASE Complete
    BY <1>18 DEF Complete
  <1>19. CASE FailRun
    BY <1>19 DEF FailRun
  <1>20. CASE Exit
    BY <1>20 DEF Exit
  <1>21. CASE StoreFails
    BY <1>21 DEF StoreFails, ReturnErr, Entering
  <1>22. CASE Drop
    BY <1>22 DEF Drop
  <1>23. CASE ResumeLoad
    BY <1>23 DEF ResumeLoad
  <1>24. CASE ResumeRefused
    BY <1>24 DEF ResumeRefused
  <1>25. CASE ResumeStart
    BY <1>25 DEF ResumeStart, Snapshots, SnapshotOK
  <1>26. CASE UNCHANGED vars
    BY <1>26 DEF vars
  <1>27. CASE SaveSnapshot
    BY <1>27 DEF SaveSnapshot, SaveAt, Entering, Saving
  <1> QED
    BY <1>1, <1>2, <1>3, <1>4, <1>5, <1>6, <1>7, <1>8, <1>9, <1>10, <1>11, <1>12, <1>13, <1>14, <1>15, <1>16, <1>17, <1>18, <1>19, <1>20, <1>21, <1>22, <1>23, <1>24, <1>25, <1>26, <1>27 DEF Next, Start, Loop

\* Control stays where resume_from allows it, with the locals it needs.
LEMMA ControlStep == IInv /\ [Next]_vars => ControlOK' /\ RecoveryDataComplete'
PROOF
  <1> SUFFICES ASSUME IInv, [Next]_vars PROVE ControlOK' /\ RecoveryDataComplete'
    OBVIOUS
  <1> USE AgentRunAssumption, BlockFacts
  <1> USE DEF IInv, TypeOK, Blocks, NoAnswer, task, durable, ghost, Rejoin, ControlOK,
              RecoveryDataComplete, SavedStates
  <1>1. CASE CreateRun
    BY <1>1 DEF CreateRun
  <1>2. CASE LoadSession
    BY <1>2 DEF LoadSession
  <1>3. CASE AppendInput
    BY <1>3 DEF AppendInput
  <1>4. CASE SkipBlock
    BY <1>4 DEF SkipBlock
  <1>5. CASE CheckPolicy
    BY <1>5 DEF CheckPolicy, SaveAt, Entering
  <1>6. CASE EnterBuildingContext
    BY <1>6 DEF EnterBuildingContext, UpdateStatus, Entering
  <1>7. CASE CompactIfNeeded
    BY <1>7 DEF CompactIfNeeded, ReturnErr
  <1>8. CASE BuildContext
    BY <1>8 DEF BuildContext, ReturnErr
  <1>9. CASE CallModel
    BY <1>9 DEF CallModel, UpdateStatus, ReturnErr, Entering
  <1>10. CASE ModelAnswers
    <2>1. Len(history) \in Nat
      BY LogTypes
    <2>2. answer'.id = Len(history) + 1 /\ finish' \in Finishes
      BY <1>10 DEF ModelAnswers
    <2>3. answer' # NoAnswer /\ finish' # "None"
      BY <2>1, <2>2 DEF Finishes
    <2> QED
      BY <1>10, <2>3 DEF ModelAnswers
  <1>11. CASE ModelFails
    BY <1>11 DEF ModelFails, ReturnErr
  <1>12. CASE ContextOverflows
    BY <1>12 DEF ContextOverflows, ReturnErr
  <1>13. CASE ProcessResponse
    BY <1>13 DEF ProcessResponse, ReturnErr, Entering
  <1>14. CASE EnterExecutingTools
    BY <1>14 DEF EnterExecutingTools, UpdateStatus, ReturnErr, Entering
  <1>15. CASE ExecuteTools
    BY <1>15 DEF ExecuteTools, ReturnErr
  <1>16. CASE AppendResult
    BY <1>16 DEF AppendResult
  <1>17. CASE Persist
    BY <1>17 DEF Persist, UpdateStatus, ReturnErr, Entering
  <1>18. CASE Complete
    BY <1>18 DEF Complete
  <1>19. CASE FailRun
    BY <1>19 DEF FailRun
  <1>20. CASE Exit
    BY <1>20 DEF Exit
  <1>21. CASE StoreFails
    BY <1>21 DEF StoreFails, ReturnErr, Entering
  <1>22. CASE Drop
    BY <1>22 DEF Drop
  <1>23. CASE ResumeLoad
    BY <1>23 DEF ResumeLoad
  <1>24. CASE ResumeRefused
    BY <1>24 DEF ResumeRefused
  <1>25. CASE ResumeStart
    BY <1>25 DEF ResumeStart, Snapshots, SnapshotOK, CallStates
  <1>26. CASE UNCHANGED vars
    BY <1>26 DEF vars
  <1>27. CASE SaveSnapshot
    BY <1>27 DEF SaveSnapshot, SaveAt, Entering, Saving
  <1> QED
    BY <1>1, <1>2, <1>3, <1>4, <1>5, <1>6, <1>7, <1>8, <1>9, <1>10, <1>11, <1>12, <1>13, <1>14, <1>15, <1>16, <1>17, <1>18, <1>19, <1>20, <1>21, <1>22, <1>23, <1>24, <1>25, <1>26, <1>27 DEF Next, Start, Loop

\* The bounds on calls and tokens survive every step.
LEMMA BoundsStep == IInv /\ [Next]_vars => BoundsOK'
PROOF
  <1> SUFFICES ASSUME IInv, [Next]_vars PROVE BoundsOK'
    OBVIOUS
  <1> USE AgentRunAssumption, BlockFacts
  <1> USE DEF IInv, TypeOK, Blocks, NoAnswer, task, durable, ghost, Rejoin, BoundsOK, BeforeCall,
              CallStates, ControlOK, SavedStates
  <1>1. CASE CreateRun
    BY <1>1 DEF CreateRun
  <1>2. CASE LoadSession
    BY <1>2 DEF LoadSession
  <1>3. CASE AppendInput
    BY <1>3 DEF AppendInput
  <1>4. CASE SkipBlock
    BY <1>4 DEF SkipBlock
  <1>5. CASE CheckPolicy
    BY <1>5 DEF CheckPolicy, SaveAt, Entering, OverBudget, OverLimit
  <1>6. CASE EnterBuildingContext
    BY <1>6 DEF EnterBuildingContext, UpdateStatus, Entering
  <1>7. CASE CompactIfNeeded
    BY <1>7 DEF CompactIfNeeded, ReturnErr
  <1>8. CASE BuildContext
    BY <1>8 DEF BuildContext, ReturnErr
  <1>9. CASE CallModel
    BY <1>9 DEF CallModel, UpdateStatus, ReturnErr, Entering
  <1>10. CASE ModelAnswers
    BY <1>10 DEF ModelAnswers
  <1>11. CASE ModelFails
    BY <1>11 DEF ModelFails, ReturnErr
  <1>12. CASE ContextOverflows
    BY <1>12 DEF ContextOverflows, ReturnErr
  <1>13. CASE ProcessResponse
    BY <1>13 DEF ProcessResponse, ReturnErr, Entering
  <1>14. CASE EnterExecutingTools
    BY <1>14 DEF EnterExecutingTools, UpdateStatus, ReturnErr, Entering
  <1>15. CASE ExecuteTools
    BY <1>15 DEF ExecuteTools, ReturnErr
  <1>16. CASE AppendResult
    BY <1>16 DEF AppendResult
  <1>17. CASE Persist
    BY <1>17 DEF Persist, UpdateStatus, ReturnErr, Entering
  <1>18. CASE Complete
    BY <1>18 DEF Complete
  <1>19. CASE FailRun
    BY <1>19 DEF FailRun
  <1>20. CASE Exit
    BY <1>20 DEF Exit
  <1>21. CASE StoreFails
    BY <1>21 DEF StoreFails, ReturnErr, Entering
  <1>22. CASE Drop
    BY <1>22 DEF Drop
  <1>23. CASE ResumeLoad
    BY <1>23 DEF ResumeLoad
  <1>24. CASE ResumeRefused
    BY <1>24 DEF ResumeRefused
  <1>25. CASE ResumeStart
    BY <1>25 DEF ResumeStart, Snapshots, SnapshotOK
  <1>26. CASE UNCHANGED vars
    BY <1>26 DEF vars
  <1>27. CASE SaveSnapshot
    BY <1>27 DEF SaveSnapshot, SaveAt, Entering, Saving
  <1> QED
    BY <1>1, <1>2, <1>3, <1>4, <1>5, <1>6, <1>7, <1>8, <1>9, <1>10, <1>11, <1>12, <1>13, <1>14, <1>15, <1>16, <1>17, <1>18, <1>19, <1>20, <1>21, <1>22, <1>23, <1>24, <1>25, <1>26, <1>27 DEF Next, Start, Loop

\* The strengthened invariant.
THEOREM Inductive == Spec => []IInv
PROOF
  <1>1. Init => IInv
    <2> SUFFICES ASSUME Init PROVE IInv
      OBVIOUS
    <2>1. TypeOK
      BY AgentRunAssumption DEF Init, TypeOK, Places, Results, Statuses, Blocks, Replies, NoAnswer, Saving
    <2>2. ControlOK /\ BoundsOK
      BY AgentRunAssumption DEF Init, ControlOK, BoundsOK, BeforeCall, Blocks,
                                SavedStates
    <2> QED
      BY <2>1, <2>2 DEF Init, IInv, RecoveryDataComplete, SnapshotOK
  <1>2. IInv /\ [Next]_vars => IInv'
    BY TypeStep, SnapshotStep, ControlStep, BoundsStep DEF IInv
  <1> QED
    BY <1>1, <1>2, PTL DEF Spec

\* No resumption, from whatever snapshot and however late, reaches one of the
\* RecoveryFailed errors or unreachable!() panics of run_loop_inner.
THEOREM ResumptionComplete == Spec => []RecoveryDataComplete
BY Inductive, PTL DEF IInv

\* The iteration limit bounds the model calls of a run and of each resumption.
THEOREM CallsBounded == Spec => []ModelCallsBounded
PROOF
  <1>1. IInv => ModelCallsBounded
    BY DEF IInv, BoundsOK, ModelCallsBounded
  <1> QED
    BY <1>1, Inductive, PTL

\* The token budget is overrun by less than one answer.
THEOREM BudgetBounded == Spec => []BudgetOverrunBounded
PROOF
  <1>1. IInv => BudgetOverrunBounded
    BY DEF IInv, BoundsOK, BudgetOverrunBounded
  <1> QED
    BY <1>1, Inductive, PTL

\* Both limits of a run, as the runs check them together.
THEOREM LimitsKept == Spec => []LimitsHold
BY CallsBounded, BudgetBounded, PTL DEF LimitsHold
-----------------------------------------------------------------------------
(***************************************************************************)
(* The session's history.  What follows is about a run that no resume()    *)
(* races with: ResumeRaces is a hypothesis of the theorems.                *)
(***************************************************************************)
\* The places of a sequence that hold a member of a set.
Among(s, S) == {i \in DOMAIN s : s[i] \in S}

Copies(h, m) == Cardinality(Among(h, {m}))
Answering(id, c) == [role |-> "tool", id |-> id, calls |-> c]

\* The reply is the latest assistant message of the history.
Latest(h, reply) ==
    /\ reply.id \in DOMAIN h
    /\ h[reply.id].role = "assistant" /\ h[reply.id].calls = reply.calls
    /\ \A j \in DOMAIN h : j > reply.id => h[j].role # "assistant"

\* Every tool message answers a call of the latest assistant message before it.
AnswersLatest(h) ==
    \A i \in DOMAIN h : h[i].role = "tool" =>
        /\ h[i].id \in 1..(i - 1)
        /\ h[h[i].id].role = "assistant"
        /\ h[i].calls \in 1..h[h[i].id].calls
        /\ \A j \in (h[i].id + 1)..(i - 1) : h[j].role # "assistant"

\* No call was answered more than n times.
AnsweredAtMost(h, n) ==
    \A i \in DOMAIN h : h[i].role = "tool" => Copies(h, h[i]) <= n

\* Places where the calls of the answer in hand are still to be answered, and
\* those where the answer may yet be saved for a resumption.
BeforeResults ==
    \/ pc \in {"ProcessingResponse", "ExecutingTools"} /\ resumeFrom = "CheckingPolicy"
    \/ pc \in {"AwaitingTools", "AppendingResults"}
    \/ pc \in Blocks /\ resumeFrom = "ExecutingTools"
UsesAnswer ==
    \/ BeforeResults
    \/ pc = "Persisting" /\ resumeFrom = "CheckingPolicy"
    \/ pc \in Blocks /\ resumeFrom = "Persisting"

\* resume() waits only while nothing runs, and what it has loaded is what the
\* run left behind.
WaitingOK ==
    loaded # NoSnapshot => ~Live /\ pc # "Idle" /\ loaded = snapshot

\* From its first save to its end a run has a snapshot.
AfterSave ==
    \/ pc \in Blocks /\ (pc = "CheckingPolicy" => resumeFrom # "CheckingPolicy")
    \/ pc \in {"Compacting", "Assembling", "AwaitingModel", "AwaitingTools",
              "AppendingResults", "Completing", "Failing"}
SavedOK ==
    /\ pc = "Idle" => snapshot = NoSnapshot
    /\ AfterSave => snapshot # NoSnapshot
    /\ (Live \/ pc = "Dropped") /\ status \notin {"Pending", "SessionLoaded"} =>
           snapshot # NoSnapshot
    /\ pc = "AwaitingModel" => snapshot # NoSnapshot /\ snapshot.state = "CallingModel"
    /\ saved # "None" => Entering(saved) /\ snapshot # NoSnapshot /\ snapshot.state = saved

\* What is in hand and what is saved refers to the latest answer, and so do the
\* tool messages.
AnswerOK ==
    /\ UsesAnswer => Latest(history, answer)
    /\ snapshot # NoSnapshot /\ snapshot.state \in {"ExecutingTools", "Persisting"} =>
           Latest(history, snapshot.answer)
    /\ AnswersLatest(history)

\* A call is answered at most once per attempt, and this attempt's answers are
\* those of the first calls of the batch.
Done == IF pc = "AppendingResults" THEN appended ELSE 0
CopiesOK ==
    /\ pc = "AwaitingTools" => appended = 0
    /\ AnsweredAtMost(history, 1 + resumes)
    /\ loaded # NoSnapshot => AnsweredAtMost(history, resumes)
    /\ BeforeResults =>
           \A c \in (Done + 1)..answer.calls :
               Copies(history, Answering(answer.id, c)) <= resumes

\* The attempts to go on after a truncation, in hand, saved and loaded.
RecoveryOK ==
    /\ recovery <= MaxRecovery
    /\ snapshot # NoSnapshot => snapshot.recovery <= MaxRecovery
    /\ loaded # NoSnapshot => loaded.recovery <= MaxRecovery

\* A crash loses count of at most the one continuation that was asked for
\* since the last save.
Asked(h) == Cardinality({i \in DOMAIN h : h[i].role = "continue"})
AskedOK ==
    /\ Asked(history) <= MaxRecovery + resumes
    /\ pc \notin {"Returned", "Dropped"} => Asked(history) <= recovery + resumes
    /\ snapshot # NoSnapshot => Asked(history) <= snapshot.recovery + resumes + 1
    /\ loaded # NoSnapshot => Asked(history) <= loaded.recovery + resumes
    /\ AfterSave /\ snapshot # NoSnapshot => Asked(history) <= snapshot.recovery + resumes

-----------------------------------------------------------------------------
(***************************************************************************)
(* A run that was never dropped or resumed.                                *)
(***************************************************************************)
Uninterrupted == drops = 0 /\ resumes = 0

\* Its result, status and terminal event until it returns.
Limits == {"IterationLimit", "TokenBudget", "DoomLoop"}
OutcomeOK ==
    Uninterrupted =>
        /\ pc # "Dropped" /\ resumeFrom = "CheckingPolicy" /\ loaded = NoSnapshot
        /\ pc \notin {"Exiting", "Returned"} =>
               /\ status \notin Terminal
               /\ Count("RunCompleted") = 0 /\ Count("RunFailed") = 0
               /\ IF pc = "Failing" THEN result \in Limits ELSE result = "None"
        /\ pc \in {"Exiting", "Returned"} =>
               /\ result = "Ok" <=> status = "Completed"
               /\ result = "Ok" <=> Count("RunCompleted") = 1
               /\ result \in Limits <=> Count("RunFailed") = 1
               /\ status = "Failed" => Count("RunFailed") = 1

\* The calls of its messages but those of the answer in hand are answered, and
\* of these the ones whose results were appended.
Answered(h, i, n) == \A c \in 1..n : Copies(h, Answering(i, c)) = 1
InHand == {"ProcessingResponse", "ExecutingTools", "AwaitingTools", "AppendingResults"}
ContextOK ==
    Uninterrupted =>
        /\ pc \in (Blocks \cup {"Compacting", "Assembling", "AwaitingModel"}) \ InHand =>
               \A i \in DOMAIN history :
                   IsAssistant(i) => Answered(history, i, history[i].calls)
        /\ pc \in InHand =>
               /\ \A i \in DOMAIN history \ {answer.id} :
                      IsAssistant(i) => Answered(history, i, history[i].calls)
               /\ Answered(history, answer.id, Done)
               /\ \A c \in (Done + 1)..answer.calls :
                      Copies(history, Answering(answer.id, c)) = 0
               /\ answer.calls > 0 => finish = "ToolCalls"
               /\ Done <= answer.calls
        /\ pc \in {"Idle", "Created", "SessionLoaded"} => history = <<>>
\* Append puts its message behind the history and leaves the rest.
LEMMA HistoryAppend ==
  ASSUME NEW h \in Seq(Messages), NEW m \in Messages
  PROVE  /\ Len(h) \in Nat /\ DOMAIN h = 1..Len(h)
         /\ Append(h, m) \in Seq(Messages)
         /\ DOMAIN Append(h, m) = 1..(Len(h) + 1)
         /\ \A i \in 1..Len(h) : Append(h, m)[i] = h[i]
         /\ Append(h, m)[Len(h) + 1] = m
OBVIOUS

\* One more of the members of a set if and only if the appended one is a member.
LEMMA AmongAppend ==
  ASSUME NEW T, NEW s \in Seq(T), NEW e \in T, NEW S
  PROVE  /\ Cardinality(Among(s, S)) \in Nat
         /\ Cardinality(Among(Append(s, e), S)) =
                IF e \in S THEN Cardinality(Among(s, S)) + 1 ELSE Cardinality(Among(s, S))
PROOF
  <1>1. DOMAIN s = 1..Len(s) /\ Len(s) \in Nat
    OBVIOUS
  <1>2. IsFiniteSet(1..Len(s))
    BY <1>1, FS_Interval
  <1>3. IsFiniteSet(Among(s, S))
    BY <1>1, <1>2, FS_Subset DEF Among
  <1>4. Among(Append(s, e), S) =
            IF e \in S THEN Among(s, S) \cup {Len(s) + 1} ELSE Among(s, S)
    BY <1>1 DEF Among
  <1>5. Len(s) + 1 \notin Among(s, S)
    BY <1>1 DEF Among
  <1>6. Cardinality(Among(s, S)) \in Nat
    BY <1>3, FS_CardinalityType
  <1>7. Cardinality(Among(s, S) \cup {Len(s) + 1}) = Cardinality(Among(s, S)) + 1
    BY <1>3, <1>5, FS_AddElement
  <1> QED
    BY <1>4, <1>6, <1>7

\* How a message changes the number of its copies.
LEMMA CopiesAppend ==
  ASSUME NEW h \in Seq(Messages), NEW m \in Messages, NEW x
  PROVE  /\ Copies(h, x) \in Nat
         /\ Copies(Append(h, m), x) = IF m = x THEN Copies(h, x) + 1 ELSE Copies(h, x)
BY AmongAppend DEF Copies

\* How a message changes the number of requests to go on.
LEMMA AskedAppend ==
  ASSUME NEW h \in Seq(Messages), NEW m \in Messages
  PROVE  /\ Asked(h) \in Nat
         /\ Asked(Append(h, m)) = IF m.role = "continue" THEN Asked(h) + 1 ELSE Asked(h)
PROOF
  <1> DEFINE S == {r \in Messages : r.role = "continue"}
  <1>1. \A g \in Seq(Messages) : Asked(g) = Cardinality(Among(g, S))
    <2> TAKE g \in Seq(Messages)
    <2>1. \A i \in DOMAIN g : g[i] \in Messages
      OBVIOUS
    <2>2. {i \in DOMAIN g : g[i].role = "continue"} = Among(g, S)
      BY <2>1 DEF Among
    <2> QED
      BY <2>2 DEF Asked
  <1>2. Append(h, m) \in Seq(Messages)
    BY HistoryAppend
  <1>3. m \in S <=> m.role = "continue"
    OBVIOUS
  <1> HIDE DEF S
  <1>4. /\ Cardinality(Among(h, S)) \in Nat
        /\ Cardinality(Among(Append(h, m), S)) =
               IF m \in S THEN Cardinality(Among(h, S)) + 1 ELSE Cardinality(Among(h, S))
    BY AmongAppend
  <1>5. Asked(h) = Cardinality(Among(h, S))
    BY <1>1
  <1>6. Asked(Append(h, m)) = Cardinality(Among(Append(h, m), S))
    BY <1>1, <1>2
  <1> QED
    BY <1>3, <1>4, <1>5, <1>6

\* What is not in the history has no copy there.
LEMMA NoCopies ==
  ASSUME NEW h \in Seq(Messages), NEW x, \A i \in DOMAIN h : h[i] # x
  PROVE  Copies(h, x) = 0
PROOF
  <1>1. Among(h, {x}) = {}
    BY DEF Among
  <1> QED
    BY <1>1, FS_EmptySet DEF Copies

\* A bound on the answers of the history is one on every tool message.
LEMMA AnsweredBound ==
  ASSUME NEW h \in Seq(Messages), NEW n \in Nat, AnsweredAtMost(h, n), NEW id, NEW c
  PROVE  Copies(h, Answering(id, c)) <= n
PROOF
  <1>1. CASE \E i \in DOMAIN h : h[i] = Answering(id, c)
    BY <1>1 DEF AnsweredAtMost, Answering
  <1>2. CASE ~ \E i \in DOMAIN h : h[i] = Answering(id, c)
    BY <1>2, NoCopies
  <1> QED
    BY <1>1, <1>2

\* Any message but an assistant's leaves the latest answer what it is.
LEMMA LatestKept ==
  ASSUME NEW h \in Seq(Messages), NEW m \in Messages, m.role # "assistant",
         NEW reply, Latest(h, reply)
  PROVE  Latest(Append(h, m), reply)
BY HistoryAppend DEF Latest

\* An appended message keeps the order of answers if it is no tool message, or
\* answers one of the calls of the latest answer.
LEMMA AnswersKept ==
  ASSUME NEW h \in Seq(Messages), NEW m \in Messages, AnswersLatest(h),
         m.role = "tool" =>
             \E reply \in Replies : /\ Latest(h, reply) /\ m.id = reply.id
                                    /\ m.calls \in 1..reply.calls
  PROVE  AnswersLatest(Append(h, m))
PROOF
  <1> DEFINE g == Append(h, m)
  <1>1. /\ Len(h) \in Nat /\ DOMAIN h = 1..Len(h) /\ DOMAIN g = 1..(Len(h) + 1)
        /\ \A i \in 1..Len(h) : g[i] = h[i]
        /\ g[Len(h) + 1] = m
    BY HistoryAppend
  <1> HIDE DEF g
  <1> SUFFICES ASSUME NEW i \in DOMAIN g, g[i].role = "tool"
               PROVE  /\ g[i].id \in 1..(i - 1)
                      /\ g[g[i].id].role = "assistant"
                      /\ g[i].calls \in 1..g[g[i].id].calls
                      /\ \A j \in (g[i].id + 1)..(i - 1) : g[j].role # "assistant"
    BY DEF AnswersLatest, g
  <1>2. CASE i \in DOMAIN h
    <2>1. /\ h[i].id \in 1..(i - 1)
          /\ h[h[i].id].role = "assistant"
          /\ h[i].calls \in 1..h[h[i].id].calls
          /\ \A j \in (h[i].id + 1)..(i - 1) : h[j].role # "assistant"
      BY <1>1, <1>2 DEF AnswersLatest
    <2>2. i \in 1..Len(h) /\ h[i].id \in 1..Len(h)
      BY <1>1, <1>2, <2>1
    <2>3. \A j \in (h[i].id + 1)..(i - 1) : j \in 1..Len(h)
      BY <2>2
    <2> QED
      BY <1>1, <2>1, <2>2, <2>3
  <1>3. CASE i = Len(h) + 1
    <2>1. PICK reply \in Replies : /\ Latest(h, reply) /\ m.id = reply.id
                                   /\ m.calls \in 1..reply.calls
      BY <1>1, <1>3
    <2>2. m.id \in 1..Len(h) /\ g[m.id] = h[m.id]
      BY <1>1, <2>1 DEF Latest
    <2> QED
      BY <1>1, <1>3, <2>1, <2>2 DEF Latest
  <1> QED
    BY <1>1, <1>2, <1>3

\* No resume() has raced with the run so far.
Unraced == ~ResumeRaces \/ resumes = 0

\* What resume() waits with stays what the run left behind, and a run that has
\* saved keeps its snapshot until it ends.
LEMMA WaitingStep ==
  ASSUME IInv, WaitingOK, SavedOK, [Next]_vars, Unraced'
  PROVE  WaitingOK' /\ SavedOK'
PROOF
  <1> USE AgentRunAssumption, BlockFacts
  <1> USE DEF IInv, TypeOK, Blocks, task, durable, ghost, Unraced, WaitingOK, SavedOK, AfterSave, Live,
              NoSnapshot, Rejoin, Saving, Entering
  <1>1. CASE CreateRun
    BY <1>1 DEF CreateRun
  <1>2. CASE LoadSession
    BY <1>2 DEF LoadSession
  <1>3. CASE AppendInput
    BY <1>3 DEF AppendInput, Say, ControlOK
  <1>4. CASE SkipBlock
    BY <1>4 DEF SkipBlock
  <1>5. CASE CheckPolicy
    BY <1>5 DEF CheckPolicy, SaveAt
  <1>6. CASE EnterBuildingContext
    BY <1>6 DEF EnterBuildingContext, UpdateStatus
  <1>7. CASE CompactIfNeeded
    BY <1>7 DEF CompactIfNeeded, ReturnErr
  <1>8. CASE BuildContext
    BY <1>8 DEF BuildContext, ReturnErr
  <1>9. CASE CallModel
    BY <1>9 DEF CallModel, UpdateStatus, ReturnErr
  <1>10. CASE ModelAnswers
    BY <1>10 DEF ModelAnswers
  <1>11. CASE ModelFails
    BY <1>11 DEF ModelFails, ReturnErr
  <1>12. CASE ContextOverflows
    BY <1>12 DEF ContextOverflows, ReturnErr
  <1>13. CASE ProcessResponse
    BY <1>13 DEF ProcessResponse, ReturnErr
  <1>14. CASE EnterExecutingTools
    BY <1>14 DEF EnterExecutingTools, UpdateStatus, ReturnErr
  <1>15. CASE ExecuteTools
    BY <1>15 DEF ExecuteTools, ReturnErr
  <1>16. CASE AppendResult
    BY <1>16 DEF AppendResult, SayResult, ToolMessage, Say
  <1>17. CASE Persist
    BY <1>17 DEF Persist, UpdateStatus, ReturnErr
  <1>18. CASE Complete
    BY <1>18 DEF Complete
  <1>19. CASE FailRun
    BY <1>19 DEF FailRun
  <1>20. CASE Exit
    BY <1>20 DEF Exit
  <1>21. CASE StoreFails
    BY <1>21 DEF StoreFails, ReturnErr
  <1>22. CASE Drop
    BY <1>22 DEF Drop
  <1>23. CASE ResumeLoad
    BY <1>23 DEF ResumeLoad, Snapshots
  <1>24. CASE ResumeRefused
    BY <1>24 DEF ResumeRefused
  <1>25. CASE ResumeStart
    BY <1>25 DEF ResumeStart, Snapshots, StatusFor
  <1>26. CASE UNCHANGED vars
    BY <1>26 DEF vars
  <1>27. CASE SaveSnapshot
    BY <1>27 DEF SaveSnapshot, SaveAt, Saving
  <1> QED
    BY <1>1, <1>2, <1>3, <1>4, <1>5, <1>6, <1>7, <1>8, <1>9, <1>10, <1>11,
       <1>12, <1>13, <1>14, <1>15, <1>16, <1>17, <1>18, <1>19, <1>20, <1>21,
       <1>22, <1>23, <1>24, <1>25, <1>26, <1>27 DEF Next, Start, Loop

\* The attempts to go on stay within their limit, whatever is resumed.
LEMMA RecoveryStep == TypeOK /\ RecoveryOK /\ [Next]_vars => RecoveryOK'
PROOF
  <1> SUFFICES ASSUME TypeOK, RecoveryOK, [Next]_vars PROVE RecoveryOK'
    OBVIOUS
  <1> USE AgentRunAssumption
  <1> USE DEF TypeOK, task, durable, ghost, RecoveryOK, NoSnapshot, Snapshots
  <1>1. CASE CreateRun
    BY <1>1 DEF CreateRun
  <1>2. CASE LoadSession
    BY <1>2 DEF LoadSession
  <1>3. CASE AppendInput
    BY <1>3 DEF AppendInput, Say
  <1>4. CASE SkipBlock
    BY <1>4 DEF SkipBlock
  <1>5. CASE CheckPolicy
    BY <1>5 DEF CheckPolicy, SaveAt, Entering
  <1>6. CASE EnterBuildingContext
    BY <1>6 DEF EnterBuildingContext, UpdateStatus, Entering
  <1>7. CASE CompactIfNeeded
    BY <1>7 DEF CompactIfNeeded, ReturnErr
  <1>8. CASE BuildContext
    BY <1>8 DEF BuildContext, ReturnErr
  <1>9. CASE CallModel
    BY <1>9 DEF CallModel, UpdateStatus, ReturnErr, Entering
  <1>10. CASE ModelAnswers
    BY <1>10 DEF ModelAnswers
  <1>11. CASE ModelFails
    BY <1>11 DEF ModelFails, ReturnErr
  <1>12. CASE ContextOverflows
    BY <1>12 DEF ContextOverflows, ReturnErr
  <1>13. CASE ProcessResponse
    BY <1>13 DEF ProcessResponse, ReturnErr, Entering, Truncated
  <1>14. CASE EnterExecutingTools
    BY <1>14 DEF EnterExecutingTools, UpdateStatus, ReturnErr, Entering
  <1>15. CASE ExecuteTools
    BY <1>15 DEF ExecuteTools, ReturnErr
  <1>16. CASE AppendResult
    BY <1>16 DEF AppendResult, SayResult, ToolMessage, Say
  <1>17. CASE Persist
    BY <1>17 DEF Persist, UpdateStatus, ReturnErr, Entering
  <1>18. CASE Complete
    BY <1>18 DEF Complete
  <1>19. CASE FailRun
    BY <1>19 DEF FailRun
  <1>20. CASE Exit
    BY <1>20 DEF Exit
  <1>21. CASE StoreFails
    BY <1>21 DEF StoreFails, ReturnErr, Entering
  <1>22. CASE Drop
    BY <1>22 DEF Drop
  <1>23. CASE ResumeLoad
    BY <1>23 DEF ResumeLoad
  <1>24. CASE ResumeRefused
    BY <1>24 DEF ResumeRefused
  <1>25. CASE ResumeStart
    BY <1>25 DEF ResumeStart
  <1>26. CASE UNCHANGED vars
    BY <1>26 DEF vars
  <1>27. CASE SaveSnapshot
    BY <1>27 DEF SaveSnapshot, SaveAt, Entering, Saving
  <1> QED
    BY <1>1, <1>2, <1>3, <1>4, <1>5, <1>6, <1>7, <1>8, <1>9, <1>10, <1>11,
       <1>12, <1>13, <1>14, <1>15, <1>16, <1>17, <1>18, <1>19, <1>20, <1>21,
       <1>22, <1>23, <1>24, <1>25, <1>26, <1>27 DEF Next, Start, Loop

\* What is said, saved and resumed refers to the latest answer.
LEMMA AnswerStep ==
  ASSUME IInv, WaitingOK, SavedOK, AnswerOK, [Next]_vars, Unraced'
  PROVE  AnswerOK'
PROOF
  <1> USE AgentRunAssumption, BlockFacts
  <1> USE DEF IInv, TypeOK, Blocks, NoAnswer, task, durable, ghost, Rejoin, Unraced, ControlOK, SavedStates,
              AnswerOK, UsesAnswer, BeforeResults
  <1>1. CASE CreateRun
    BY <1>1 DEF CreateRun
  <1>2. CASE LoadSession
    BY <1>2 DEF LoadSession
  <1>3. CASE AppendInput
    <2>1. PICK m \in Messages : m.role = "user" /\ history' = Append(history, m)
      BY <1>3 DEF AppendInput, Say, Messages
    <2>2. AnswersLatest(history')
      BY <2>1, AnswersKept
    <2>3. \A r : Latest(history, r) => Latest(history', r)
      BY <2>1, LatestKept
    <2> QED
      BY <1>3, <2>2, <2>3 DEF AppendInput
  <1>4. CASE SkipBlock
    BY <1>4 DEF SkipBlock
  <1>5. CASE CheckPolicy
    BY <1>5 DEF CheckPolicy, SaveAt, Entering
  <1>6. CASE EnterBuildingContext
    BY <1>6 DEF EnterBuildingContext, UpdateStatus, Entering
  <1>7. CASE CompactIfNeeded
    BY <1>7 DEF CompactIfNeeded, ReturnErr
  <1>8. CASE BuildContext
    BY <1>8 DEF BuildContext, ReturnErr
  <1>9. CASE CallModel
    BY <1>9 DEF CallModel, UpdateStatus, ReturnErr, Entering
  <1>10. CASE ModelAnswers
    <2>1. PICK reply \in Answers :
              /\ answer' = [id |-> Len(history) + 1, calls |-> reply.calls]
              /\ history' = Append(history, [role |-> "assistant", id |-> Len(history) + 1,
                                            calls |-> reply.calls])
      BY <1>10 DEF ModelAnswers, Say
    <2>2. Len(history) \in Nat /\ reply.calls \in Nat
      OBVIOUS
    <2> DEFINE m == [role |-> "assistant", id |-> Len(history) + 1, calls |-> reply.calls]
    <2>3. m \in Messages /\ m.role = "assistant" /\ m.calls = reply.calls
      BY <2>2 DEF Messages
    <2> HIDE DEF m
    <2>4. history' = Append(history, m)
      BY <2>1 DEF m
    <2>5. AnswersLatest(history')
      BY <2>3, <2>4, AnswersKept
    <2>6. Latest(history', answer')
      BY <2>1, <2>2, <2>3, <2>4, HistoryAppend DEF Latest
    <2> QED
      BY <1>10, <2>5, <2>6 DEF ModelAnswers, SavedOK
  <1>11. CASE ModelFails
    BY <1>11 DEF ModelFails, ReturnErr
  <1>12. CASE ContextOverflows
    BY <1>12 DEF ContextOverflows, ReturnErr
  <1>13. CASE ProcessResponse
    <2>1. CASE history' = history
      BY <1>13, <2>1 DEF ProcessResponse, ReturnErr, Entering
    <2>2. CASE \E m \in Messages : m.role = "continue" /\ history' = Append(history, m)
      <3>1. PICK m \in Messages : m.role = "continue" /\ history' = Append(history, m)
        BY <2>2
      <3>2. AnswersLatest(history')
        BY <3>1, AnswersKept
      <3>3. \A r : Latest(history, r) => Latest(history', r)
        BY <3>1, LatestKept
      <3> QED
        BY <1>13, <3>2, <3>3 DEF ProcessResponse, ReturnErr, Entering
    <2>3. [role |-> "continue", id |-> 0, calls |-> 0] \in Messages
      BY DEF Messages
    <2> QED
      BY <1>13, <2>1, <2>2, <2>3 DEF ProcessResponse, Say
  <1>14. CASE EnterExecutingTools
    BY <1>14 DEF EnterExecutingTools, UpdateStatus, ReturnErr, Entering
  <1>15. CASE ExecuteTools
    BY <1>15 DEF ExecuteTools, ReturnErr
  <1>16. CASE AppendResult
    <2>1. CASE history' = history
      BY <1>16, <2>1 DEF AppendResult
    <2>2. CASE MoreResults /\ history' = Append(history, ToolMessage)
      <3>1. ToolMessage \in Messages /\ ToolMessage.role = "tool" /\ ToolMessage.id = answer.id
        BY DEF ToolMessage, Messages, Replies
      <3>2. ToolMessage.calls \in 1..answer.calls
        BY <2>2 DEF ToolMessage, MoreResults, Replies
      <3>3. Latest(history, answer)
        BY <1>16 DEF AppendResult
      <3>4. AnswersLatest(history')
        BY <2>2, <3>1, <3>2, <3>3, AnswersKept
      <3>5. \A r : Latest(history, r) => Latest(history', r)
        BY <2>2, <3>1, LatestKept
      <3> QED
        BY <1>16, <3>4, <3>5 DEF AppendResult
    <2> QED
      BY <1>16, <2>1, <2>2 DEF AppendResult, SayResult, Say
  <1>17. CASE Persist
    BY <1>17 DEF Persist, UpdateStatus, ReturnErr, Entering
  <1>18. CASE Complete
    BY <1>18 DEF Complete
  <1>19. CASE FailRun
    BY <1>19 DEF FailRun
  <1>20. CASE Exit
    BY <1>20 DEF Exit
  <1>21. CASE StoreFails
    BY <1>21 DEF StoreFails, ReturnErr, Entering
  <1>22. CASE Drop
    BY <1>22 DEF Drop
  <1>23. CASE ResumeLoad
    BY <1>23 DEF ResumeLoad, Snapshots
  <1>24. CASE ResumeRefused
    BY <1>24 DEF ResumeRefused
  <1>25. CASE ResumeStart
    BY <1>25 DEF ResumeStart, WaitingOK, Snapshots
  <1>26. CASE UNCHANGED vars
    BY <1>26 DEF vars
  <1>27. CASE SaveSnapshot
    BY <1>27 DEF SaveSnapshot, SaveAt, Entering, Saving
  <1> QED
    BY <1>1, <1>2, <1>3, <1>4, <1>5, <1>6, <1>7, <1>8, <1>9, <1>10, <1>11,
       <1>12, <1>13, <1>14, <1>15, <1>16, <1>17, <1>18, <1>19, <1>20, <1>21,
       <1>22, <1>23, <1>24, <1>25, <1>26, <1>27 DEF Next, Start, Loop

\* What other messages and answers do to the number of answers to a call.
LEMMA OthersSaid ==
  ASSUME NEW h \in Seq(Messages), NEW m \in Messages, m.role # "tool",
         NEW n \in Nat, AnsweredAtMost(h, n)
  PROVE  AnsweredAtMost(Append(h, m), n)
PROOF
  <1> DEFINE g == Append(h, m)
  <1>1. \A i \in DOMAIN g : g[i].role = "tool" => i \in DOMAIN h /\ g[i] = h[i]
    BY HistoryAppend
  <1>2. \A x : m # x => Copies(g, x) = Copies(h, x)
    BY CopiesAppend
  <1> QED
    BY <1>1, <1>2 DEF AnsweredAtMost

\* An answer said once less often than allowed may be said again.
LEMMA AnswerSaid ==
  ASSUME NEW h \in Seq(Messages), NEW m \in Messages,
         NEW n \in Nat, AnsweredAtMost(h, n + 1), Copies(h, m) <= n
  PROVE  AnsweredAtMost(Append(h, m), n + 1)
PROOF
  <1> DEFINE g == Append(h, m)
  <1>0. /\ Len(h) \in Nat /\ DOMAIN h = 1..Len(h) /\ DOMAIN g = 1..(Len(h) + 1)
        /\ \A i \in 1..Len(h) : g[i] = h[i]
        /\ g[Len(h) + 1] = m
    BY HistoryAppend
  <1> HIDE DEF g
  <1>1. \A i \in DOMAIN g : (i = Len(h) + 1 /\ g[i] = m) \/ (i \in DOMAIN h /\ g[i] = h[i])
    BY <1>0
  <1>2. Copies(g, m) <= n + 1
    BY CopiesAppend DEF g
  <1>3. \A x : m # x => Copies(g, x) = Copies(h, x)
    BY CopiesAppend DEF g
  <1> QED
    BY <1>1, <1>2, <1>3 DEF AnsweredAtMost, g

\* A bound on the answers may be raised.
LEMMA OneMore ==
  ASSUME NEW h \in Seq(Messages), NEW n \in Nat, AnsweredAtMost(h, n)
  PROVE  AnsweredAtMost(h, 1 + n)
PROOF
  <1>1. \A x : Copies(h, x) \in Nat
    <2>1. [role |-> "user", id |-> 0, calls |-> 0] \in Messages
      BY DEF Messages
    <2> QED
      BY <2>1, CopiesAppend
  <1> QED
    BY <1>1 DEF AnsweredAtMost

\* No call is answered more often than there were attempts.
LEMMA CopiesStep ==
  ASSUME IInv, WaitingOK, AnswerOK, CopiesOK, [Next]_vars, Unraced'
  PROVE  CopiesOK'
PROOF
  <1> USE AgentRunAssumption, BlockFacts
  <1> USE DEF IInv, TypeOK, Blocks, NoAnswer, task, durable, ghost, Rejoin, Unraced, ControlOK,
              SavedStates, CopiesOK, BeforeResults, Done
  <1>a. /\ history \in Seq(Messages) /\ resumes \in Nat /\ 1 + resumes \in Nat
        /\ AnsweredAtMost(history, 1 + resumes)
    OBVIOUS
  <1>b. \A said \in Messages :
            said.role # "tool" => AnsweredAtMost(Append(history, said), 1 + resumes)
    BY <1>a, OthersSaid
  <1>1. CASE CreateRun
    BY <1>1 DEF CreateRun
  <1>2. CASE LoadSession
    BY <1>2 DEF LoadSession
  <1>3. CASE AppendInput
    <2>1. PICK m \in Messages : m.role # "tool" /\ history' = Append(history, m)
      BY <1>3 DEF AppendInput, Say, Messages
    <2>2. AnsweredAtMost(history', 1 + resumes')
      <3>1. resumes' = resumes
        BY <1>3 DEF AppendInput
      <3>2. AnsweredAtMost(history', 1 + resumes)
        BY <2>1, <1>b
      <3> QED
        BY <3>1, <3>2
    <2>3. loaded = NoSnapshot
      BY <1>3 DEF WaitingOK, Live, AppendInput
    <2> QED
      BY <1>3, <2>2, <2>3 DEF AppendInput
  <1>4. CASE SkipBlock
    BY <1>4 DEF SkipBlock
  <1>5. CASE CheckPolicy
    BY <1>5 DEF CheckPolicy, SaveAt, Entering
  <1>6. CASE EnterBuildingContext
    BY <1>6 DEF EnterBuildingContext, UpdateStatus, Entering
  <1>7. CASE CompactIfNeeded
    BY <1>7 DEF CompactIfNeeded, ReturnErr
  <1>8. CASE BuildContext
    BY <1>8 DEF BuildContext, ReturnErr
  <1>9. CASE CallModel
    BY <1>9 DEF CallModel, UpdateStatus, ReturnErr, Entering
  <1>10. CASE ModelAnswers
    <2>1. PICK reply \in Answers :
              /\ answer' = [id |-> Len(history) + 1, calls |-> reply.calls]
              /\ history' = Append(history, [role |-> "assistant", id |-> Len(history) + 1,
                                            calls |-> reply.calls])
      BY <1>10 DEF ModelAnswers, Say
    <2>2. Len(history) \in Nat /\ reply.calls \in Nat /\ DOMAIN history = 1..Len(history)
      OBVIOUS
    <2> DEFINE m == [role |-> "assistant", id |-> Len(history) + 1, calls |-> reply.calls]
    <2>3. m \in Messages /\ m.role = "assistant"
      BY <2>2 DEF Messages
    <2> HIDE DEF m
    <2>4. history' = Append(history, m)
      BY <2>1 DEF m
    <2>5. AnsweredAtMost(history', 1 + resumes')
      <3>1. resumes' = resumes
        BY <1>10 DEF ModelAnswers
      <3>2. m.role # "tool"
        BY <2>3
      <3>3. AnsweredAtMost(history', 1 + resumes)
        BY <2>3, <2>4, <3>2, <1>b
      <3> QED
        BY <3>1, <3>3
    <2>6. loaded = NoSnapshot
      BY <1>10 DEF WaitingOK, Live, ModelAnswers
    <2>7. ASSUME NEW c
          PROVE  Copies(history', Answering(answer'.id, c)) = 0
      <3>1. \A i \in DOMAIN history : history[i] # Answering(Len(history) + 1, c)
        BY <2>2 DEF AnswerOK, AnswersLatest, Answering
      <3>2. m # Answering(Len(history) + 1, c)
        BY <2>3 DEF Answering
      <3> QED
        BY <2>1, <2>3, <2>4, <3>1, <3>2, NoCopies, CopiesAppend
    <2> QED
      BY <1>10, <2>5, <2>6, <2>7 DEF ModelAnswers
  <1>11. CASE ModelFails
    BY <1>11 DEF ModelFails, ReturnErr
  <1>12. CASE ContextOverflows
    BY <1>12 DEF ContextOverflows, ReturnErr
  <1>13. CASE ProcessResponse
    <2>1. CASE history' = history
      BY <1>13, <2>1 DEF ProcessResponse, ReturnErr, Entering
    <2>2. CASE \E m \in Messages : m.role = "continue" /\ history' = Append(history, m)
      <3>1. AnsweredAtMost(history', 1 + resumes')
        <4>1. resumes' = resumes
          BY <1>13 DEF ProcessResponse, ReturnErr
        <4>2. AnsweredAtMost(history', 1 + resumes)
          BY <2>2, <1>b
        <4> QED
          BY <4>1, <4>2
      <3>2. loaded = NoSnapshot
        BY <1>13 DEF WaitingOK, Live, ProcessResponse, Entering
      <3>3. pc' # "ExecutingTools"
        BY <1>13, <2>2, HistoryAppend DEF ProcessResponse, ReturnErr, Say
      <3> QED
        BY <1>13, <3>1, <3>2, <3>3 DEF ProcessResponse, ReturnErr, Entering
    <2>3. [role |-> "continue", id |-> 0, calls |-> 0] \in Messages
      BY DEF Messages
    <2> QED
      BY <1>13, <2>1, <2>2, <2>3 DEF ProcessResponse, Say
  <1>14. CASE EnterExecutingTools
    BY <1>14 DEF EnterExecutingTools, UpdateStatus, ReturnErr, Entering
  <1>15. CASE ExecuteTools
    BY <1>15 DEF ExecuteTools, ReturnErr
  <1>16. CASE AppendResult
    <2>1. CASE history' = history
      BY <1>16, <2>1 DEF AppendResult
    <2>2. CASE MoreResults /\ history' = Append(history, ToolMessage)
      <3>1. /\ ToolMessage \in Messages /\ appended + 1 \in (appended + 1)..answer.calls
            /\ ToolMessage = Answering(answer.id, appended + 1)
        BY <2>2 DEF ToolMessage, Messages, Replies, Answering, MoreResults
      <3>2. Copies(history, ToolMessage) <= resumes
        BY <1>16, <3>1 DEF AppendResult
      <3>3. AnsweredAtMost(history', 1 + resumes')
        BY <1>16, <2>2, <3>1, <3>2, AnswerSaid DEF AppendResult
      <3>4. \A c \in (appended + 2)..answer.calls :
                Copies(history', Answering(answer.id, c)) = Copies(history, Answering(answer.id, c))
        BY <2>2, <3>1, CopiesAppend DEF Answering
      <3>5. loaded = NoSnapshot
        BY <1>16 DEF WaitingOK, Live, AppendResult
      <3> QED
        BY <1>16, <2>2, <3>3, <3>4, <3>5, HistoryAppend DEF AppendResult, SayResult, Say
    <2> QED
      BY <1>16, <2>1, <2>2 DEF AppendResult, SayResult, Say
  <1>17. CASE Persist
    BY <1>17 DEF Persist, UpdateStatus, ReturnErr, Entering
  <1>18. CASE Complete
    BY <1>18 DEF Complete
  <1>19. CASE FailRun
    BY <1>19 DEF FailRun
  <1>20. CASE Exit
    BY <1>20 DEF Exit
  <1>21. CASE StoreFails
    BY <1>21 DEF StoreFails, ReturnErr, Entering
  <1>22. CASE Drop
    BY <1>22 DEF Drop
  <1>23. CASE ResumeLoad
    <2>1. AnsweredAtMost(history, resumes')
      BY <1>23 DEF ResumeLoad
    <2> QED
      BY <1>23, <2>1, OneMore DEF ResumeLoad, Live
  <1>24. CASE ResumeRefused
    BY <1>24 DEF ResumeRefused
  <1>25. CASE ResumeStart
    <2>1. AnsweredAtMost(history, resumes)
      BY <1>25 DEF ResumeStart
    <2> QED
      BY <1>25, <2>1, AnsweredBound DEF ResumeStart
  <1>26. CASE UNCHANGED vars
    BY <1>26 DEF vars
  <1>27. CASE SaveSnapshot
    BY <1>27 DEF SaveSnapshot, SaveAt, Entering, Saving
  <1> QED
    BY <1>1, <1>2, <1>3, <1>4, <1>5, <1>6, <1>7, <1>8, <1>9, <1>10, <1>11,
       <1>12, <1>13, <1>14, <1>15, <1>16, <1>17, <1>18, <1>19, <1>20, <1>21,
       <1>22, <1>23, <1>24, <1>25, <1>26, <1>27 DEF Next, Start, Loop

\* The continuations asked for are those counted, in hand or in the snapshot,
\* and one per resumption.
LEMMA AskedStep ==
  ASSUME IInv, WaitingOK, SavedOK, RecoveryOK, AskedOK, [Next]_vars, Unraced'
  PROVE  AskedOK'
PROOF
  <1> USE AgentRunAssumption, BlockFacts
  <1>0. Asked(history) \in Nat
    <2>1. [role |-> "user", id |-> 0, calls |-> 0] \in Messages
      BY DEF Messages
    <2> QED
      BY <2>1, AskedAppend DEF IInv, TypeOK
  <1> USE <1>0
  <1> USE DEF IInv, TypeOK, Blocks, task, durable, ghost, Rejoin, Unraced, ControlOK,
              SavedStates, AskedOK, AfterSave, Live, NoSnapshot, Snapshots
  <1>1. CASE CreateRun
    BY <1>1 DEF CreateRun
  <1>2. CASE LoadSession
    BY <1>2 DEF LoadSession
  <1>3. CASE AppendInput
    <2>1. PICK m \in Messages : m.role = "user" /\ history' = Append(history, m)
      BY <1>3 DEF AppendInput, Say, Messages
    <2>2. Asked(history') = Asked(history)
      BY <2>1, AskedAppend
    <2> QED
      BY <1>3, <2>2 DEF AppendInput
  <1>4. CASE SkipBlock
    BY <1>4 DEF SkipBlock
  <1>5. CASE CheckPolicy
    BY <1>5 DEF CheckPolicy, SaveAt, Entering
  <1>6. CASE EnterBuildingContext
    BY <1>6 DEF EnterBuildingContext, UpdateStatus, Entering
  <1>7. CASE CompactIfNeeded
    BY <1>7 DEF CompactIfNeeded, ReturnErr
  <1>8. CASE BuildContext
    BY <1>8 DEF BuildContext, ReturnErr
  <1>9. CASE CallModel
    BY <1>9 DEF CallModel, UpdateStatus, ReturnErr, Entering
  <1>10. CASE ModelAnswers
    <2>1. PICK reply \in Answers :
              history' = Append(history, [role |-> "assistant", id |-> Len(history) + 1,
                                          calls |-> reply.calls])
      BY <1>10 DEF ModelAnswers, Say
    <2>2. Len(history) \in Nat /\ reply.calls \in Nat
      OBVIOUS
    <2>3. [role |-> "assistant", id |-> Len(history) + 1, calls |-> reply.calls] \in Messages
      BY <2>2 DEF Messages
    <2>4. Asked(history') = Asked(history)
      BY <2>1, <2>3, AskedAppend
    <2> QED
      BY <1>10, <2>4 DEF ModelAnswers
  <1>11. CASE ModelFails
    BY <1>11 DEF ModelFails, ReturnErr
  <1>12. CASE ContextOverflows
    BY <1>12 DEF ContextOverflows, ReturnErr
  <1>13. CASE ProcessResponse
    <2>1. CASE history' = history
      BY <1>13, <2>1 DEF ProcessResponse, ReturnErr, Entering, Truncated, Say
    <2>2. CASE Truncated /\ recovery' = recovery + 1 /\ pc' = "CheckingPolicy"
                   /\ history' = Append(history, [role |-> "continue", id |-> 0, calls |-> 0])
      <3>1. [role |-> "continue", id |-> 0, calls |-> 0] \in Messages
        BY DEF Messages
      <3>2. Asked(history') = Asked(history) + 1
        BY <2>2, <3>1, AskedAppend
      <3> QED
        BY <1>13, <2>2, <3>2 DEF ProcessResponse, Entering, Truncated, WaitingOK
    <2> QED
      BY <1>13, <2>1, <2>2 DEF ProcessResponse, Say, ReturnErr
  <1>14. CASE EnterExecutingTools
    BY <1>14 DEF EnterExecutingTools, UpdateStatus, ReturnErr, Entering
  <1>15. CASE ExecuteTools
    BY <1>15 DEF ExecuteTools, ReturnErr
  <1>16. CASE AppendResult
    <2>1. CASE history' = history
      BY <1>16, <2>1 DEF AppendResult
    <2>2. CASE history' = Append(history, ToolMessage) /\ UNCHANGED pc
      <3>1. ToolMessage \in Messages /\ ToolMessage.role = "tool"
        BY DEF ToolMessage, Messages, Replies
      <3>2. Asked(history') = Asked(history)
        BY <2>2, <3>1, AskedAppend
      <3> QED
        BY <1>16, <2>2, <3>2 DEF AppendResult
    <2> QED
      BY <1>16, <2>1, <2>2 DEF AppendResult, SayResult, Say
  <1>17. CASE Persist
    BY <1>17 DEF Persist, UpdateStatus, ReturnErr, Entering
  <1>18. CASE Complete
    BY <1>18 DEF Complete
  <1>19. CASE FailRun
    BY <1>19 DEF FailRun
  <1>20. CASE Exit
    BY <1>20 DEF Exit
  <1>21. CASE StoreFails
    BY <1>21 DEF StoreFails, ReturnErr, Entering
  <1>22. CASE Drop
    BY <1>22 DEF Drop, WaitingOK
  <1>23. CASE ResumeLoad
    BY <1>23 DEF ResumeLoad, WaitingOK
  <1>24. CASE ResumeRefused
    BY <1>24 DEF ResumeRefused
  <1>25. CASE ResumeStart
    BY <1>25 DEF ResumeStart, WaitingOK, RecoveryOK
  <1>26. CASE UNCHANGED vars
    BY <1>26 DEF vars
  <1>27. CASE SaveSnapshot
    BY <1>27 DEF SaveSnapshot, SaveAt, Entering, Saving
  <1> QED
    BY <1>1, <1>2, <1>3, <1>4, <1>5, <1>6, <1>7, <1>8, <1>9, <1>10, <1>11,
       <1>12, <1>13, <1>14, <1>15, <1>16, <1>17, <1>18, <1>19, <1>20, <1>21,
       <1>22, <1>23, <1>24, <1>25, <1>26, <1>27 DEF Next, Start, Loop

\* How often an event occurs.
Occurs(s, x) == Cardinality({i \in DOMAIN s : s[i] = x})

\* One more occurrence if and only if the appended event is the one counted.
LEMMA OccursAppend ==
  ASSUME NEW s \in Seq(Events), NEW e \in Events, NEW x
  PROVE  /\ Occurs(s, x) \in Nat
         /\ Occurs(Append(s, e), x) = IF e = x THEN Occurs(s, x) + 1 ELSE Occurs(s, x)
PROOF
  <1>1. \A g : Occurs(g, x) = Cardinality(Among(g, {x}))
    BY DEF Occurs, Among
  <1> QED
    BY <1>1, AmongAppend

\* A usage report is no other event.
LEMMA UsageQuiet ==
  ASSUME NEW s \in Seq(Events), NEW reply \in Answers, NEW x, x # "UsageRecorded"
  PROVE  Occurs(s \o Usage(reply), x) = Occurs(s, x)
PROOF
  <1>1. "UsageRecorded" \in Events
    BY DEF Events
  <1>2. CASE Usage(reply) = <<>>
    <2>1. s \o <<>> = s
      BY ConcatEmptySeq
    <2> QED
      BY <1>2, <2>1
  <1>3. CASE Usage(reply) = <<"UsageRecorded">>
    <2>1. s \o Usage(reply) = Append(s, "UsageRecorded")
      BY <1>1, <1>3, AppendIsConcat
    <2> QED
      BY <1>1, <2>1, OccursAppend
  <1> QED
    BY <1>2, <1>3 DEF Usage

\* Neither does the report with the commit of the answer behind it.
LEMMA CommitQuiet ==
  ASSUME NEW s \in Seq(Events), NEW reply \in Answers,
         NEW x \in {"RunCompleted", "RunFailed"}
  PROVE  Occurs((s \o Usage(reply)) \o <<"AssistantMessageCommitted">>, x) = Occurs(s, x)
PROOF
  <1> DEFINE t == s \o Usage(reply)
  <1>1. t \in Seq(Events) /\ "AssistantMessageCommitted" \in Events
    BY LogTypes DEF Events
  <1>2. Occurs(t, x) = Occurs(s, x)
    BY UsageQuiet
  <1> HIDE DEF t
  <1>3. t \o <<"AssistantMessageCommitted">> = Append(t, "AssistantMessageCommitted")
    BY <1>1, AppendIsConcat
  <1>4. Occurs(Append(t, "AssistantMessageCommitted"), x) = Occurs(t, x)
    BY <1>1, OccursAppend
  <1> QED
    BY <1>2, <1>3, <1>4 DEF t

\* Until it returns a run is undecided; then status and event say its result.
LEMMA OutcomeStep ==
  ASSUME IInv, OutcomeOK, [Next]_vars
  PROVE  OutcomeOK'
PROOF
  <1> SUFFICES ASSUME Uninterrupted' PROVE OutcomeOK'
    BY DEF OutcomeOK
  <1> USE AgentRunAssumption, BlockFacts
  <1> DEFINE kept == /\ Count("RunCompleted")' = Count("RunCompleted")
                     /\ Count("RunFailed")' = Count("RunFailed")
  <1>e. events \in Seq(Events)
    BY DEF IInv, TypeOK
  <1>c. ASSUME NEW e \in Events, events' = Append(events, e)
        PROVE  \A x : Count(x)' = IF e = x THEN Count(x) + 1 ELSE Count(x)
    <2>1. \A x : Occurs(events', x) = IF e = x THEN Occurs(events, x) + 1 ELSE Occurs(events, x)
      BY <1>c, <1>e, OccursAppend
    <2> QED
      BY <2>1 DEF Count, Occurs
  <1>k. events' = events => kept
    BY DEF Count
  <1>n. \A x : Count(x) = Occurs(events, x) /\ Count(x)' = Occurs(events', x)
    BY DEF Count, Occurs
  <1>u. ASSUME NEW reply \in Answers, events' = events \o Usage(reply)
        PROVE  kept
    <2>1. \A x : x # "UsageRecorded" => Occurs(events', x) = Occurs(events, x)
      BY <1>u, <1>e, UsageQuiet
    <2> QED
      BY <2>1, <1>n
  <1>m. ASSUME NEW reply \in Answers,
               events' = (events \o Usage(reply)) \o <<"AssistantMessageCommitted">>
        PROVE  kept
    <2>1. /\ Occurs(events', "RunCompleted") = Occurs(events, "RunCompleted")
          /\ Occurs(events', "RunFailed") = Occurs(events, "RunFailed")
      BY <1>m, <1>e, CommitQuiet
    <2> QED
      BY <2>1, <1>n
  <1> HIDE DEF kept
  <1> USE DEF IInv, TypeOK, Blocks, task, durable, ghost, Rejoin, OutcomeOK, Uninterrupted,
              Limits, Terminal, StatusFor
  <1>1. CASE CreateRun
    <2>1. "RunStarted" \in Events
      BY DEF Events
    <2>2. \A x : Count(x)' = IF "RunStarted" = x THEN Count(x) + 1 ELSE Count(x)
      BY <1>1, <2>1, <1>c DEF CreateRun, Emit
    <2> QED
      BY <1>1, <2>2 DEF CreateRun
  <1>2. CASE LoadSession
    BY <1>2, <1>k DEF LoadSession, kept
  <1>3. CASE AppendInput
    BY <1>3, <1>k DEF AppendInput, Say, kept
  <1>4. CASE SkipBlock
    BY <1>4, <1>k DEF SkipBlock, kept
  <1>5. CASE CheckPolicy
    BY <1>5, <1>k DEF CheckPolicy, SaveAt, Entering, kept
  <1>6. CASE EnterBuildingContext
    BY <1>6, <1>k DEF EnterBuildingContext, UpdateStatus, Entering, kept
  <1>7. CASE CompactIfNeeded
    BY <1>7, <1>k DEF CompactIfNeeded, ReturnErr, kept
  <1>8. CASE BuildContext
    BY <1>8, <1>k DEF BuildContext, ReturnErr, kept
  <1>9. CASE CallModel
    <2>1. "ModelStarted" \in Events
      BY DEF Events
    <2>2. \A x : Count(x)' = IF "ModelStarted" = x THEN Count(x) + 1 ELSE Count(x)
      BY <1>9, <2>1, <1>c DEF CallModel, Emit
    <2> QED
      BY <1>9, <2>2 DEF CallModel, UpdateStatus, ReturnErr, Entering
  <1>10. CASE ModelAnswers
    <2>1. kept
      BY <1>10, <1>m DEF ModelAnswers
    <2> QED
      BY <1>10, <2>1 DEF ModelAnswers, kept
  <1>11. CASE ModelFails
    <2>1. kept
      BY <1>11, <1>u, <1>k DEF ModelFails
    <2> QED
      BY <1>11, <2>1 DEF ModelFails, ReturnErr, kept
  <1>12. CASE ContextOverflows
    BY <1>12, <1>k DEF ContextOverflows, ReturnErr, kept
  <1>13. CASE ProcessResponse
    BY <1>13, <1>k DEF ProcessResponse, ReturnErr, Entering, kept
  <1>14. CASE EnterExecutingTools
    <2>1. kept
      <3>1. CASE events' = events
        BY <3>1, <1>k
      <3>2. CASE events' = Append(events, "DoomLoopDetected")
        BY <3>2, <1>c DEF Events, kept
      <3> QED
        BY <1>14, <3>1, <3>2 DEF EnterExecutingTools, Emit
    <2> QED
      BY <1>14, <2>1 DEF EnterExecutingTools, UpdateStatus, ReturnErr, Entering, kept
  <1>15. CASE ExecuteTools
    BY <1>15, <1>k DEF ExecuteTools, ReturnErr, kept
  <1>16. CASE AppendResult
    <2>1. kept
      <3>1. CASE events' = events
        BY <3>1, <1>k
      <3>2. CASE events' = Append(events, "ToolMessageCommitted")
        BY <3>2, <1>c DEF Events, kept
      <3> QED
        BY <1>16, <3>1, <3>2 DEF AppendResult, Emit
    <2> QED
      BY <1>16, <2>1 DEF AppendResult, kept
  <1>17. CASE Persist
    <2>1. result' # "Panic"
      BY ControlStep DEF RecoveryDataComplete
    <2> QED
      BY <1>17, <2>1, <1>k DEF Persist, UpdateStatus, ReturnErr, Entering, kept
  <1>18. CASE Complete
    <2>1. "RunCompleted" \in Events
      BY DEF Events
    <2>2. \A x : Count(x)' = IF "RunCompleted" = x THEN Count(x) + 1 ELSE Count(x)
      BY <1>18, <2>1, <1>c DEF Complete, Emit
    <2> QED
      BY <1>18, <2>2 DEF Complete
  <1>19. CASE FailRun
    <2>1. "RunFailed" \in Events
      BY DEF Events
    <2>2. \A x : Count(x)' = IF "RunFailed" = x THEN Count(x) + 1 ELSE Count(x)
      BY <1>19, <2>1, <1>c DEF FailRun, Emit
    <2> QED
      BY <1>19, <2>2 DEF FailRun
  <1>20. CASE Exit
    BY <1>20, <1>k DEF Exit, kept
  <1>21. CASE StoreFails
    BY <1>21, <1>k DEF StoreFails, ReturnErr, Entering, kept
  <1>22. CASE Drop
    BY <1>22, <1>k DEF Drop, kept
  <1>23. CASE ResumeLoad
    BY <1>23, <1>k DEF ResumeLoad, kept
  <1>24. CASE ResumeRefused
    BY <1>24, <1>k DEF ResumeRefused, kept
  <1>25. CASE ResumeStart
    BY <1>25, <1>k DEF ResumeStart, kept
  <1>26. CASE UNCHANGED vars
    BY <1>26, <1>k DEF vars, kept
  <1>27. CASE SaveSnapshot
    BY <1>27, <1>k DEF SaveSnapshot, SaveAt, Entering, Saving, kept
  <1> QED
    BY <1>1, <1>2, <1>3, <1>4, <1>5, <1>6, <1>7, <1>8, <1>9, <1>10, <1>11,
       <1>12, <1>13, <1>14, <1>15, <1>16, <1>17, <1>18, <1>19, <1>20, <1>21,
       <1>22, <1>23, <1>24, <1>25, <1>26, <1>27 DEF Next, Start, Loop

\* The model lists calls only when it finishes for them.
Orderly == \A reply \in Answers : reply.calls > 0 => reply.finish = "ToolCalls"

\* The calls of earlier answers are answered once each before the model is
\* called again.
LEMMA ContextStep ==
  ASSUME Orderly, IInv, OutcomeOK, AnswerOK, CopiesOK, ContextOK, [Next]_vars
  PROVE  ContextOK'
PROOF
  <1> SUFFICES ASSUME Uninterrupted' PROVE ContextOK'
    BY DEF ContextOK
  <1> USE AgentRunAssumption, BlockFacts
  <1> USE DEF IInv, TypeOK, Blocks, task, durable, ghost, Rejoin, OutcomeOK, Uninterrupted,
              ControlOK, ContextOK, InHand, Done, IsAssistant
  <1>h. DOMAIN history = 1..Len(history) /\ Len(history) \in Nat
    OBVIOUS
  <1>1. CASE CreateRun
    BY <1>1 DEF CreateRun
  <1>2. CASE LoadSession
    BY <1>2 DEF LoadSession
  <1>3. CASE AppendInput
    <2>1. PICK m \in Messages : m.role = "user" /\ history' = Append(history, m)
      BY <1>3 DEF AppendInput, Say, Messages
    <2>2. history = <<>>
      BY <1>3 DEF AppendInput
    <2>3. \A i \in DOMAIN history' : ~IsAssistant(i)'
      BY <2>1, <2>2, HistoryAppend
    <2> QED
      BY <1>3, <2>3 DEF AppendInput
  <1>4. CASE SkipBlock
    BY <1>4 DEF SkipBlock
  <1>5. CASE CheckPolicy
    BY <1>5 DEF CheckPolicy, SaveAt, Entering
  <1>6. CASE EnterBuildingContext
    BY <1>6 DEF EnterBuildingContext, UpdateStatus, Entering
  <1>7. CASE CompactIfNeeded
    BY <1>7 DEF CompactIfNeeded, ReturnErr
  <1>8. CASE BuildContext
    BY <1>8 DEF BuildContext, ReturnErr
  <1>9. CASE CallModel
    BY <1>9 DEF CallModel, UpdateStatus, ReturnErr, Entering
  <1>10. CASE ModelAnswers
    <2>1. PICK reply \in Answers :
              /\ answer' = [id |-> Len(history) + 1, calls |-> reply.calls]
              /\ finish' = reply.finish
              /\ history' = Append(history, [role |-> "assistant", id |-> Len(history) + 1,
                                            calls |-> reply.calls])
      BY <1>10 DEF ModelAnswers, Say
    <2>2. reply.calls \in Nat
      OBVIOUS
    <2> DEFINE m == [role |-> "assistant", id |-> Len(history) + 1, calls |-> reply.calls]
    <2>3. m \in Messages /\ m.role = "assistant"
      BY <1>h, <2>2 DEF Messages
    <2> HIDE DEF m
    <2>4. history' = Append(history, m)
      BY <2>1 DEF m
    <2>5. \A i, c : Copies(history', Answering(i, c)) = Copies(history, Answering(i, c))
      BY <2>3, <2>4, CopiesAppend DEF Answering
    <2>6. ASSUME NEW c
          PROVE  Copies(history, Answering(Len(history) + 1, c)) = 0
      <3>1. \A i \in DOMAIN history : history[i] # Answering(Len(history) + 1, c)
        BY <1>h DEF AnswerOK, AnswersLatest, Answering
      <3> QED
        BY <3>1, NoCopies
    <2>7. \A i \in DOMAIN history' \ {answer'.id} : i \in DOMAIN history /\ history'[i] = history[i]
      BY <1>h, <2>1, <2>3, <2>4, HistoryAppend
    <2>8. \A i \in DOMAIN history' \ {answer'.id} :
              IsAssistant(i)' => Answered(history', i, history'[i].calls)
      BY <1>10, <2>5, <2>7 DEF ModelAnswers, Answered
    <2> QED
      BY <1>10, <2>1, <2>2, <2>5, <2>6, <2>8 DEF ModelAnswers, Answered, Orderly
  <1>11. CASE ModelFails
    BY <1>11 DEF ModelFails, ReturnErr
  <1>12. CASE ContextOverflows
    BY <1>12 DEF ContextOverflows, ReturnErr
  <1>13. CASE ProcessResponse
    <2>1. CASE history' = history /\ UNCHANGED <<answer, finish>>
      <3>1. CASE pc' = "ExecutingTools"
        BY <1>13, <2>1, <3>1 DEF ProcessResponse, Entering
      <3>2. CASE pc' \in {"Exiting", "Completing"}
        BY <1>13, <2>1, <3>2
      <3> QED
        BY <1>13, <2>1, <3>1, <3>2, HistoryAppend DEF ProcessResponse, ReturnErr, Say
    <2>2. CASE Truncated /\ pc' = "CheckingPolicy" /\ answer # NoAnswer
                   /\ \E m \in Messages : m.role = "continue" /\ history' = Append(history, m)
      <3>1. PICK m \in Messages : m.role = "continue" /\ history' = Append(history, m)
        BY <2>2
      <3>2. \A i, c : Copies(history', Answering(i, c)) = Copies(history, Answering(i, c))
        BY <3>1, CopiesAppend DEF Answering
      <3>3. answer.calls = 0
        BY <1>13, <2>2 DEF ProcessResponse, Entering, Truncated, Replies
      <3>4. Latest(history, answer)
        BY <1>13 DEF ProcessResponse, Entering, AnswerOK, UsesAnswer, BeforeResults
      <3>5. \A i \in DOMAIN history : IsAssistant(i) => Answered(history, i, history[i].calls)
        BY <1>13, <3>3, <3>4 DEF ProcessResponse, Entering, Latest, Answered
      <3>6. \A i \in DOMAIN history' : IsAssistant(i)' => i \in DOMAIN history /\ history'[i] = history[i]
        BY <3>1, HistoryAppend
      <3>7. \A i \in DOMAIN history' : IsAssistant(i)' => Answered(history', i, history'[i].calls)
        BY <3>2, <3>5, <3>6 DEF Answered
      <3> QED
        BY <1>13, <2>2, <3>7
    <2>3. [role |-> "continue", id |-> 0, calls |-> 0] \in Messages
      BY DEF Messages
    <2> QED
      BY <1>13, <2>1, <2>2, <2>3 DEF ProcessResponse, Say
  <1>14. CASE EnterExecutingTools
    BY <1>14 DEF EnterExecutingTools, UpdateStatus, ReturnErr, Entering, Replies
  <1>15. CASE ExecuteTools
    BY <1>15 DEF ExecuteTools, ReturnErr, CopiesOK
  <1>16. CASE AppendResult
    <2>1. Latest(history, answer)
      BY <1>16 DEF AppendResult, AnswerOK, UsesAnswer, BeforeResults
    <2>2. CASE ~MoreResults /\ pc' = "Persisting" /\ UNCHANGED <<history, answer>>
      <3>1. \A i \in DOMAIN history : IsAssistant(i) => Answered(history, i, history[i].calls)
        BY <1>16, <2>1, <2>2 DEF AppendResult, MoreResults, Latest, Answered, Replies
      <3> QED
        BY <2>2, <3>1
    <2>3. CASE /\ MoreResults /\ history' = Append(history, ToolMessage)
               /\ appended' = appended + 1 /\ UNCHANGED <<pc, answer, finish>>
      <3>1. /\ ToolMessage \in Messages /\ ToolMessage.role = "tool"
            /\ ToolMessage = Answering(answer.id, appended + 1)
        BY DEF ToolMessage, Messages, Replies, Answering
      <3>2. Copies(history', ToolMessage) = 1
        <4>1. Copies(history, Answering(answer.id, appended + 1)) = 0
          BY <1>16, <2>3 DEF AppendResult, MoreResults, Replies
        <4> QED
          BY <2>3, <3>1, <4>1, CopiesAppend
      <3>3. \A i, c : i # answer.id \/ c # appended + 1 =>
                Copies(history', Answering(i, c)) = Copies(history, Answering(i, c))
        BY <2>3, <3>1, CopiesAppend DEF Answering
      <3>4. \A i \in DOMAIN history' : IsAssistant(i)' => i \in DOMAIN history /\ history'[i] = history[i]
        BY <1>h, <2>3, <3>1, HistoryAppend
      <3>5. \A i \in DOMAIN history' \ {answer'.id} :
                IsAssistant(i)' => Answered(history', i, history'[i].calls)
        BY <1>16, <2>3, <3>3, <3>4 DEF AppendResult, Answered
      <3>6. Answered(history', answer'.id, Done')
        BY <1>16, <2>3, <3>1, <3>2, <3>3 DEF AppendResult, Answered
      <3>7. \A c \in (Done + 2)..answer.calls : Copies(history', Answering(answer.id, c)) = 0
        BY <1>16, <3>3 DEF AppendResult
      <3> QED
        BY <1>16, <2>3, <3>5, <3>6, <3>7 DEF AppendResult, MoreResults, Replies
    <2> QED
      BY <1>16, <2>2, <2>3 DEF AppendResult, SayResult, Say
  <1>17. CASE Persist
    BY <1>17 DEF Persist, UpdateStatus, ReturnErr, Entering
  <1>18. CASE Complete
    BY <1>18 DEF Complete
  <1>19. CASE FailRun
    BY <1>19 DEF FailRun
  <1>20. CASE Exit
    BY <1>20 DEF Exit
  <1>21. CASE StoreFails
    BY <1>21 DEF StoreFails, ReturnErr, Entering
  <1>22. CASE Drop
    BY <1>22 DEF Drop
  <1>23. CASE ResumeLoad
    BY <1>23 DEF ResumeLoad
  <1>24. CASE ResumeRefused
    BY <1>24 DEF ResumeRefused
  <1>25. CASE ResumeStart
    BY <1>25 DEF ResumeStart
  <1>26. CASE UNCHANGED vars
    BY <1>26 DEF vars
  <1>27. CASE SaveSnapshot
    BY <1>27 DEF SaveSnapshot, SaveAt, Entering, Saving
  <1> QED
    BY <1>1, <1>2, <1>3, <1>4, <1>5, <1>6, <1>7, <1>8, <1>9, <1>10, <1>11,
       <1>12, <1>13, <1>14, <1>15, <1>16, <1>17, <1>18, <1>19, <1>20, <1>21,
       <1>22, <1>23, <1>24, <1>25, <1>26, <1>27 DEF Next, Start, Loop

-----------------------------------------------------------------------------
\* The history's invariant, while no resume() has raced with the run.
HistoryOK == Unraced => WaitingOK /\ SavedOK /\ AnswerOK /\ CopiesOK /\ AskedOK

\* Nobody has asked, answered or reported anything before the run starts.
LEMMA HistoryInit ==
  Init => RecoveryOK /\ OutcomeOK /\ ContextOK /\ HistoryOK
PROOF
  <1> SUFFICES ASSUME Init PROVE RecoveryOK /\ OutcomeOK /\ ContextOK /\ HistoryOK
    OBVIOUS
  <1> USE AgentRunAssumption
  <1>1. /\ history = <<>> /\ events = <<>> /\ pc = "Idle" /\ DOMAIN history = {}
        /\ DOMAIN events = {} /\ resumes = 0 /\ recovery = 0
        /\ snapshot = NoSnapshot /\ loaded = NoSnapshot /\ saved = "None"
        /\ status = "None" /\ result = "None" /\ resumeFrom = "CheckingPolicy"
    BY DEF Init
  <1>2. RecoveryOK
    BY <1>1 DEF RecoveryOK
  <1>3. \A x : Count(x) = 0
    BY <1>1, FS_EmptySet DEF Count
  <1>4. OutcomeOK
    BY <1>1, <1>3 DEF OutcomeOK, Terminal
  <1>5. ContextOK
    BY <1>1 DEF ContextOK, InHand
  <1>6. Asked(history) = 0
    BY <1>1, FS_EmptySet DEF Asked
  <1>7. AnswersLatest(history) /\ \A n : AnsweredAtMost(history, n)
    BY <1>1 DEF AnswersLatest, AnsweredAtMost
  <1>8. WaitingOK /\ SavedOK /\ AskedOK
    BY <1>1, <1>6 DEF WaitingOK, SavedOK, AskedOK, AfterSave, Blocks, Live
  <1>9. AnswerOK /\ CopiesOK
    BY <1>1, <1>7 DEF AnswerOK, CopiesOK, UsesAnswer, BeforeResults, Blocks
  <1> QED
    BY <1>2, <1>4, <1>5, <1>8, <1>9 DEF HistoryOK

\* A step can only add a resumption.
LEMMA ResumesStep ==
  ASSUME [Next]_vars
  PROVE  resumes' \in {resumes, resumes + 1}
    BY DEF Next, Start, Loop, vars, task, durable, ghost, CreateRun, LoadSession,
           AppendInput, SkipBlock, CheckPolicy, SaveSnapshot, EnterBuildingContext, CompactIfNeeded,
           BuildContext, CallModel, ModelAnswers, ModelFails, ContextOverflows,
           ProcessResponse, EnterExecutingTools, ExecuteTools, AppendResult, Persist,
           Complete, FailRun, Exit, StoreFails, Drop, ResumeLoad, ResumeRefused,
           ResumeStart

\* So a run that is unraced after a step was so before it.
LEMMA ResumesGrow ==
  ASSUME TypeOK, [Next]_vars, Unraced'
  PROVE  Unraced
PROOF
  <1>1. resumes' \in {resumes, resumes + 1}
    BY ResumesStep
  <1> QED
    BY <1>1 DEF Unraced, TypeOK

\* A run that was resumed stays so.
LEMMA ResumedStays ==
  ASSUME TypeOK, [Next]_vars, Uninterrupted'
  PROVE  resumes = 0
PROOF
  <1>1. resumes' \in {resumes, resumes + 1}
    BY ResumesStep
  <1> QED
    BY <1>1 DEF Uninterrupted, TypeOK

\* A step keeps what is said of the history of an unraced run.
LEMMA HistoryStep ==
  ASSUME IInv, RecoveryOK, HistoryOK, [Next]_vars
  PROVE  HistoryOK'
PROOF
  <1> SUFFICES ASSUME Unraced'
               PROVE  (WaitingOK /\ SavedOK /\ AnswerOK /\ CopiesOK /\ AskedOK)'
    BY DEF HistoryOK
  <1>1. TypeOK
    BY DEF IInv
  <1>2. WaitingOK /\ SavedOK /\ AnswerOK /\ CopiesOK /\ AskedOK
    BY <1>1, ResumesGrow DEF HistoryOK
  <1> QED
    BY <1>2, WaitingStep, AnswerStep, CopiesStep, AskedStep

\* All of it is inductive, the context's part under its hypothesis.
THEOREM HistoryInductive ==
  Spec => [](IInv /\ RecoveryOK /\ OutcomeOK /\ HistoryOK)
PROOF
  <1>1. Init => RecoveryOK /\ OutcomeOK /\ HistoryOK
    BY HistoryInit
  <1>2. IInv /\ RecoveryOK /\ OutcomeOK /\ HistoryOK /\ [Next]_vars
            => RecoveryOK' /\ OutcomeOK' /\ HistoryOK'
    BY RecoveryStep, OutcomeStep, HistoryStep DEF IInv
  <1> QED
    BY <1>1, <1>2, Inductive, PTL DEF Spec

\* The attempts to go on after a truncation are bounded in hand, in the
\* snapshot and in a loading resume(), raced or not: resume_from_snapshot
\* brings output_recovery_count back.
THEOREM AttemptsBounded == Spec => []RecoveryOK
BY HistoryInductive, PTL

\* If no resume() overtakes a live run, the model was asked to go on at most
\* max_output_recovery_attempts times, and once more per resumption.
THEOREM RecoveryKept ==
  ASSUME ~ResumeRaces PROVE Spec => []RecoveryBounded
PROOF
  <1>1. RecoveryOK /\ HistoryOK => RecoveryBounded
    BY DEF RecoveryOK, HistoryOK, Unraced, AskedOK, Asked, RecoveryBounded
  <1> QED
    BY <1>1, HistoryInductive, PTL

\* If no resume() overtakes a live run, the tool messages of the session answer
\* the latest assistant message, each call once per attempt.
THEOREM ToolResultsInPlace ==
  ASSUME ~ResumeRaces PROVE Spec => []ToolResultsAnswerLatest
PROOF
  <1>1. IInv /\ HistoryOK => ToolResultsAnswerLatest
    <2> SUFFICES ASSUME IInv, HistoryOK, NEW i \in DOMAIN history, IsTool(i)
                 PROVE  /\ history[i].id \in 1..(i - 1)
                        /\ IsAssistant(history[i].id)
                        /\ history[i].calls \in 1..history[history[i].id].calls
                        /\ \A j \in (history[i].id + 1)..(i - 1) : ~IsAssistant(j)
                        /\ Cardinality({j \in DOMAIN history : history[j] = history[i]})
                               <= 1 + resumes
      BY DEF ToolResultsAnswerLatest
    <2>1. AnswersLatest(history) /\ AnsweredAtMost(history, 1 + resumes)
      BY DEF HistoryOK, Unraced, AnswerOK, CopiesOK
    <2>2. {j \in DOMAIN history : history[j] = history[i]} = Among(history, {history[i]})
      BY DEF Among
    <2>3. Cardinality(Among(history, {history[i]})) <= 1 + resumes
      BY <2>1 DEF AnsweredAtMost, Copies, IsTool
    <2> QED
      BY <2>1, <2>2, <2>3 DEF AnswersLatest, IsAssistant, IsTool
  <1> QED
    BY <1>1, HistoryInductive, PTL

\* If no resume() overtakes a live run, a run dropped in its loop has a snapshot,
\* and one that saved its tool calls still refers to the latest answer.
THEOREM DroppedResumable ==
  ASSUME ~ResumeRaces PROVE Spec => []DroppedRunIsResumable
PROOF
  <1>1. IInv /\ HistoryOK => DroppedRunIsResumable
    <2> SUFFICES ASSUME IInv, HistoryOK PROVE DroppedRunIsResumable
      OBVIOUS
    <2>1. SavedOK /\ AnswerOK
      BY DEF HistoryOK, Unraced
    <2>2. DOMAIN history = 1..Len(history) /\ Len(history) \in Nat
      BY DEF IInv, TypeOK
    <2>3. pc = "Dropped" /\ status \notin {"Pending", "SessionLoaded"} => snapshot # NoSnapshot
      BY <2>1 DEF SavedOK
    <2>4. ASSUME snapshot # NoSnapshot, snapshot.state \in {"ExecutingTools", "Persisting"}
          PROVE  /\ snapshot.answer.id \in DOMAIN history
                 /\ \A j \in (snapshot.answer.id + 1)..Len(history) : ~IsAssistant(j)
      <3>1. Latest(history, snapshot.answer)
        BY <2>1, <2>4 DEF AnswerOK
      <3> QED
        BY <2>2, <3>1 DEF Latest, IsAssistant
    <2> QED
      BY <2>3, <2>4 DEF DroppedRunIsResumable
  <1> QED
    BY <1>1, HistoryInductive, PTL

\* An uninterrupted run's result, status and terminal event agree when it returns.
THEOREM OutcomeAgreed == Spec => []OutcomesAgree
PROOF
  <1>1. OutcomeOK => OutcomesAgree
    BY DEF OutcomeOK, OutcomesAgree, Uninterrupted, Limits
  <1> QED
    BY <1>1, HistoryInductive, PTL

\* With a model that lists calls only when it finishes for them, an
\* uninterrupted run calls it on a history in which every call is answered.
THEOREM ContextComplete ==
  ASSUME Orderly PROVE Spec => []ContextIsComplete
PROOF
  <1>1. Init => ContextOK
    BY HistoryInit
  <1>2. IInv /\ OutcomeOK /\ HistoryOK /\ ContextOK /\ [Next]_vars => ContextOK'
    <2> SUFFICES ASSUME IInv, OutcomeOK, HistoryOK, ContextOK, [Next]_vars PROVE ContextOK'
      OBVIOUS
    <2>1. CASE resumes = 0
      BY <2>1, ContextStep DEF HistoryOK, Unraced
    <2>2. CASE resumes # 0
      <3>1. ~ Uninterrupted'
        BY <2>2, ResumedStays DEF IInv
      <3> QED
        BY <3>1 DEF ContextOK
    <2> QED
      BY <2>1, <2>2
  <1>3. ContextOK => ContextIsComplete
    <2> SUFFICES ASSUME ContextOK, pc = "AwaitingModel", Uninterrupted,
                        NEW i \in DOMAIN history, IsAssistant(i), NEW c \in 1..history[i].calls
                 PROVE  Cardinality({j \in DOMAIN history :
                            history[j] = [role |-> "tool", id |-> i, calls |-> c]}) = 1
      BY DEF ContextIsComplete, Uninterrupted
    <2>1. Copies(history, Answering(i, c)) = 1
      BY DEF ContextOK, InHand, Answered
    <2>2. {j \in DOMAIN history : history[j] = [role |-> "tool", id |-> i, calls |-> c]} =
              Among(history, {Answering(i, c)})
      BY DEF Among, Answering
    <2> QED
      BY <2>1, <2>2 DEF Copies
  <1> QED
    BY <1>1, <1>2, <1>3, HistoryInductive, PTL DEF Spec
=============================================================================
