------------------------------- MODULE AgentRun -------------------------------
(***************************************************************************)
(* One agent run: AgentRuntime::run, the turn loop it drives and           *)
(* AgentRuntime::resume, over a durable session history, run record and    *)
(* snapshot.                                                               *)
(*                                                                         *)
(* The loop is a chain of six blocks.  Each is entered only when the       *)
(* local variable resume_from says so, and otherwise skipped; that test    *)
(* is modelled as it is written, block by block, because resuming a run    *)
(* is nothing but starting the chain with another resume_from.  A run may  *)
(* be dropped (its future cancelled, or the process killed) between any    *)
(* two awaits.  What survives is the history, the status, the snapshot     *)
(* and the events already emitted, of which the model keeps those that     *)
(* speak of the run's outcome, its model calls and its messages.           *)
(***************************************************************************)
EXTENDS Integers, Sequences, FiniteSets

CONSTANTS
    MaxIterations,     \* policy.max_iterations
    Budget,            \* policy.max_tokens: {} for None, {n} for Some(n)
    MaxRecovery,       \* policy.max_output_recovery_attempts
    AutoCompaction,    \* policy.compaction.auto
    BreakerThreshold,  \* policy.compaction.circuit_breaker_threshold
    Answers,           \* what the model may answer: [finish, calls, tokens]
    MaxTokens,         \* bound on the tokens of one answer
    ResumeRaces,       \* may resume() be called while the run is still live?
    MaxDrops,          \* exploration bound: dropped futures
    MaxResumes         \* exploration bound: calls of resume()

Finishes == {"Stop", "ToolCalls", "Length"}

ASSUME AgentRunAssumption ==
    /\ MaxIterations \in Nat
    /\ Budget \subseteq Nat
    /\ MaxRecovery \in Nat
    /\ AutoCompaction \in BOOLEAN
    /\ BreakerThreshold \in Nat
    /\ MaxTokens \in Nat \ {0}
    /\ Answers \subseteq [finish: Finishes, calls: Nat, tokens: 0..MaxTokens]
    /\ ResumeRaces \in BOOLEAN
    /\ MaxDrops \in Nat
    /\ MaxResumes \in Nat

VARIABLES
    \* the future that executes the run
    pc,            \* where its control stands
    resumeFrom,    \* resume_from
    iteration,     \* iteration
    usage,         \* total_usage.total_tokens
    finish,        \* last_finish
    answer,        \* assistant_message and assistant_msg_id
    recovery,      \* output_recovery_count
    breakerFails,  \* CompactionCircuitBreaker.consecutive_failures
    request,       \* chat_request: None, or Some as soon as it is built
    appended,      \* outcomes of the batch already appended to the session
    saved,         \* the block that has saved its snapshot, its status being next
    result,        \* what run() or resume() returns
    \* what outlives the future
    snapshot, status, history, events,
    \* a call of resume() that has loaded its snapshot and not yet the gate
    loaded,
    \* history variables
    modelCalls,    \* model calls since the run was started or last resumed
    drops, resumes

task == <<resumeFrom, iteration, usage, finish, answer, recovery,
          breakerFails, request, appended, modelCalls, saved>>
durable == <<snapshot, status, history, events>>
ghost == <<drops, resumes>>
vars == <<pc, task, result, durable, loaded, ghost>>

-----------------------------------------------------------------------------
Blocks == {"CheckingPolicy", "BuildingContext", "CallingModel",
           "ProcessingResponse", "ExecutingTools", "Persisting"}

\* Mutant: a CallingModel snapshot does not rebuild the context.
EntersFromOwn(block) == {"CheckingPolicy", block}

\* The values of resume_from with which each block of the loop is entered.
EntersFrom(block) ==
    CASE block = "BuildingContext" ->
             {"CheckingPolicy", "BuildingContext", "CallingModel"}
      [] OTHER -> {"CheckingPolicy", block}

\* Blocks follow each other in this order; after the last comes the first.
NextBlock(block) ==
    CASE block = "CheckingPolicy" -> "BuildingContext"
      [] block = "BuildingContext" -> "CallingModel"
      [] block = "CallingModel" -> "ProcessingResponse"
      [] block = "ProcessingResponse" -> "ExecutingTools"
      [] block = "ExecutingTools" -> "Persisting"
      [] block = "Persisting" -> "CheckingPolicy"

StatusFor(state) ==
    CASE state \in {"CheckingPolicy", "BuildingContext"} -> "BuildingContext"
      [] state \in {"CallingModel", "ProcessingResponse"} -> "CallingModel"
      [] state = "ExecutingTools" -> "WaitingForTools"
      [] state = "Persisting" -> "Persisting"

\* The modelled code cancels no run.
Terminal == {"Completed", "Failed", "Cancelled"}

\* The future exists, and holds the session's lock, exactly in these places.
Live == pc \notin {"Idle", "Returned", "Dropped"}

Entering(block) == pc = block /\ resumeFrom \in EntersFrom(block)

NoAnswer == [id |-> 0, calls |-> 0]
NoSnapshot == [state |-> "None"]

\* Mutant: snapshots are taken at the end of a turn only.
SaveAtTurnEnd(state, iter) ==
    snapshot' = IF state # "Persisting" THEN snapshot
                ELSE [state |-> state, iteration |-> iter, usage |-> usage,
                      finish |-> finish, answer |-> answer, recovery |-> recovery]

\* Save overwrites the run's one snapshot (save_snapshot_helper).
SaveAt(state, iter) ==
    snapshot' = [state |-> state, iteration |-> iter, usage |-> usage,
                 finish |-> finish, answer |-> answer, recovery |-> recovery]

\* Mutant: one iteration too many.
OverLimitLate(iter) == iter > MaxIterations + 1
OverLimit(iter) == iter > MaxIterations

OverBudget(tokens) == \E limit \in Budget : tokens >= limit

BreakerOpen == breakerFails > 0 /\ breakerFails >= BreakerThreshold

\* Mutant: the last block keeps the state it was resumed from.
RejoinNotLast(block) ==
    resumeFrom' = IF block = "Persisting" THEN resumeFrom ELSE "CheckingPolicy"

\* A block that was entered clears resume_from for the rest of the loop.
Rejoin(block) == resumeFrom' = "CheckingPolicy"

Say(message) == history' = Append(history, message)
Emit(event) == events' = Append(events, event)

\* `return Err(..)` inside run_loop_inner: run_loop still has to delete the
\* snapshot.
ReturnErr(err) == pc' = "Exiting" /\ result' = err

-----------------------------------------------------------------------------
Init ==
    /\ pc = "Idle" /\ result = "None" /\ resumeFrom = "CheckingPolicy"
    /\ iteration = 0 /\ usage = 0 /\ finish = "None" /\ answer = NoAnswer
    /\ recovery = 0 /\ breakerFails = 0 /\ request = "None" /\ appended = 0
    /\ saved = "None"
    /\ snapshot = NoSnapshot /\ status = "None"
    /\ history = <<>> /\ events = <<>> /\ loaded = NoSnapshot
    /\ modelCalls = 0 /\ drops = 0 /\ resumes = 0

(***************************************************************************)
(* run(), before the loop.  The session gate is held from here on.         *)
(***************************************************************************)
CreateRun ==
    /\ pc = "Idle"
    /\ pc' = "Created" /\ status' = "Pending"
    /\ Emit("RunStarted")
    /\ UNCHANGED <<task, result, snapshot, history, loaded, ghost>>

LoadSession ==
    /\ pc = "Created"
    /\ pc' = "SessionLoaded" /\ status' = "SessionLoaded"
    /\ UNCHANGED <<task, result, snapshot, history, events, loaded, ghost>>

\* The user's message is stored before the provider is looked up.
AppendInput ==
    /\ pc = "SessionLoaded"
    /\ Say([role |-> "user", id |-> 0, calls |-> 0])
    /\ \/ pc' = "CheckingPolicy" /\ UNCHANGED result
       \/ pc' = "Returned" /\ result' = "ProviderNotFound"
    /\ UNCHANGED <<task, snapshot, status, events, loaded, ghost>>

(***************************************************************************)
(* The loop.                                                               *)
(***************************************************************************)
\* A block that is not entered falls through to the next one; past the last
\* block the loop forgets the assistant message and starts over.
SkipBlock ==
    /\ pc \in Blocks /\ resumeFrom \notin EntersFrom(pc)
    /\ pc' = NextBlock(pc)
    /\ answer' = IF pc = "Persisting" THEN NoAnswer ELSE answer
    /\ request' = IF pc = "Persisting" THEN "None" ELSE request
    /\ UNCHANGED <<resumeFrom, iteration, usage, finish, recovery, breakerFails,
                   appended, modelCalls, saved, result, durable, loaded, ghost>>

CheckPolicy ==
    /\ Entering("CheckingPolicy")
    /\ iteration' = iteration + 1
    /\ SaveAt("CheckingPolicy", iteration + 1)
    /\ \/ /\ OverLimit(iteration + 1)
          /\ pc' = "Failing" /\ result' = "IterationLimit"
       \/ /\ ~OverLimit(iteration + 1) /\ OverBudget(usage)
          /\ pc' = "Failing" /\ result' = "TokenBudget"
       \/ /\ ~OverLimit(iteration + 1) /\ ~OverBudget(usage)
          /\ pc' = "BuildingContext" /\ UNCHANGED result
    /\ UNCHANGED <<resumeFrom, usage, finish, answer, recovery, breakerFails,
                   request, appended, modelCalls, saved, status, history, events,
                   loaded, ghost>>

\* Four blocks begin with two store calls, each awaited: the snapshot is saved,
\* then the status updated. The actions of these blocks start with the second.
Saving == {"BuildingContext", "CallingModel", "ExecutingTools", "Persisting"}

SaveSnapshot ==
    /\ pc \in Saving /\ Entering(pc) /\ saved = "None"
    /\ SaveAt(pc, iteration)
    /\ saved' = pc
    /\ UNCHANGED <<pc, resumeFrom, iteration, usage, finish, answer, recovery,
                   breakerFails, request, appended, modelCalls, result, status,
                   history, events, loaded, ghost>>

UpdateStatus(block) ==
    /\ Entering(block) /\ saved = block
    /\ saved' = "None"
    /\ status' = StatusFor(block)
    /\ UNCHANGED snapshot

EnterBuildingContext ==
    /\ UpdateStatus("BuildingContext")
    /\ pc' = "Compacting"
    /\ UNCHANGED <<resumeFrom, iteration, usage, finish, answer, recovery,
                   breakerFails, request, appended, modelCalls, result, history,
                   events, loaded, ghost>>

\* Proactive compaction: skipped, nothing to do, done, or failed.  A failure
\* is counted by the breaker and then ends the run.
CompactIfNeeded ==
    /\ pc = "Compacting"
    /\ \/ pc' = "Assembling" /\ UNCHANGED <<breakerFails, result>>
       \/ /\ AutoCompaction /\ ~BreakerOpen
          /\ \/ breakerFails' = 0 /\ pc' = "Assembling" /\ UNCHANGED result
             \/ breakerFails' = breakerFails + 1 /\ ReturnErr("Compaction")
    /\ UNCHANGED <<resumeFrom, iteration, usage, finish, answer, recovery,
                   request, appended, modelCalls, saved, durable, loaded, ghost>>

\* ContextPipeline::build; an adapter may fail.
BuildContext ==
    /\ pc = "Assembling"
    /\ \/ request' = "Some" /\ pc' = "CallingModel" /\ UNCHANGED result
       \/ ReturnErr("Context") /\ UNCHANGED request
    /\ UNCHANGED <<resumeFrom, iteration, usage, finish, answer, recovery,
                   breakerFails, appended, modelCalls, saved, durable, loaded, ghost>>

CallModel ==
    /\ UpdateStatus("CallingModel") /\ Rejoin("CallingModel")
    /\ Emit("ModelStarted")
    /\ IF request = "Some"
       THEN pc' = "AwaitingModel" /\ modelCalls' = modelCalls + 1
            /\ UNCHANGED result
       ELSE ReturnErr("RecoveryFailed") /\ UNCHANGED modelCalls
    /\ request' = "None"
    /\ UNCHANGED <<iteration, usage, finish, answer, recovery, breakerFails,
                   appended, history, loaded, ghost>>

\* An answer of no tokens is one whose usage the provider did not report.
Usage(reply) == IF reply.tokens > 0 THEN <<"UsageRecorded">> ELSE <<>>

\* The model answers; its message is stored and becomes the current answer.
\* The usage event precedes the commit event.
ModelAnswers ==
    /\ pc = "AwaitingModel"
    /\ \E reply \in Answers :
           /\ usage' = usage + reply.tokens
           /\ finish' = reply.finish
           /\ answer' = [id |-> Len(history) + 1, calls |-> reply.calls]
           /\ Say([role |-> "assistant", id |-> Len(history) + 1,
                   calls |-> reply.calls])
           /\ events' = events \o Usage(reply) \o <<"AssistantMessageCommitted">>
    /\ pc' = "ProcessingResponse"
    /\ UNCHANGED <<resumeFrom, iteration, recovery, breakerFails, request,
                   appended, modelCalls, saved, result, snapshot, status, loaded, ghost>>

\* Any other error of the call, its timeout included, is returned as it is;
\* so is a failure to store the answer, whose usage has been reported by then.
ModelFails ==
    /\ pc = "AwaitingModel"
    /\ \/ ReturnErr("Provider") /\ UNCHANGED events
       \/ /\ ReturnErr("Storage")
          /\ \E reply \in Answers : events' = events \o Usage(reply)
    /\ UNCHANGED <<task, snapshot, status, history, loaded, ghost>>

\* The context overflows: compact if that is enabled, then `continue`.
ContextOverflows ==
    /\ pc = "AwaitingModel"
    /\ \/ /\ ~AutoCompaction
          /\ pc' = "CheckingPolicy" /\ UNCHANGED <<breakerFails, result>>
       \/ /\ AutoCompaction
          /\ pc' = "CheckingPolicy" /\ breakerFails' = 0 /\ UNCHANGED result
       \/ /\ AutoCompaction /\ ReturnErr("Compaction")
          /\ breakerFails' = IF BreakerOpen THEN breakerFails ELSE breakerFails + 1
    /\ UNCHANGED <<resumeFrom, iteration, usage, finish, answer, recovery,
                   request, appended, modelCalls, saved, durable, loaded, ghost>>

\* Truncated: ask to continue.  No tool calls, or not finished for them: the
\* loop is left.  Otherwise the calls are executed.
\* Mutant: one attempt too many.
TruncatedLate == finish = "Length" /\ recovery <= MaxRecovery
Truncated == finish = "Length" /\ recovery < MaxRecovery

ProcessResponse ==
    /\ Entering("ProcessingResponse") /\ Rejoin("ProcessingResponse")
    /\ \/ /\ answer = NoAnswer \/ finish = "None"
          /\ ReturnErr("RecoveryFailed") /\ UNCHANGED <<recovery, history>>
       \/ /\ answer # NoAnswer /\ Truncated
          /\ recovery' = recovery + 1
          /\ Say([role |-> "continue", id |-> 0, calls |-> 0])
          /\ pc' = "CheckingPolicy" /\ UNCHANGED result
       \/ /\ answer # NoAnswer /\ finish # "None" /\ ~Truncated
          /\ pc' = IF answer.calls = 0 \/ finish # "ToolCalls"
                   THEN "Completing" ELSE "ExecutingTools"
          /\ UNCHANGED <<recovery, history, result>>
    /\ UNCHANGED <<iteration, usage, finish, answer, breakerFails, request,
                   appended, modelCalls, saved, snapshot, status, events, loaded, ghost>>

\* The doom loop detector looks at every call before any is executed; here
\* its verdict is free.
EnterExecutingTools ==
    /\ UpdateStatus("ExecutingTools") /\ Rejoin("ExecutingTools")
    /\ appended' = 0
    /\ \/ /\ answer = NoAnswer
          /\ ReturnErr("RecoveryFailed") /\ UNCHANGED events
       \/ /\ answer # NoAnswer
          /\ pc' = "AwaitingTools" /\ UNCHANGED <<result, events>>
       \/ /\ answer # NoAnswer /\ answer.calls > 0
          /\ pc' = "Failing" /\ result' = "DoomLoop"
          /\ Emit("DoomLoopDetected")
    /\ UNCHANGED <<iteration, usage, finish, answer, recovery, breakerFails,
                   request, modelCalls, history, loaded, ghost>>

\* execute_batch returns all its outcomes, or the first error.
ExecuteTools ==
    /\ pc = "AwaitingTools"
    /\ \/ pc' = "AppendingResults" /\ UNCHANGED result
       \/ ReturnErr("Tool")
    /\ UNCHANGED <<task, durable, loaded, ghost>>

\* Mutants: the batch is one outcome too long, or too short.
MoreResultsLate == appended <= answer.calls
MoreResultsEarly == appended + 1 < answer.calls
MoreResults == appended < answer.calls

ToolMessage == [role |-> "tool", id |-> answer.id, calls |-> appended + 1]

SayResult == Say(ToolMessage)

\* One tool message per outcome, in the order of the calls.
AppendResult ==
    /\ pc = "AppendingResults"
    /\ \/ /\ MoreResults
          /\ appended' = appended + 1 /\ SayResult
          /\ Emit("ToolMessageCommitted") /\ UNCHANGED pc
       \/ /\ ~MoreResults
          /\ pc' = "Persisting" /\ UNCHANGED <<appended, history, events>>
    /\ UNCHANGED <<resumeFrom, iteration, usage, finish, answer, recovery,
                   breakerFails, request, modelCalls, saved, result, snapshot, status,
                   loaded, ghost>>

\* TurnTransition::resolve has no BreakLoop out of Persisting, so any finish
\* but ToolCalls would run into unreachable!().
Persist ==
    /\ UpdateStatus("Persisting") /\ Rejoin("Persisting")
    /\ \/ finish = "None" /\ ReturnErr("RecoveryFailed") /\ UNCHANGED answer
       \/ finish = "ToolCalls" /\ pc' = "CheckingPolicy" /\ answer' = NoAnswer
          /\ UNCHANGED result
       \/ finish \notin {"None", "ToolCalls"} /\ pc' = "Dropped"
          /\ result' = "Panic" /\ UNCHANGED answer
    /\ UNCHANGED <<iteration, usage, finish, recovery, breakerFails, request,
                   appended, modelCalls, history, events, loaded, ghost>>

(***************************************************************************)
(* The ways out.                                                           *)
(***************************************************************************)
Complete ==
    /\ pc = "Completing"
    /\ status' = "Completed" /\ Emit("RunCompleted")
    /\ pc' = "Exiting" /\ result' = "Ok"
    /\ UNCHANGED <<task, snapshot, history, loaded, ghost>>

\* Mutant: no terminal event.
FailRunSilently ==
    /\ pc = "Failing"
    /\ status' \in {"Failed", status}
    /\ pc' = "Exiting"
    /\ UNCHANGED <<task, result, snapshot, history, events, loaded, ghost>>

\* fail_run: an error of the status update is swallowed.
FailRun ==
    /\ pc = "Failing"
    /\ status' \in {"Failed", status}
    /\ Emit("RunFailed")
    /\ pc' = "Exiting"
    /\ UNCHANGED <<task, result, snapshot, history, loaded, ghost>>

\* run_loop deletes the snapshot whatever the outcome, and the guard of the
\* session gate goes out of scope.  An error of the deletion is ignored.
Exit ==
    /\ pc = "Exiting"
    /\ pc' = "Returned"
    /\ snapshot' \in {NoSnapshot, snapshot}
    /\ UNCHANGED <<task, result, status, history, events, loaded, ghost>>

\* A store call fails, in a block its snapshot's or its status's.  Before the loop there is no snapshot to delete.
StoreFails ==
    /\ \/ /\ pc \in {"Created", "SessionLoaded"}
          /\ pc' = "Returned" /\ result' = "Storage"
       \/ /\ \/ pc \in Blocks \ {"ProcessingResponse"} /\ Entering(pc)
             \/ Entering("ProcessingResponse") /\ answer # NoAnswer /\ Truncated
             \/ pc = "Compacting" /\ AutoCompaction /\ ~BreakerOpen
             \/ pc = "AwaitingModel" /\ AutoCompaction
             \/ pc \in {"Assembling", "AwaitingTools", "Completing"}
             \/ pc = "AppendingResults" /\ MoreResults
          /\ ReturnErr("Storage")
    /\ saved' = "None"
    /\ UNCHANGED <<resumeFrom, iteration, usage, finish, answer, recovery,
                   breakerFails, request, appended, modelCalls, durable, loaded, ghost>>

\* The future is dropped or the process dies: the locals are gone, the locks
\* are free.  A resume() in the same process dies with it.
Drop ==
    /\ Live /\ drops < MaxDrops
    /\ pc' = "Dropped" /\ result' = "None"
    /\ resumeFrom' = "CheckingPolicy" /\ iteration' = 0 /\ usage' = 0
    /\ finish' = "None" /\ answer' = NoAnswer /\ recovery' = 0
    /\ breakerFails' = 0 /\ request' = "None" /\ appended' = 0
    /\ saved' = "None" /\ modelCalls' = 0 /\ drops' = drops + 1
    /\ loaded' \in {loaded, NoSnapshot}
    /\ UNCHANGED <<durable, resumes>>

(***************************************************************************)
(* resume(): the snapshot is loaded before the gate is acquired.           *)
(***************************************************************************)
ResumeLoad ==
    /\ loaded = NoSnapshot /\ snapshot # NoSnapshot /\ resumes < MaxResumes
    /\ Live => ResumeRaces
    /\ loaded' = snapshot /\ resumes' = resumes + 1
    /\ UNCHANGED <<pc, task, result, durable, drops>>

\* SessionBusy, ProviderNotFound, or the status cannot be stored.
ResumeRefused ==
    /\ loaded # NoSnapshot
    /\ loaded' = NoSnapshot
    /\ UNCHANGED <<pc, task, result, durable, ghost>>

ResumeStart ==
    /\ loaded # NoSnapshot /\ ~Live
    /\ loaded' = NoSnapshot
    /\ status' = StatusFor(loaded.state)
    /\ pc' = "CheckingPolicy" /\ result' = "None"
    /\ resumeFrom' = loaded.state
    /\ iteration' = loaded.iteration /\ usage' = loaded.usage
    /\ finish' = loaded.finish /\ answer' = loaded.answer
    /\ recovery' = loaded.recovery
    /\ breakerFails' = 0 /\ request' = "None" /\ appended' = 0 /\ modelCalls' = 0
    /\ saved' = "None"
    /\ UNCHANGED <<snapshot, history, events, ghost>>

-----------------------------------------------------------------------------
Loop ==
    \/ SkipBlock \/ CheckPolicy \/ SaveSnapshot \/ EnterBuildingContext \/ CompactIfNeeded
    \/ BuildContext \/ CallModel \/ ModelAnswers \/ ModelFails
    \/ ContextOverflows \/ ProcessResponse \/ EnterExecutingTools
    \/ ExecuteTools \/ AppendResult \/ Persist
    \/ Complete \/ FailRun \/ Exit \/ StoreFails

Start == CreateRun \/ LoadSession \/ AppendInput

Next == Start \/ Loop \/ Drop \/ ResumeLoad \/ ResumeRefused \/ ResumeStart

Spec == Init /\ [][Next]_vars

\* The executor polls a live future until it returns; the model and the tools
\* answer within provider_timeout and tool_timeout.
FairSpec == Spec /\ WF_vars(LoadSession \/ AppendInput \/ Loop)

-----------------------------------------------------------------------------
(***************************************************************************)
(* Properties.                                                             *)
(***************************************************************************)
Results == {"None", "Ok", "IterationLimit", "TokenBudget", "DoomLoop",
            "Compaction", "Context", "Provider", "ProviderNotFound", "Tool",
            "Storage", "RecoveryFailed", "Panic"}
Places == Blocks \cup
    {"Idle", "Created", "SessionLoaded", "Compacting", "Assembling",
     "AwaitingModel", "AwaitingTools", "AppendingResults", "Completing",
     "Failing", "Exiting", "Returned", "Dropped"}
Statuses == {"None", "Pending", "SessionLoaded", "BuildingContext",
             "CallingModel", "WaitingForTools", "Persisting"} \cup Terminal
Events == {"RunStarted", "ModelStarted", "UsageRecorded",
           "AssistantMessageCommitted", "ToolMessageCommitted",
           "DoomLoopDetected", "RunFailed", "RunCompleted"}
Messages == [role: {"user", "continue", "assistant", "tool"},
             id: Nat, calls: Nat]
Replies == [id: Nat, calls: Nat]
Snapshots == [state: Blocks, iteration: Nat, usage: Nat,
              finish: Finishes \cup {"None"}, answer: Replies, recovery: Nat]

\* Type invariant of the run's future, its durable state and resume().
TypeOK ==
    /\ pc \in Places /\ result \in Results /\ resumeFrom \in Blocks
    /\ iteration \in Nat /\ usage \in Nat /\ finish \in Finishes \cup {"None"}
    /\ answer \in Replies /\ recovery \in Nat /\ breakerFails \in Nat
    /\ request \in {"None", "Some"} /\ appended \in Nat /\ saved \in Saving \cup {"None"}
    /\ snapshot \in Snapshots \cup {NoSnapshot}
    /\ loaded \in Snapshots \cup {NoSnapshot}
    /\ status \in Statuses
    /\ history \in Seq(Messages) /\ events \in Seq(Events)
    /\ modelCalls \in Nat /\ drops \in Nat /\ resumes \in Nat

\* Whatever snapshot a run is resumed from, even a stale one, it holds what
\* the block it names needs: none of the RecoveryFailed errors of
\* run_loop_inner and none of its unreachable!() panics can be reached.
RecoveryDataComplete == result \notin {"RecoveryFailed", "Panic"}

\* max_iterations bounds the model calls of a run, and again those of each
\* resumption, although overflows and truncations restart the loop.
ModelCallsBounded == modelCalls <= MaxIterations

\* The token budget is overrun by less than one answer, also by a run that is
\* resumed behind the policy check.
BudgetOverrunBounded == \A limit \in Budget : usage < limit + MaxTokens

\* Both limits hold for every way a run is started, stopped and resumed.
LimitsHold == ModelCallsBounded /\ BudgetOverrunBounded

\* Truncation is asked to continue at most max_output_recovery_attempts times,
\* the attempts made before a crash included.
RecoveryBounded ==
    /\ recovery <= MaxRecovery
    /\ Cardinality({i \in DOMAIN history : history[i].role = "continue"})
          <= MaxRecovery + resumes

IsAssistant(i) == history[i].role = "assistant"
IsTool(i) == history[i].role = "tool"

\* Every tool message answers a call of the assistant message that is the
\* latest before it, whatever was crashed and resumed in between; and a call
\* is answered once per attempt: only a resumption repeats the answer.
ToolResultsAnswerLatest ==
    \A i \in DOMAIN history : IsTool(i) =>
        /\ history[i].id \in 1..(i - 1)
        /\ IsAssistant(history[i].id)
        /\ history[i].calls \in 1..history[history[i].id].calls
        /\ \A j \in (history[i].id + 1)..(i - 1) : ~IsAssistant(j)
        /\ Cardinality({j \in DOMAIN history : history[j] = history[i]}) <= 1 + resumes

\* In a run that was never dropped or resumed, and with a model that calls tools
\* exactly when it finishes for them (an answer that lists calls and finishes
\* otherwise leaves them unanswered), the model is called on a history in which every tool
\* call of every assistant message is answered, once.
ContextIsComplete ==
    pc = "AwaitingModel" /\ drops = 0 /\ resumes = 0 =>
        \A i \in DOMAIN history : IsAssistant(i) =>
            \A c \in 1..history[i].calls :
                Cardinality({j \in DOMAIN history :
                    history[j] = [role |-> "tool", id |-> i, calls |-> c]}) = 1

Count(event) == Cardinality({i \in DOMAIN events : events[i] = event})

\* When an uninterrupted run returns, its result, its status and its terminal
\* event say the same thing, except that a failed update may lose a Failed.
OutcomesAgree ==
    pc = "Returned" /\ drops = 0 /\ resumes = 0 =>
        /\ result = "Ok" <=> status = "Completed"
        /\ result = "Ok" <=> Count("RunCompleted") = 1
        /\ result \in {"IterationLimit", "TokenBudget", "DoomLoop"}
               <=> Count("RunFailed") = 1
        /\ status = "Failed" => Count("RunFailed") = 1

\* A run that was dropped in its loop can be resumed, and a resumption goes on
\* where the interrupted run stood: what it appends to the session next still
\* refers to the latest answer.
DroppedRunIsResumable ==
    /\ pc = "Dropped" /\ status \notin {"Pending", "SessionLoaded"} => snapshot # NoSnapshot
    /\ snapshot # NoSnapshot /\ snapshot.state \in {"ExecutingTools", "Persisting"} =>
        /\ snapshot.answer.id \in DOMAIN history
        /\ \A j \in (snapshot.answer.id + 1)..Len(history) : ~IsAssistant(j)

\* A live run stops, unless it was resumed from a BuildingContext snapshot.
RunStops == (Live /\ resumeFrom # "BuildingContext") ~> ~Live

(***************************************************************************)
(* What the documentation says and the code does not do.                   *)
(***************************************************************************)
\* "Snapshot-based recovery allows resuming from any intermediate state":
\* a run resumed from any snapshot goes on to its end.
EveryRunStops == Live ~> ~Live
=============================================================================
