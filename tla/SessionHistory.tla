--------------------------- MODULE SessionHistory ---------------------------
(* The history of a session as runs append to it and compactions summarise   *)
(* it, and the context that is built of it for the model: the filter of      *)
(* what is summarised, then the trimming to a number of tokens.              *)
EXTENDS Integers, Sequences, FiniteSetsExt, SequencesExt

CONSTANTS
    Sizes,         \* tokens of a message
    MaxMessages,   \* bound: records of the history
    MaxCalls,      \* bound: tool calls of one answer
    MaxStops,      \* bound: runs that fail, are cancelled or crash
    Window, MaxOutput, Buffer, \* the model's context and output, COMPACTION_BUFFER
    TailTurns,     \* tail_turns
    KeepTokens,    \* keep_tokens
    ReactiveKeep,  \* its override behind an overflow error
    PromptLimit,   \* tokens of history that a compaction prompt holds
    MaxHistory     \* max_history_tokens

ASSUME HistoryAssumption ==
    /\ Sizes \subseteq Nat
    /\ {MaxMessages, MaxCalls, MaxStops, Window, MaxOutput, Buffer, TailTurns, KeepTokens, ReactiveKeep,
        PromptLimit, MaxHistory} \subseteq Nat

VARIABLES
    history, \* [role, kind, size, calls, tail, covers]; the position is the id
    stage,   \* "idle", "build", "call", "tools" or "summary"
    owed,    \* tool messages that the last answer still waits for
    chosen,  \* the selection of the compaction under way
    stops,
    whole    \* auxiliary: no selection took a turn only in part

historyVars == <<history, stage, owed, chosen, stops, whole>>

NoChoice == [head |-> {}, start |-> 0]

HistoryInit ==
    /\ history = <<>>
    /\ stage = "idle"
    /\ owed = 0
    /\ chosen = NoChoice
    /\ stops = 0
    /\ whole = TRUE

Message(role, size, calls) ==
    [role |-> role, kind |-> "plain", size |-> size, calls |-> calls, tail |-> 0, covers |-> {}]

Tokens(positions) ==
    LET sum[i \in 0..Len(history)] ==
            IF i = 0 THEN 0 ELSE sum[i - 1] + (IF i \in positions THEN history[i].size ELSE 0)
    IN  sum[Len(history)]
Plain(i) == history[i].kind = "plain"
-----------------------------------------------------------------------------
(* Selection: turns from the end, up to TailTurns of them and keep tokens.   *)

\* A turn begins at a user's message; what comes before the first is one too.
TurnStarts == {1} \cup {i \in DOMAIN history : Plain(i) /\ history[i].role = "user"}
TurnOf(i) == Cardinality({j \in TurnStarts : j <= i})
Turn(t) == {i \in DOMAIN history : TurnOf(i) = t}

\* A turn is walked backwards until a message does not fit. What was spent
\* is only brought up to date between turns, and the first turn always fits.
Taken(turn, walk, keep) ==
    IF walk.tail = {} THEN turn
    ELSE {i \in turn : \A j \in turn : j >= i => walk.spent + history[j].size <= keep}

\* When a turn does not fit after all, what of it was not taken goes to the
\* head; what was taken, and the turns before it, go nowhere. The tail is
\* then turned round, and so its first message is the last.
Select(keep) ==
    LET last == TurnOf(Len(history))
        turns == Min({last, TailTurns})
        walk[k \in 0..turns] == \* walked are the last k turns
            IF k = 0
            THEN [head |-> {i \in DOMAIN history : TurnOf(i) <= last - turns}, tail |-> {}, spent |-> 0,
                  done |-> FALSE, parted |-> FALSE]
            ELSE LET w == walk[k - 1]
                     turn == Turn(last - k + 1)
                     taken == Taken(turn, w, keep)
                     spent == w.spent + Tokens(taken)
                 IN  IF w.done THEN w
                     ELSE IF spent > keep /\ w.tail # {}
                     THEN [w EXCEPT !.head = @ \cup (turn \ taken), !.done = TRUE, !.parted = TRUE]
                     ELSE [w EXCEPT !.tail = @ \cup taken, !.spent = spent,
                                    !.parted = @ \/ taken # turn]
        w == walk[turns]
    IN  [head |-> w.head, parted |-> w.parted,
         start |-> IF w.tail = {} THEN 0 ELSE IF w.done THEN Max(w.tail) ELSE Min(w.tail)]

UsableTokens == Max({0, Max({0, Window - MaxOutput}) - Min({Buffer, MaxOutput})})

\* The whole history counts, also what is summarised already.
IsOverflow == Window # 0 /\ Tokens(DOMAIN history) >= UsableTokens

\* The prompt is cut off behind the message that exceeds the limit. The
\* summary of an earlier compaction is looked for in the wrong record of the
\* pair and never found, so nothing else is covered.
Covered(head) == {i \in head : Tokens({j \in head : j < i}) <= PromptLimit}
-----------------------------------------------------------------------------
(* The context of a request.                                                 *)

\* The last summary, unless another message stands between it and its
\* compaction message.
Pairs == {i \in DOMAIN history : i > 1 /\ history[i].kind = "summary" /\ history[i - 1].kind = "compaction"}

InOrder(positions) ==
    LET list[i \in 0..Len(history)] ==
            IF i = 0 THEN <<>> ELSE IF i \in positions THEN Append(list[i - 1], i) ELSE list[i - 1]
    IN  list[Len(history)]

\* Mutant: the kept tail begins behind its first message.
FilterBehindStart ==
    LET s == Max(Pairs)
        start == history[s - 1].tail
        tail == IF start = 0 THEN {} ELSE {i \in (start + 1)..(s - 2) : Plain(i)}
        ends == {i \in DOMAIN history : i > s /\ Plain(i)}
        after == IF ends = {} THEN {} ELSE Min(ends)..Len(history)
    IN  IF Pairs = {} THEN [i \in DOMAIN history |-> i]
        ELSE <<0>> \o InOrder(tail) \o InOrder(after)

\* The checkpoint stands at position 0, then the tail, then what came after.
Filter ==
    LET s == Max(Pairs)
        start == history[s - 1].tail
        tail == IF start = 0 THEN {} ELSE {i \in start..(s - 2) : Plain(i)}
        ends == {i \in DOMAIN history : i > s /\ Plain(i)}
        after == IF ends = {} THEN {} ELSE Min(ends)..Len(history)
    IN  IF Pairs = {} THEN [i \in DOMAIN history |-> i]
        ELSE <<0>> \o InOrder(tail) \o InOrder(after)

SizeOf(i) == IF i = 0 THEN history[Max(Pairs)].size ELSE history[i].size

\* Mutant: a message that does not fit is skipped, and the next is tried.
TrimSkips(positions) ==
    LET kept[i \in 0..Len(positions)] == \* walked are the last i
            IF i = 0 THEN [list |-> <<>>, tokens |-> 0]
            ELSE LET k == kept[i - 1]
                     p == positions[Len(positions) - i + 1]
                 IN  IF k.tokens + SizeOf(p) > MaxHistory /\ k.list # <<>> THEN k
                     ELSE [list |-> <<p>> \o k.list, tokens |-> k.tokens + SizeOf(p)]
    IN  kept[Len(positions)].list

\* From the end, until a message does not fit; the last one always fits.
Trim(positions) ==
    LET kept[i \in 0..Len(positions)] ==
            IF i = 0 THEN [list |-> <<>>, tokens |-> 0, full |-> FALSE]
            ELSE LET k == kept[i - 1]
                     p == positions[Len(positions) - i + 1]
                 IN  IF k.full \/ (k.tokens + SizeOf(p) > MaxHistory /\ k.list # <<>>)
                     THEN [k EXCEPT !.full = TRUE]
                     ELSE [list |-> <<p>> \o k.list, tokens |-> k.tokens + SizeOf(p), full |-> FALSE]
    IN  kept[Len(positions)].list

Context == Trim(Filter)
-----------------------------------------------------------------------------
(* What a run does to the history.                                           *)

Room(n) == Len(history) + n <= MaxMessages

\* A run stores its input before its first iteration.
UserSpeaks(size) ==
    /\ stage = "idle" /\ Room(1)
    /\ history' = Append(history, Message("user", size, 0))
    /\ stage' = "build"
    /\ UNCHANGED <<owed, chosen, stops, whole>>

Choose(keep) ==
    LET selection == Select(keep)
    IN  /\ selection.head # {}
        /\ Room(2)
        /\ history' = Append(history,
               [Message("user", 1, 0) EXCEPT !.kind = "compaction", !.tail = selection.start])
        /\ chosen' = [head |-> selection.head, start |-> selection.start]
        /\ whole' = (whole /\ ~selection.parted)
        /\ stage' = "summary"
        /\ UNCHANGED <<owed, stops>>

\* compact_if_needed in front of a turn ...
CompactIfNeeded == stage = "build" /\ IsOverflow /\ Choose(KeepTokens)

\* ... and compact_after_overflow behind a refused request.
CompactAfterOverflow == stage = "call" /\ Choose(ReactiveKeep)

\* The summary is of the head as it was when the compaction began.
AppendSummary ==
    /\ stage = "summary" /\ Room(1)
    /\ history' = Append(history,
           [Message("assistant", 1, 0) EXCEPT !.kind = "summary", !.tail = chosen.start,
                                              !.covers = Covered(chosen.head)])
    /\ stage' = "call"
    /\ chosen' = NoChoice
    /\ UNCHANGED <<owed, stops, whole>>

\* Without compaction: no overflow, nothing to summarise, switched off, the
\* breaker open or the limits of the model unknown.
BuildContext ==
    /\ stage = "build"
    /\ stage' = "call"
    /\ UNCHANGED <<history, owed, chosen, stops, whole>>

ModelAnswers(size, calls) ==
    /\ stage = "call" /\ Room(1)
    /\ history' = Append(history, Message("assistant", size, calls))
    /\ owed' = calls
    /\ stage' = IF calls = 0 THEN "idle" ELSE "tools"
    /\ UNCHANGED <<chosen, stops, whole>>

ToolAnswers(size) ==
    /\ stage = "tools" /\ Room(1)
    /\ history' = Append(history, Message("tool", size, 0))
    /\ owed' = owed - 1
    /\ stage' = IF owed = 1 THEN "build" ELSE "tools"
    /\ UNCHANGED <<chosen, stops, whole>>

\* The run ends anywhere, also between the two records of a compaction.
RunStops ==
    /\ stage # "idle" /\ stops < MaxStops
    /\ stops' = stops + 1
    /\ stage' = "idle" /\ owed' = 0 /\ chosen' = NoChoice
    /\ UNCHANGED <<history, whole>>

HistoryNext ==
    \/ \E size \in Sizes : \/ UserSpeaks(size) \/ ToolAnswers(size)
                           \/ \E calls \in 0..MaxCalls : ModelAnswers(size, calls)
    \/ CompactIfNeeded \/ CompactAfterOverflow \/ AppendSummary \/ BuildContext
    \/ RunStops
-----------------------------------------------------------------------------
Shown(i) == i \in ToSet(Filter)
Summary == IF Pairs = {} THEN {} ELSE history[Max(Pairs)].covers

\* Whatever the sequence of compactions, a message that the filter drops is
\* in the text the last summary was made of: a second summary, made without
\* the first one, covers what the first one did. Two causes are known: a
\* turn that the selection took only in part, and the limit of the prompt.
DroppedIsSummarised ==
    whole => \A i \in DOMAIN history :
                 Plain(i) => Shown(i) \/ i \in Summary \/ Tokens(1..(i - 1)) > PromptLimit

\* select() promises that of a turn that does not fit the rest becomes head,
\* and so is summarised or kept (violated: what it took is neither).
NothingForgotten == \A i \in DOMAIN history : Plain(i) => Shown(i) \/ i \in Summary

\* The assistant message that a tool message answers.
Asker(i) == Max({j \in 1..(i - 1) : Plain(j) /\ history[j].role = "assistant"})

\* The longest end of the filtered history that has at most
\* max_history_tokens, and never an empty one.
LongestEnd ==
    LET all == Filter
        tokens[k \in 0..Len(all)] == \* of the last k
            IF k = 0 THEN 0 ELSE tokens[k - 1] + SizeOf(all[Len(all) - k + 1])
        fits == {k \in 1..Len(all) : tokens[k] <= MaxHistory}
        shown == IF fits = {} THEN 1 ELSE Max(fits)
    IN  IF all = <<>> THEN <<>> ELSE SubSeq(all, Len(all) - shown + 1, Len(all))

\* Whatever was compacted and trimmed, a request shows the longest end of the
\* history that fits, in order, with the newest message last; and compaction
\* keeps a tool message only together with the message that made the call, as
\* providers demand. Excepted are histories with a turn that was taken only
\* in part: there the tail may begin at an old summary or a tool message.
ContextIsRecent ==
    /\ Context = LongestEnd
    /\ \A m, n \in DOMAIN Context : m < n => Context[m] < Context[n]
    /\ whole /\ stage = "call" => Last(Context) = Max({i \in DOMAIN history : Plain(i)})
    /\ whole => \A i \in DOMAIN history :
                   history[i].role = "tool" /\ Shown(i) => Shown(Asker(i))
=============================================================================
