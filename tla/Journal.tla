------------------------------- MODULE Journal -------------------------------
(* The event journal of behest-core, its checkpoints, its recovery helpers   *)
(* and an incremental export that a restart restores. The host appends what  *)
(* is said and done, in the order the crate's documentation shows.           *)
EXTENDS Integers, Sequences, FiniteSets, SequencesExt

CONSTANTS
    JournalCalls, \* ids of tool calls
    MaxEntries,   \* bound: entries ever recorded
    MaxRecoveries \* bound: snips and restarts

\* Outside checkpoints a planned one is Unplanned.
Unplanned == [until |-> -1, kept |-> <<>>, drops |-> {}]

VARIABLES
    entries, nextOffset, \* the Journal: [offset, type, item]
    disk, exported,      \* entries exported so far, next_offset at the last export
    planned,             \* a checkpoint whose summary is being written
    asked, answered,     \* the host's calls: asked for, and finished but not yet said so
    said,                \* number of messages recorded
    gone,                \* messages given up: compacted, snipped or lost unexported
    hasty,               \* a checkpoint was overtaken or fell between a result and its
                         \* message, or a snip left nothing: see JournalKeepsLog
    recoveries

hostVars == <<planned, asked, answered>>
journalVars == <<entries, nextOffset, disk, exported, hostVars, said, gone, hasty, recoveries>>

NewMessage(calls, closes) == [n |-> said + 1, calls |-> calls, closes |-> closes]

\* reopen_tool_calls: a tool message closes its call.
Reopen(messages) ==
    LET open[i \in 0..Len(messages)] ==
            IF i = 0 THEN {} ELSE (open[i - 1] \cup messages[i].calls) \ messages[i].closes
    IN  open[Len(messages)]

\* One entry of build_prompt. A message opens the calls it lists, but a tool
\* message closes none: ToolCallFinished does.
Replayed(p, e) ==
    CASE e.type = "message" -> [p EXCEPT !.messages = Append(@, e.item), !.open = @ \cup e.item.calls]
      [] e.type = "started" -> [p EXCEPT !.open = @ \cup e.item]
      [] e.type = "finished" -> [p EXCEPT !.open = @ \ e.item]
      [] e.type = "checkpoint" ->
           [from |-> e.item.until, messages |-> e.item.kept, open |-> Reopen(e.item.kept)]

Replay(p, e) == IF e.offset < p.from THEN p ELSE Replayed(p, e)

NoPrompt == [from |-> 0, messages |-> <<>>, open |-> {}]

BuildPrompt(log) ==
    LET upTo[i \in 0..Len(log)] == IF i = 0 THEN NoPrompt ELSE Replay(upTo[i - 1], log[i])
    IN  upTo[Len(log)]

\* Mutant: offsets are counted from the entries that are left.
OffsetByLength(log) == Len(log)

\* from_entries: one past the last offset, and 0 for an empty journal.
OffsetBehind(log) == IF log = <<>> THEN 0 ELSE Last(log).offset + 1

\* The slice from the first entry that has this offset or a higher one.
EntriesSince(offset) ==
    LET since == {i \in DOMAIN entries : entries[i].offset >= offset}
    IN  IF since = {} THEN <<>> ELSE SubSeq(entries, Min(since), Len(entries))

JournalInit ==
    /\ entries = <<>> /\ nextOffset = 0
    /\ disk = <<>> /\ exported = 0
    /\ planned = Unplanned /\ asked = {} /\ answered = {}
    /\ said = 0 /\ gone = {} /\ hasty = FALSE /\ recoveries = 0

Record(type, item) ==
    /\ nextOffset < MaxEntries
    /\ entries' = Append(entries, [offset |-> nextOffset, type |-> type, item |-> item])
    /\ nextOffset' = nextOffset + 1
    /\ UNCHANGED <<disk, exported, recoveries>>

Say(calls, closes) ==
    /\ Record("message", NewMessage(calls, closes))
    /\ said' = said + 1
    /\ UNCHANGED <<planned, gone, hasty>>

-----------------------------------------------------------------------------
\* The user's input, a plain answer, or one of the three injected messages.
Hear == asked = {} /\ answered = {} /\ Say({}, {}) /\ UNCHANGED <<asked, answered>>

AskFor(c) ==
    /\ asked = {} /\ answered = {}
    /\ Say({c}, {})
    /\ asked' = {c} /\ UNCHANGED answered

StartCall(c) ==
    /\ c \in asked /\ entries # <<>> /\ Last(entries).type # "started"
    /\ Record("started", {c})
    /\ UNCHANGED <<hostVars, said, gone, hasty>>

FinishCall(c) ==
    /\ c \in asked
    /\ Record("finished", {c})
    /\ asked' = asked \ {c} /\ answered' = answered \cup {c}
    /\ UNCHANGED <<planned, said, gone, hasty>>

SayAnswer(c) ==
    /\ c \in answered
    /\ Say({}, {c})
    /\ answered' = answered \ {c} /\ UNCHANGED asked

\* build_compaction_checkpoint: everything so far is compacted, but for the
\* last messages. The summary takes a while.
PlanCheckpoint(keep) ==
    LET messages == BuildPrompt(entries).messages
        kept == SubSeq(messages, Len(messages) - keep + 1, Len(messages))
    IN  /\ planned = Unplanned /\ messages # <<>> /\ keep < Len(messages)
        /\ planned' = [until |-> nextOffset, kept |-> kept,
                       drops |-> {m.n : m \in ToSet(messages)} \ {m.n : m \in ToSet(kept)}]
        /\ UNCHANGED <<entries, nextOffset, disk, exported, asked, answered, said, gone, hasty, recoveries>>

RecordCheckpoint ==
    /\ planned # Unplanned
    /\ Record("checkpoint", [until |-> planned.until, kept |-> planned.kept])
    /\ gone' = gone \cup planned.drops
    /\ hasty' = (hasty \/ planned.until # nextOffset \/ answered # {})
    /\ planned' = Unplanned
    /\ UNCHANGED <<asked, answered, said>>

Numbers(log) ==
    {e.item.n : e \in {x \in ToSet(log) : x.type = "message"}}
      \cup UNION {{m.n : m \in ToSet(e.item.kept)} : e \in {x \in ToSet(log) : x.type = "checkpoint"}}

\* snip_before_offset, when the prompt is too long.
Snip(offset) ==
    /\ recoveries < MaxRecoveries /\ entries # <<>>
    /\ LET kept == EntriesSince(offset)
       IN  /\ entries' = kept
           /\ nextOffset' = OffsetBehind(kept)
           /\ gone' = gone \cup (Numbers(entries) \ Numbers(kept))
           /\ hasty' = (hasty \/ kept = <<>>)
    /\ recoveries' = recoveries + 1
    /\ UNCHANGED <<disk, exported, hostVars, said>>

\* "Export only new entries since the last time you persisted."
Export ==
    /\ exported # nextOffset
    /\ disk' = disk \o EntriesSince(exported)
    /\ exported' = nextOffset
    /\ UNCHANGED <<entries, nextOffset, hostVars, said, gone, hasty, recoveries>>

\* The process crashes; from_entries restores the export. The host goes on
\* from the prompt's open calls.
Restart ==
    /\ recoveries < MaxRecoveries
    /\ entries' = disk
    /\ nextOffset' = OffsetBehind(disk)
    /\ exported' = OffsetBehind(disk)
    /\ gone' = gone \cup (1..said \ Numbers(disk))
    /\ planned' = Unplanned
    /\ LET prompt == BuildPrompt(disk)
       IN  /\ asked' = prompt.open
           /\ answered' = Reopen(prompt.messages) \ prompt.open
    /\ recoveries' = recoveries + 1
    /\ UNCHANGED <<disk, said, hasty>>

\* Nothing is claimed of a hasty journal: its behaviours end.
JournalNext ==
    /\ ~hasty
    /\ \/ Hear
       \/ \E c \in JournalCalls : AskFor(c) \/ StartCall(c) \/ FinishCall(c) \/ SayAnswer(c)
       \/ \E keep \in 0..2 : PlanCheckpoint(keep)
       \/ RecordCheckpoint
       \/ \E offset \in 1..nextOffset : Snip(offset)
       \/ Export \/ Restart
-----------------------------------------------------------------------------
\* "Checkpoints allow truncating old events without losing information": what
\* was said and not given up is in the prompt, in order and once, and the calls
\* the prompt lists as open are those the host still owes a result. Entries are
\* exported once each, whatever was snipped and restored between. It holds
\* unless `hasty`: entries recorded between a checkpoint's planning and its
\* recording vanish from the prompt, a call whose result is recorded but not
\* yet said is reopened for good, and an emptied journal counts from 0 again.
JournalKeepsLog ==
    LET prompt == BuildPrompt(entries)
        numbers == [i \in DOMAIN prompt.messages |-> prompt.messages[i].n]
    IN  ~hasty =>
            /\ 1..said \ gone \subseteq ToSet(numbers)
            /\ \A i, j \in DOMAIN numbers : i < j => numbers[i] < numbers[j]
            /\ prompt.open \subseteq asked
            /\ \A e \in ToSet(entries) : e.offset < exported => e \in ToSet(disk)
            /\ \A i, j \in DOMAIN disk : i < j => disk[i].offset < disk[j].offset
=============================================================================
