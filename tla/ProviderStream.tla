--------------------------- MODULE ProviderStream ---------------------------
(* One model call. The server sends its reply as server-sent events, cut     *)
(* into chunks anywhere; SseStream puts the events together, the adapter     *)
(* maps them, call_streaming builds the message of them and tells the        *)
(* subscribers. When the stream fails, the whole answer is asked for again.  *)
EXTENDS Integers, Sequences, FiniteSetsExt, SequencesExt

CONSTANTS
    Replies \* per adapter the sequences of blocks its server may send

\* A block is [kind, index, id], its kind "comment", "text", "start", "args",
\* "stop", "ToolCalls", "Stop" or "other". Its text or its fragment of
\* arguments is told from others by its position in the reply.
BlockKinds == {"comment", "text", "start", "args", "stop", "ToolCalls", "Stop", "other"}
Blocks(r, kind) == {n \in DOMAIN r : r[n].kind = kind}

\* No block of the content stands in front of a call's: the number Anthropic
\* gives the call's block is then its position among the calls.
CallsComeFirst(r) == \A n \in Blocks(r, "start"), m \in Blocks(r, "text") : n < m

\* What the formats of the two providers promise: a call is started once, in
\* front of its fragments, and the answer ends with its reason. Anthropic numbers
\* the blocks of the content and stops each, a call's behind its fragments and
\* all in front of the reason.
Proper(server, r) ==
    LET Calls == Blocks(r, "start")
        Same(m, n) == r[m].id = r[n].id /\ r[m].index = r[n].index
    IN  /\ r \in Seq([kind : BlockKinds, index : Nat, id : STRING])
        /\ \A m, n \in Calls : m # n => r[m].id # r[n].id /\ r[m].index # r[n].index
        /\ \A n \in Blocks(r, "args") : \E m \in Calls : m < n /\ Same(m, n)
        /\ \A n \in Blocks(r, "ToolCalls") \cup Blocks(r, "Stop"), m \in DOMAIN r :
              n < m => r[m].kind \in {"other", "comment"}
        /\ IF server = "openai" THEN Blocks(r, "stop") = {}
           ELSE /\ CallsComeFirst(r) => \A n \in Calls : r[n].index = Cardinality({m \in Calls : m < n})
                /\ \A n \in Blocks(r, "stop") :
                     \/ /\ \E m \in Calls : m < n /\ Same(m, n)
                        /\ \A k \in Blocks(r, "args") : Same(k, n) => k < n
                     \/ \A m \in Calls : r[m].index # r[n].index
                /\ \A m \in Calls, k \in Blocks(r, "ToolCalls") :
                     \E n \in Blocks(r, "stop") : n < k /\ Same(m, n)

ASSUME StreamAssumption ==
    /\ DOMAIN Replies \subseteq {"openai", "anthropic"}
    /\ \A server \in DOMAIN Replies : \A r \in Replies[server] : Proper(server, r)

VARIABLES
    adapter, reply,
    sent,    \* halves of blocks that the server has sent
    wire,    \* "open", "closed" or "broken"
    read,    \* halves of blocks that came out of the byte stream in chunks
    taken,   \* blocks drained off the buffer
    poll,    \* where poll_next is: "extract" or "inner"
    tools,   \* the adapter's calls in progress: [index, id, args]
    message, \* the accumulator's text and calls, and the finish reason
    told,    \* what subscribers were told: [text, calls]
    stage    \* "request", "stream", "complete", "streamed", "completed", "failed"

parserVars == <<read, taken, poll>>
answerVars == <<tools, message, told>>
streamVars == <<adapter, reply, sent, wire, parserVars, answerVars, stage>>

NoMessage == [text |-> <<>>, calls |-> <<>>, finish |-> "Stop"]

StreamInit ==
    /\ adapter \in DOMAIN Replies
    /\ reply \in Replies[adapter]
    /\ sent = 0 /\ wire = "open"
    /\ read = 0 /\ taken = 0 /\ poll = "extract"
    /\ tools = <<>> /\ message = NoMessage /\ told = [text |-> <<>>, calls |-> {}]
    /\ stage = "request"
-----------------------------------------------------------------------------
(* The server and the network.                                               *)

SendHalf ==
    /\ stage = "stream" /\ wire = "open"
    /\ sent < 2 * Len(reply)
    /\ sent' = sent + 1
    /\ UNCHANGED <<adapter, reply, wire, parserVars, answerVars, stage>>

\* The body ends, too early perhaps, or its transport fails.
EndBody(how) ==
    /\ stage = "stream" /\ wire = "open"
    /\ wire' = how
    /\ UNCHANGED <<adapter, reply, sent, parserVars, answerVars, stage>>
-----------------------------------------------------------------------------
(* What a block does to the adapter, to the accumulator and to subscribers.  *)

\* Mutant: a fragment belongs to the call that was started last.
EntryLast(b) == {Len(tools)} \cap DOMAIN tools

\* The call in progress that a block belongs to. OpenAI numbers the calls;
\* Anthropic numbers all blocks of the content, and the adapter takes that
\* number for a position in its list of calls.
Entry(b) ==
    IF adapter = "openai" THEN {k \in DOMAIN tools : tools[k].index = b.index}
    ELSE {b.index + 1} \cap DOMAIN tools

Text(n) ==
    /\ message' = [message EXCEPT !.text = Append(@, n)]
    /\ told' = [told EXCEPT !.text = Append(@, n)]
    /\ UNCHANGED tools

StartCall(b) ==
    /\ tools' = Append(tools, [index |-> b.index, id |-> b.id, args |-> <<>>])
    /\ message' = [message EXCEPT !.calls = [c \in DOMAIN @ \cup {b.id} |-> IF c = b.id THEN <<>> ELSE @[c]]]
    /\ UNCHANGED told

\* A fragment for no call in progress gets an id that the accumulator does
\* not know, and is ignored there.
Arguments(b, n) ==
    /\ \/ Entry(b) = {} /\ UNCHANGED <<tools, message>>
       \/ \E k \in Entry(b) :
            /\ tools' = [tools EXCEPT ![k].args = Append(@, n)]
            /\ message' = [message EXCEPT !.calls[tools[k].id] = Append(@, n)]
    /\ UNCHANGED told

Completed(ks) == {[id |-> tools[k].id, args |-> tools[k].args] : k \in ks}

StopBlock(b) ==
    /\ told' = [told EXCEPT !.calls = @ \cup Completed(Entry(b))]
    /\ UNCHANGED <<tools, message>>

\* OpenAI's calls are complete when the model finishes for them.
EndAnswer(b) ==
    LET ends == adapter = "openai" /\ b.kind = "ToolCalls"
    IN  /\ message' = [message EXCEPT !.finish = b.kind]
        /\ told' = IF ends THEN [told EXCEPT !.calls = @ \cup Completed(DOMAIN tools)] ELSE told
        /\ tools' = IF ends THEN <<>> ELSE tools

\* The other blocks are message_start, message_stop, ping and [DONE].
Handle(n) ==
    LET b == reply[n]
    IN  \/ b.kind = "text" /\ Text(n)
        \/ b.kind = "start" /\ StartCall(b)
        \/ b.kind = "args" /\ Arguments(b, n)
        \/ b.kind = "stop" /\ StopBlock(b)
        \/ b.kind \in {"ToolCalls", "Stop"} /\ EndAnswer(b)
        \/ b.kind = "other" /\ UNCHANGED answerVars
-----------------------------------------------------------------------------
(* poll_next, driven by call_streaming, which polls until the stream ends.   *)

\* A boundary is found when both halves of the next block are in the buffer.
Whole(n) == 2 * n <= read
IsComment(n) == reply[n].kind = "comment"

ExtractEvent ==
    /\ stage = "stream" /\ poll = "extract"
    /\ Whole(taken + 1) /\ ~IsComment(taken + 1)
    /\ taken' = taken + 1
    /\ Handle(taken + 1)
    /\ UNCHANGED <<adapter, reply, sent, wire, read, poll, stage>>

\* A block without data is drained, but no second one is looked for.
ExtractNothing ==
    /\ stage = "stream" /\ poll = "extract"
    /\ \/ ~Whole(taken + 1) /\ UNCHANGED taken
       \/ Whole(taken + 1) /\ IsComment(taken + 1) /\ taken' = taken + 1
    /\ poll' = "inner"
    /\ UNCHANGED <<adapter, reply, sent, wire, read, answerVars, stage>>

\* A chunk is decoded by itself, lossily: what that does to a character that
\* its end cuts in two is left out.
ReadChunk(n) ==
    /\ stage = "stream" /\ poll = "inner"
    /\ read + n <= sent
    /\ read' = read + n
    /\ poll' = "extract"
    /\ UNCHANGED <<adapter, reply, sent, wire, taken, answerVars, stage>>

\* At the end one more block is extracted; if it has no data, that was all.
EndOfBytes ==
    /\ stage = "stream" /\ poll = "inner" /\ wire = "closed" /\ read = sent
    /\ LET last == taken + 1
       IN  \/ /\ Whole(last) /\ ~IsComment(last)
              /\ taken' = last /\ poll' = "extract"
              /\ Handle(last)
              /\ UNCHANGED stage
           \/ /\ Whole(last) => IsComment(last)
              /\ taken' = IF Whole(last) THEN last ELSE taken
              /\ stage' = "streamed"
              /\ UNCHANGED <<poll, answerVars>>
    /\ UNCHANGED <<adapter, reply, sent, wire, read>>
-----------------------------------------------------------------------------
(* call_model around it.                                                     *)

OpenStream ==
    /\ stage = "request"
    /\ stage' = "stream"
    /\ UNCHANGED <<adapter, reply, sent, wire, parserVars, answerVars>>

\* The request is refused or the transport breaks: fall back to complete.
StreamFails ==
    /\ \/ stage = "request"
       \/ stage = "stream" /\ poll = "inner" /\ wire = "broken" /\ read = sent
    /\ stage' = "complete"
    /\ UNCHANGED <<adapter, reply, sent, wire, parserVars, answerVars>>

\* provider_timeout passes without an event: a timeout has no fallback.
TimesOut ==
    /\ \/ stage \in {"request", "complete"}
       \/ stage = "stream" /\ poll = "inner" /\ read = sent /\ wire = "open"
    /\ stage' = "failed"
    /\ UNCHANGED <<adapter, reply, sent, wire, parserVars, answerVars>>

InOrder(positions) ==
    LET list[n \in 0..Len(reply)] ==
            IF n = 0 THEN <<>> ELSE IF n \in positions THEN Append(list[n - 1], n) ELSE list[n - 1]
    IN  list[Len(reply)]

\* What the server means to say.
Intended ==
    [text |-> InOrder(Blocks(reply, "text")),
     calls |-> [c \in {reply[n].id : n \in Blocks(reply, "start")} |->
                   InOrder({n \in Blocks(reply, "args") : reply[n].id = c})],
     finish |-> IF Blocks(reply, "ToolCalls") # {} THEN "ToolCalls" ELSE "Stop"]

CallsOf(m) == {[id |-> c, args |-> m.calls[c]] : c \in DOMAIN m.calls}

\* The answer comes in one piece; subscribers are told all of it, again.
CompleteAnswers ==
    /\ stage = "complete"
    /\ stage' = "completed"
    /\ message' = Intended
    /\ told' = [text |-> told.text \o Intended.text, calls |-> told.calls \cup CallsOf(Intended)]
    /\ UNCHANGED <<adapter, reply, sent, wire, parserVars, tools>>

CompleteFails ==
    /\ stage = "complete"
    /\ stage' = "failed"
    /\ UNCHANGED <<adapter, reply, sent, wire, parserVars, answerVars>>

StreamNext ==
    \/ SendHalf \/ \E how \in {"closed", "broken"} : EndBody(how)
    \/ ExtractEvent \/ ExtractNothing \/ EndOfBytes
    \/ \E n \in 1..(2 * Len(reply)) : ReadChunk(n)
    \/ OpenStream \/ StreamFails \/ TimesOut \/ CompleteAnswers \/ CompleteFails
-----------------------------------------------------------------------------
AllSent == sent = 2 * Len(reply)

CommentPairs == {n \in 1..(Len(reply) - 1) : IsComment(n) /\ IsComment(n + 1)}

\* Wherever the chunks end, an answer that was sent to its end is the one the
\* server meant, calls interleaved as they may be. Two exceptions: of two
\* comments in a row the second may end the stream with events behind it, and
\* Anthropic's numbers are misread behind a block of text. And what the
\* subscribers were told is what is stored: its text, and when the model
\* finished for its calls each of them, complete.
StreamedAnswerIsWhole ==
    LET clear == adapter = "openai" \/ CallsComeFirst(reply)
    IN  stage = "streamed" =>
            /\ AllSent /\ CommentPairs = {} /\ clear => message = Intended
            /\ told.text = message.text
            /\ message.finish = "ToolCalls" /\ clear => told.calls = CallsOf(message)

\* The adapter "tracks in-progress tool calls and their partial JSON argument
\* buffers" (violated by a call behind a text: its arguments become null).
ArgumentsReachTheirCall ==
    stage = "streamed" /\ AllSent /\ CommentPairs = {} => message.calls = Intended.calls
=============================================================================
