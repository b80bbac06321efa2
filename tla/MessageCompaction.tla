------------------------- MODULE MessageCompaction -------------------------
(* The three tiers by which a host shortens its list of messages: clearing    *)
(* old tool outputs, dropping the oldest turns, replacing the head by a       *)
(* summary. Pure functions of the list; the texts are abstract.              *)
EXTENDS Integers, Sequences

CONSTANTS
    Estimate(_),  \* the estimated tokens of a list of messages
    Cleared(_),   \* the one-line summary of a tool's output
    Compacted(_), \* the call id "compacted-i"
    Resume        \* the text of the system message made from a summary

\* A message has a role ("system", "user", "assistant" or "tool"), a text, and
\* call ids: an assistant makes the calls `ids`, a tool message answers them.

\* A new group starts at the first message and at each message of a user.
Starts(ms) == {i \in DOMAIN ms : i = 1 \/ ms[i].role = "user"}

From(ms, i) == SubSeq(ms, i, Len(ms))

\* The loop of autocompact keeps groups from the newest on, as long as they fit,
\* and the newest in any case; s is the first message kept. A list within the
\* limit is left alone.
KeepsFrom(ms, limit, s) ==
    /\ s \in Starts(ms)
    /\ Estimate(ms) <= limit => s = 1
    /\ Estimate(ms) > limit =>
        /\ \A t \in Starts(ms) :
               t < s \/ Estimate(From(ms, t)) <= limit \/ \A u \in Starts(ms) : u <= t
        /\ \A t \in Starts(ms) :
               (t < s /\ \A u \in Starts(ms) : u <= t \/ s <= u) => Estimate(From(ms, t)) > limit

\* A tool message is cleared unless it is among the keepRecent last messages or
\* the keepOutputs last tool messages (`outputs`); its call id is replaced too.
Microcompact(ms, keepRecent, outputs) ==
    [i \in DOMAIN ms |->
        IF i <= Len(ms) - keepRecent /\ ms[i].role = "tool" /\ i \notin outputs
        THEN [role |-> "tool", ids |-> {Compacted(i)}, text |-> Cleared(ms[i])]
        ELSE ms[i]]

CompactCandidates(ms, keepRecent) ==
    IF Len(ms) <= keepRecent THEN <<>> ELSE SubSeq(ms, 1, Len(ms) - keepRecent)

ApplySummary(ms, summary, keepRecent) ==
    IF Len(ms) <= keepRecent THEN ms
    ELSE <<[role |-> "system", ids |-> {}, text |-> <<Resume, summary>>]>>
         \o SubSeq(ms, Len(ms) - keepRecent + 1, Len(ms))

\* Providers refuse a tool message without the call it answers. The engine puts
\* the two into one turn: no message of a user comes between them.
Answered(ms, j) ==
    \E i \in 1..(j - 1) :
        /\ ms[i].role = "assistant" /\ ms[j].ids \subseteq ms[i].ids
        /\ \A k \in (i + 1)..j : ms[k].role # "user"

Paired(ms) == \A j \in DOMAIN ms : ms[j].role = "tool" => Answered(ms, j)
=============================================================================
