---------------------------- MODULE HistoryProofs -----------------------------
(* Theorems about what shortens a conversation: the three tiers of the memory *)
(* crate's compaction and the thresholds of a token budget, for every list    *)
(* of messages and every budget; the journal, whose checkpoints and snips     *)
(* shorten it, under everything its host may do; and a session's history,     *)
(* whose compactions summarise and whose requests show the end of it.         *)
EXTENDS MessageCompaction, TokenBudget, Journal, SessionHistory,
        FiniteSetTheorems, SequenceTheorems, WellFoundedInduction, TLAPS

-----------------------------------------------------------------------------
(* Compaction. *)
\* What From keeps: the messages from i on, in their order.
LEMMA FromProperties ==
    ASSUME NEW S, NEW ms \in Seq(S), NEW s \in DOMAIN ms
    PROVE  /\ s \in 1..Len(ms)
           /\ From(ms, s) \in Seq(S)
           /\ Len(From(ms, s)) = Len(ms) - s + 1
           /\ \A i \in 1..(Len(ms) - s + 1) : From(ms, s)[i] = ms[s + i - 1]
<1>1. s \in 1..Len(ms) /\ Len(ms) \in Nat
  BY LenProperties
<1>2. \A i \in s..Len(ms) : ms[i] \in S
  BY <1>1, ElementOfSeq
<1> QED
  BY <1>1, <1>2, SubSeqProperties DEF From

\* autocompact cuts between turns only: where every tool message had its call in
\* its own turn, it still has it, whatever the budget.
THEOREM AutocompactKeepsPairs ==
    ASSUME NEW S, NEW ms \in Seq(S), NEW limit \in Nat,
           NEW s, KeepsFrom(ms, limit, s), Paired(ms)
    PROVE  Paired(From(ms, s))
<1> DEFINE kept == From(ms, s)
<1>1. s \in DOMAIN ms /\ (s = 1 \/ ms[s].role = "user")
  BY DEF KeepsFrom, Starts
<1>2. /\ s \in 1..Len(ms) /\ Len(ms) \in Nat /\ DOMAIN ms = 1..Len(ms)
      /\ DOMAIN kept = 1..(Len(ms) - s + 1)
      /\ \A i \in 1..(Len(ms) - s + 1) : kept[i] = ms[s + i - 1]
  BY <1>1, FromProperties, LenProperties
<1> SUFFICES ASSUME NEW j \in DOMAIN kept, kept[j].role = "tool"
             PROVE  Answered(kept, j)
  BY DEF Paired
<1> DEFINE at == s + j - 1
<1>3. at \in 1..Len(ms) /\ kept[j] = ms[at] /\ j \in 1..(Len(ms) - s + 1)
  BY <1>2
<1>4. PICK i \in 1..(at - 1) :
          /\ ms[i].role = "assistant" /\ ms[at].ids \subseteq ms[i].ids
          /\ \A k \in (i + 1)..at : ms[k].role # "user"
  BY <1>2, <1>3 DEF Paired, Answered
<1>5. s <= i
  <2>1. CASE s = 1
    BY <2>1, <1>3, <1>4
  <2>2. CASE ms[s].role = "user"
    BY <2>2, <1>2, <1>3, <1>4
  <2> QED
    BY <2>1, <2>2, <1>1
<1> DEFINE there == i - s + 1
<1>6. there \in 1..(j - 1) /\ kept[there] = ms[i]
  BY <1>2, <1>3, <1>4, <1>5
<1>7. ASSUME NEW k \in (there + 1)..j PROVE kept[k].role # "user"
  <2>1. s + k - 1 \in (i + 1)..at /\ kept[k] = ms[s + k - 1]
    BY <1>2, <1>3, <1>4, <1>5
  <2> QED
    BY <2>1, <1>4
<1> QED
  BY <1>3, <1>4, <1>6, <1>7 DEF Answered

\* autocompact: what is left fits the budget, unless it is a single turn.
THEOREM AutocompactFits ==
    ASSUME NEW S, NEW ms \in Seq(S), NEW limit \in Nat,
           NEW s, KeepsFrom(ms, limit, s),
           \A i \in Nat : Estimate(From(ms, i)) \in Nat
    PROVE  Estimate(From(ms, s)) <= limit \/ Starts(From(ms, s)) = {1}
<1> DEFINE kept == From(ms, s)
<1>1. s \in DOMAIN ms /\ s \in Starts(ms)
  BY DEF KeepsFrom, Starts
<1>2. /\ s \in 1..Len(ms) /\ Len(ms) \in Nat /\ DOMAIN ms = 1..Len(ms)
      /\ DOMAIN kept = 1..(Len(ms) - s + 1)
      /\ \A i \in 1..(Len(ms) - s + 1) : kept[i] = ms[s + i - 1]
  BY <1>1, FromProperties, LenProperties
<1>3. CASE Estimate(ms) <= limit
  <2>1. From(ms, s) = ms
    BY <1>3, SubSeqFull DEF KeepsFrom, From
  <2> QED
    BY <2>1, <1>3
<1>4. CASE ~(Estimate(ms) <= limit) /\ Estimate(kept) <= limit
  BY <1>4
<1>5. CASE ~(Estimate(ms) <= limit) /\ ~(Estimate(kept) <= limit)
  <2>1. From(ms, 1) = ms
    BY SubSeqFull DEF From
  <2>2. Estimate(ms) \in Nat
    BY <2>1
  <2>3. Estimate(ms) > limit
    BY <2>2, <1>5
  <2>4. \A u \in Starts(ms) : u <= s
    <3>1. \A t \in Starts(ms) :
              t < s \/ Estimate(From(ms, t)) <= limit \/ \A u \in Starts(ms) : u <= t
      BY <2>3, Zenon DEF KeepsFrom
    <3>2. ~(s < s)
      BY <1>2
    <3> QED
      BY <3>1, <3>2, <1>1, <1>5
  <2>5. ASSUME NEW i \in DOMAIN kept, kept[i].role = "user" PROVE i = 1
    <3>1. i \in 1..(Len(ms) - s + 1)
      BY <1>2, Zenon
    <3>2. s + i - 1 \in 1..Len(ms) /\ i \in Nat
      <4> HIDE DEF kept
      <4>1. s \in 1..Len(ms) /\ Len(ms) \in Nat
        BY <1>2, Zenon
      <4> QED
        BY ONLY <3>1, <4>1
    <3>3. s + i - 1 \in DOMAIN ms /\ i \in Nat
      BY <3>2, <1>2, Zenon
    <3>4. ms[s + i - 1].role = "user"
      BY <2>5, <1>2
    <3>5. s + i - 1 \in Starts(ms)
      BY <3>3, <3>4 DEF Starts
    <3>6. s + i - 1 <= s
      BY <3>5, <2>4
    <3> QED
      BY <3>3, <3>6, <1>2
  <2>6. 1 \in DOMAIN kept
    BY <1>2
  <2> QED
    BY <2>5, <2>6 DEF Starts
<1> QED
  BY <1>3, <1>4, <1>5

\* One message in front of a list.
LEMMA Prefixed ==
    ASSUME NEW S, NEW tail \in Seq(S), NEW x
    PROVE  /\ Len(<<x>> \o tail) = Len(tail) + 1 /\ Tail(<<x>> \o tail) = tail
           /\ \A i \in 1..Len(tail) : (<<x>> \o tail)[i + 1] = tail[i]
<1> DEFINE T == S \cup {x}
           n == Len(tail)
           both == <<x>> \o tail
<1>1. n \in Nat /\ tail \in Seq(T) /\ \A i \in 1..n : tail[i] \in T
  BY ElementOfSeq
<1>2. <<x>> \in Seq(T) /\ Len(<<x>>) = 1
  OBVIOUS
<1> HIDE DEF T, n
<1>3. /\ both \in Seq(T) /\ Len(both) = 1 + n
      /\ \A i \in 1..(1 + n) : both[i] = IF i <= 1 THEN <<x>>[i] ELSE tail[i - 1]
  BY <1>1, <1>2, ConcatProperties DEF n
<1> HIDE DEF both
<1>4. \A i \in 1..n : both[i + 1] = tail[i]
  <2> TAKE i \in 1..n
  <2>1. i + 1 \in 1..(1 + n) /\ ~(i + 1 <= 1) /\ (i + 1) - 1 = i
    BY <1>1
  <2> QED
    BY <1>3, <2>1
<1>5. both # <<>>
  BY <1>1, <1>3, EmptySeq
<1>6. /\ Tail(both) \in Seq(T) /\ Len(Tail(both)) = Len(both) - 1
      /\ \A i \in 1..Len(Tail(both)) : Tail(both)[i] = both[i + 1]
  BY <1>3, <1>5, HeadTailProperties
<1>7. Len(Tail(both)) = n
  BY <1>1, <1>3, <1>6
<1>8. Tail(both) = tail
  BY <1>1, <1>4, <1>6, <1>7, SeqEqual DEF n
<1> QED
  BY <1>1, <1>3, <1>4, <1>8 DEF n, both

\* compact_candidates and apply_summary split the list at the same place: each
\* message is shown to the summariser or is kept behind the summary, none is in
\* neither, and the order stays.
THEOREM SummaryCoversReplaced ==
    ASSUME NEW S, NEW ms \in Seq(S), NEW keep \in Nat, NEW summary, keep < Len(ms)
    PROVE  /\ CompactCandidates(ms, keep) \o Tail(ApplySummary(ms, summary, keep)) = ms
           /\ Len(ApplySummary(ms, summary, keep)) = keep + 1
<1> DEFINE n == Len(ms) - keep
           tail == SubSeq(ms, n + 1, Len(ms))
           head == <<[role |-> "system", ids |-> {}, text |-> <<Resume, summary>>]>>
<1>1. Len(ms) \in Nat /\ n \in 1..Len(ms) /\ \A i \in 1..Len(ms) : ms[i] \in S
  BY LenProperties, ElementOfSeq
<1>2. /\ tail \in Seq(S) /\ Len(tail) = keep
      /\ \A i \in 1..keep : tail[i] = ms[n + i]
  BY <1>1, SubSeqProperties
<1>3. CompactCandidates(ms, keep) = SubSeq(ms, 1, n) /\ ApplySummary(ms, summary, keep) = head \o tail
  BY <1>1 DEF CompactCandidates, ApplySummary
<1>4. Len(head \o tail) = keep + 1 /\ Tail(head \o tail) = tail
  BY <1>2, Prefixed
<1>5. SubSeq(ms, 1, n) \o tail = ms
  <2>1. /\ SubSeq(ms, 1, n) \in Seq(S) /\ Len(SubSeq(ms, 1, n)) = n
        /\ \A i \in 1..n : SubSeq(ms, 1, n)[i] = ms[i]
    BY <1>1, SubSeqProperties
  <2>2. /\ SubSeq(ms, 1, n) \o tail \in Seq(S) /\ Len(SubSeq(ms, 1, n) \o tail) = Len(ms)
        /\ \A i \in 1..Len(ms) : (SubSeq(ms, 1, n) \o tail)[i] = ms[i]
    BY <2>1, <1>1, <1>2
  <2> QED
    BY <2>2, SeqEqual
<1> QED
  BY <1>3, <1>4, <1>5

\* The newest message passes all three tiers verbatim, whatever the outputs
\* cleared, the budget and the summary: the model is always asked what the user
\* said, or told what the tool returned, last.
THEOREM NewestSurvives ==
    ASSUME NEW S, NEW ms \in Seq(S), ms # <<>>,
           NEW recent \in Nat \ {0}, NEW outputs, NEW keep \in Nat \ {0},
           NEW limit \in Nat, NEW summary,
           NEW s, KeepsFrom(Microcompact(ms, recent, outputs), limit, s)
    PROVE  LET result == ApplySummary(From(Microcompact(ms, recent, outputs), s), summary, keep)
           IN  result[Len(result)] = ms[Len(ms)]
<1> DEFINE clear == Microcompact(ms, recent, outputs)
           kept == From(clear, s)
           T == S \cup {clear[i] : i \in DOMAIN ms}
           head == <<[role |-> "system", ids |-> {}, text |-> <<Resume, summary>>]>>
<1>1. Len(ms) \in Nat \ {0} /\ DOMAIN ms = 1..Len(ms)
  BY LenProperties, EmptySeq
<1>2. clear \in Seq(T) /\ Len(clear) = Len(ms)
  <2>1. clear \in [1..Len(ms) -> T]
    BY <1>1 DEF Microcompact
  <2> QED
    BY <2>1, <1>1, IsASeq, LenProperties
<1>3. clear[Len(ms)] = ms[Len(ms)]
  BY <1>1 DEF Microcompact
<1>4. s \in DOMAIN clear
  BY DEF KeepsFrom, Starts
<1>5. /\ s \in 1..Len(ms) /\ kept \in Seq(T) /\ Len(kept) = Len(ms) - s + 1
      /\ kept[Len(kept)] = ms[Len(ms)]
  <2> HIDE DEF clear, T
  <2>1. /\ s \in 1..Len(clear) /\ kept \in Seq(T) /\ Len(kept) = Len(clear) - s + 1
        /\ \A i \in 1..(Len(clear) - s + 1) : kept[i] = clear[s + i - 1]
    BY <1>2, <1>4, FromProperties
  <2> HIDE DEF kept
  <2>2. Len(ms) - s + 1 \in 1..(Len(ms) - s + 1) /\ s + (Len(ms) - s + 1) - 1 = Len(ms)
    BY <2>1, <1>1, <1>2
  <2>3. kept[Len(ms) - s + 1] = clear[s + (Len(ms) - s + 1) - 1]
    BY <2>1, <2>2, <1>2
  <2> QED
    BY <2>1, <2>2, <2>3, <1>2, <1>3
<1>6. CASE Len(kept) <= keep
  BY <1>5, <1>6 DEF ApplySummary
<1>7. CASE keep < Len(kept)
  <2> DEFINE tail == SubSeq(kept, Len(kept) - keep + 1, Len(kept))
  <2>1. \A i \in 1..Len(kept) : kept[i] \in T
    BY <1>5, ElementOfSeq
  <2>2. tail \in Seq(T) /\ Len(tail) = keep /\ tail[keep] = kept[Len(kept)]
    BY <2>1, <1>1, <1>5, <1>7, SubSeqProperties
  <2>3. ApplySummary(kept, summary, keep) = head \o tail
    BY <1>1, <1>5, <1>7 DEF ApplySummary
  <2>4. Len(head \o tail) = keep + 1 /\ (head \o tail)[keep + 1] = tail[keep]
    <3>1. keep \in 1..keep
      BY <1>1
    <3> HIDE DEF tail, head
    <3> QED
      BY <2>2, <3>1, Prefixed DEF head
  <2> QED
    BY <2>2, <2>3, <2>4, <1>5
<1> QED
  BY <1>1, <1>5, <1>6, <1>7

-----------------------------------------------------------------------------
(* The token budget. *)
\* effective_context_window never returns less than its floor.
LEMMA WindowHasFloor ==
    ASSUME NEW b \in Budgets
    PROVE  EffectiveWindow(b) \in Nat /\ EffectiveWindow(b) >= MinEffectiveWindow
<1>1. b.contextWindow \in Nat /\ b.reservedOutput \in Nat
  BY DEF Budgets
<1>2. EffectiveReservedOutput(b.contextWindow, b.reservedOutput) \in Nat
  BY <1>1 DEF EffectiveReservedOutput, AtLeast, AtMost, SaturatingSub, MinPromptBudget
<1> QED
  BY <1>1, <1>2 DEF EffectiveWindow, AtLeast, SaturatingSub, MinEffectiveWindow

\* calculate_thresholds: whatever the buffers, the three levels come in their
\* order, none is zero and the last is inside the effective window.
THEOREM ThresholdsOrdered ==
    ASSUME NEW b \in Budgets
    PROVE  /\ 1 <= WarningThreshold(b)
           /\ WarningThreshold(b) <= CompactThreshold(b)
           /\ CompactThreshold(b) <= BlockingThreshold(b)
           /\ BlockingThreshold(b) <= EffectiveWindow(b)
           /\ {WarningThreshold(b), CompactThreshold(b), BlockingThreshold(b)} \subseteq Nat
<1> DEFINE effective == EffectiveWindow(b)
<1>1. effective \in Nat /\ effective >= 1000
  BY WindowHasFloor DEF MinEffectiveWindow
<1>2. b.warningBuffer \in Nat /\ b.compactBuffer \in Nat /\ b.blockingBuffer \in Nat
  BY DEF Budgets
<1>3. CompactThreshold(b) \in Nat /\ 1 <= CompactThreshold(b) /\ CompactThreshold(b) <= effective
  BY <1>1, <1>2 DEF CompactThreshold, AtLeast, AtMost, SaturatingSub
<1>4. WarningThreshold(b) \in Nat /\ 1 <= WarningThreshold(b) /\ WarningThreshold(b) <= CompactThreshold(b)
  BY <1>1, <1>2, <1>3 DEF WarningThreshold, AtLeast, AtMost, SaturatingSub
<1>5. /\ BlockingThreshold(b) \in Nat
      /\ CompactThreshold(b) <= BlockingThreshold(b) /\ BlockingThreshold(b) <= effective
  BY <1>1, <1>2, <1>3 DEF BlockingThreshold, AtLeast, AtMost, SaturatingSub
<1> QED
  BY <1>3, <1>4, <1>5

\* calculate_budget_state: an empty prompt is under no pressure, a full window
\* blocks, and more tokens never mean less pressure.
THEOREM PressureMonotone ==
    ASSUME NEW b \in Budgets, NEW few \in Nat, NEW many \in Nat, few <= many
    PROVE  /\ Pressure(b, few) <= Pressure(b, many)
           /\ Pressure(b, 0) = 0
           /\ many >= EffectiveWindow(b) => Pressure(b, many) = 3
<1>1. EffectiveWindow(b) \in Nat
  BY WindowHasFloor
<1> QED
  BY <1>1, ThresholdsOrdered DEF Pressure

-----------------------------------------------------------------------------
(* Least counterexamples. *)
\* A set of numbers that is not empty has a least element: what stands for an
\* induction below.
LEMMA LeastExists ==
    ASSUME NEW S \in SUBSET Nat, S # {}
    PROVE  \E i \in S : \A j \in S : i <= j
  <1>1. IsWellFoundedOn(OpToRel(<, Nat), Nat)
    BY NatLessThanWellFounded
  <1>2. PICK i \in S : \A j \in S : ~ (<<j, i>> \in OpToRel(<, Nat))
    BY <1>1, WFMin
  <1>3. \A j \in S : ~ (j < i)
    BY <1>2 DEF OpToRel
  <1> QED
    BY <1>3

\* What holds of 0, and of each number up to n behind one it holds of, holds of
\* all of them; the property is the set it defines.
LEMMA Climb ==
    ASSUME NEW n \in Nat, NEW S, 0 \in S, \A i \in 1..n : i - 1 \in S => i \in S
    PROVE  0..n \subseteq S
  <1> DEFINE B == (0..n) \ S
  <1>1. SUFFICES ASSUME B # {} PROVE FALSE
    OBVIOUS
  <1>2. PICK i \in B : \A j \in B : i <= j
    <2>1. B \in SUBSET Nat
      OBVIOUS
    <2> HIDE DEF B
    <2> QED
      BY <1>1, <2>1, LeastExists
  <1>3. i \in 1..n /\ i - 1 \in 0..n /\ ~(i <= i - 1)
    OBVIOUS
  <1>4. i - 1 \in S
    BY <1>2, <1>3
  <1> QED
    BY <1>3, <1>4

\* A step for each number can be repeated.
Iterates(f, n, V, a, step) == f \in [0..n -> V] /\ f[0] = a /\ \A i \in 1..n : f[i] = step[i][f[i - 1]]

LEMMA IteratesExist ==
    ASSUME NEW V, NEW a \in V, NEW n \in Nat, NEW step \in [1..n -> [V -> V]]
    PROVE  \E f : Iterates(f, n, V, a, step)
  <1> DEFINE S == {m \in 0..n : \E f : Iterates(f, m, V, a, step)}
  <1>1. 0 \in S
    <2>1. Iterates([i \in 0..0 |-> a], 0, V, a, step)
      BY DEF Iterates
    <2> QED
      BY <2>1
  <1>2. ASSUME NEW m \in 1..n, m - 1 \in S PROVE m \in S
    <2>1. PICK g : Iterates(g, m - 1, V, a, step)
      BY <1>2
    <2> DEFINE f == [i \in 0..m |-> IF i = m THEN step[m][g[m - 1]] ELSE g[i]]
    <2>2. m \in Nat /\ m \in 1..n /\ m # 0 /\ 0 \in 0..m /\ m \in 0..m
      OBVIOUS
    <2>3. \A i \in 0..m : i = m \/ (i \in 0..(m - 1) /\ i # m)
      BY <2>2
    <2>4. \A i \in 1..m : i \in 0..m /\ i - 1 \in 0..m /\ i - 1 # m /\ (i = m \/ i \in 1..(m - 1))
      BY <2>2
    <2>5. g[m - 1] \in V /\ step[m] \in [V -> V]
      <3>1. m - 1 \in 0..(m - 1)
        BY <2>2
      <3> QED
        BY <2>1, <2>2, <3>1 DEF Iterates
    <2>6. step[m][g[m - 1]] \in V
      BY <2>5
    <2>7. f \in [0..m -> V]
      BY <2>1, <2>3, <2>6 DEF Iterates
    <2>8. f[0] = a
      <3>1. 0 \in 0..(m - 1)
        BY <2>2
      <3> QED
        BY <2>1, <2>2 DEF Iterates
    <2>9. ASSUME NEW i \in 1..m PROVE f[i] = step[i][f[i - 1]]
      <3>1. f[i - 1] = g[i - 1]
        BY <2>4
      <3>2. CASE i = m
        BY <2>2, <3>1, <3>2
      <3>3. CASE i # m
        <4>1. f[i] = g[i] /\ i \in 1..(m - 1)
          BY <2>4, <3>3
        <4>2. g[i] = step[i][g[i - 1]]
          BY <2>1, <4>1 DEF Iterates
        <4> QED
          BY <3>1, <4>1, <4>2
      <3> QED
        BY <3>2, <3>3
    <2> HIDE DEF f
    <2>10. Iterates(f, m, V, a, step)
      BY <2>7, <2>8, <2>9 DEF Iterates
    <2> QED
      BY <2>10
  <1>3. n \in 0..n
    OBVIOUS
  <1> HIDE DEF S
  <1>4. n \in S
    BY <1>1, <1>2, <1>3, Climb
  <1> QED
    BY <1>4 DEF S

-----------------------------------------------------------------------------
(* The journal keeps what was said. *)
JournalSpec == JournalInit /\ [][JournalNext]_journalVars

Said == [n : Nat, calls : SUBSET JournalCalls, closes : SUBSET JournalCalls]
Checkpoints == [until : Nat, kept : Seq(Said)]
LogEntry ==
    [offset : Nat, type : {"message"}, item : Said]
      \cup [offset : Nat, type : {"started", "finished"}, item : SUBSET JournalCalls]
      \cup [offset : Nat, type : {"checkpoint"}, item : Checkpoints]

\* The messages an entry holds, by their numbers.
Told(e) ==
    IF e.type = "message" THEN {e.item.n}
    ELSE IF e.type = "checkpoint" THEN {e.item.kept[i].n : i \in DOMAIN e.item.kept} ELSE {}

\* The calls that an entry opens in the prompt, and those it closes.
Opens(e) ==
    CASE e.type = "message" -> e.item.calls
      [] e.type = "started" -> e.item
      [] e.type = "finished" -> {}
      [] e.type = "checkpoint" -> Reopen(e.item.kept)
Closes(e) ==
    CASE e.type = "finished" -> e.item
      [] e.type = "checkpoint" -> JournalCalls \ Reopen(e.item.kept)
      [] e.type \in {"message", "started"} -> {}

\* The same by what the messages say, which is all a checkpoint knows.
Lists(e) ==
    CASE e.type = "message" -> e.item.calls \ e.item.closes
      [] e.type = "checkpoint" -> Reopen(e.item.kept)
      [] e.type \in {"started", "finished"} -> {}
Answers(e) ==
    CASE e.type = "message" -> e.item.closes
      [] e.type = "checkpoint" -> JournalCalls \ Reopen(e.item.kept)
      [] e.type \in {"started", "finished"} -> {}

\* Of the first n entries one opens the call, or lists it, and none behind closes it.
StillOpen(log, n, c) ==
    \E i \in 1..n : c \in Opens(log[i]) /\ \A j \in 1..n : i < j => c \notin Closes(log[j])
StillListed(log, n, c) ==
    \E i \in 1..n : c \in Lists(log[i]) /\ \A j \in 1..n : i < j => c \notin Answers(log[j])

Ascending(log) == \A i, j \in DOMAIN log : i < j => log[i].offset < log[j].offset
Rising(messages) == \A i, j \in DOMAIN messages : i < j => messages[i].n < messages[j].n

Tells(log, n) == \E i \in DOMAIN log : n \in Told(log[i])

\* The entries there are, in the journal and on disk.
Recorded == {entries[i] : i \in DOMAIN entries} \cup {disk[i] : i \in DOMAIN disk}

JournalTypes ==
    /\ entries \in Seq(LogEntry) /\ disk \in Seq(LogEntry)
    /\ nextOffset \in Nat /\ exported \in Nat /\ said \in Nat
    /\ asked \subseteq JournalCalls /\ answered \subseteq JournalCalls
    /\ planned = Unplanned \/ planned \in [until : Nat, kept : Seq(Said), drops : SUBSET Nat]

\* An offset is used once, numbers grow, and a checkpoint holds what was said
\* before it, but for what was given up.
Chained(d, e) ==
    /\ d.offset = e.offset => d = e
    /\ d.offset < e.offset /\ e.type = "message" => \A n \in Told(d) : n < e.item.n
    /\ d.offset < e.offset /\ e.type = "checkpoint" => Told(d) \subseteq Told(e) \cup gone

EntryOK(e) ==
    /\ e.offset < nextOffset
    /\ \A n \in Told(e) : n \in 1..said
    /\ e.type = "checkpoint" => e.item.until = e.offset /\ Rising(e.item.kept)

ChainOK ==
    /\ \A e \in Recorded : EntryOK(e)
    /\ \A d, e \in Recorded : Chained(d, e)

EntriesOK ==
    /\ Ascending(entries)
    /\ nextOffset = OffsetBehind(entries)
    /\ \A n \in 1..said : n \in gone \/ Tells(entries, n)
    /\ \A n \in 1..said : Tells(disk, n) => n \in gone \/ Tells(entries, n)
    /\ \A c \in JournalCalls :
           /\ StillOpen(entries, Len(entries), c) => c \in asked
           /\ StillListed(entries, Len(entries), c) => c \in asked \cup answered

DiskOK ==
    /\ Ascending(disk)
    /\ exported <= nextOffset
    /\ \A i \in DOMAIN disk : disk[i].offset < exported
    /\ \A i \in DOMAIN entries :
           entries[i].offset < exported => \E j \in DOMAIN disk : disk[j] = entries[i]

\* A plan that nothing has overtaken covers what the journal holds.
PlanOK ==
    /\ planned.until <= nextOffset
    /\ planned.until = nextOffset =>
         /\ Rising(planned.kept)
         /\ Reopen(planned.kept) \subseteq asked \cup answered
         /\ \A i \in DOMAIN planned.kept : planned.kept[i].n \in 1..said
         /\ \A n \in 1..said : Tells(entries, n) =>
              n \in gone \cup planned.drops \/ \E i \in DOMAIN planned.kept : planned.kept[i].n = n

JournalOK == JournalTypes /\ ChainOK /\ EntriesOK /\ DiskOK /\ PlanOK

\* The journal claims nothing once it is hasty, and its behaviours end there.
JournalInv == ~hasty => JournalOK
-----------------------------------------------------------------------------
(* What Reopen goes through.                                               *)
Opened(f, s, n) ==
    /\ f = [i \in 0..n |-> f[i]] /\ f[0] = {}
    /\ \A i \in 1..n : f[i] = (f[i - 1] \cup s[i].calls) \ s[i].closes
Same(s, t, n) == \A i \in 1..n : s[i] = t[i]

(* However many messages there are, they can be gone through.              *)
LEMMA OpenedExists ==
    ASSUME NEW s, NEW len \in Nat
    PROVE  \E f : Opened(f, s, len)
  <1> DEFINE B == {n \in 0..len : ~ \E f : Opened(f, s, n)}
  <1>1. SUFFICES ASSUME B # {} PROVE FALSE
    OBVIOUS
  <1>2. PICK n \in B : \A m \in B : n <= m
    <2>1. B \in SUBSET Nat
      OBVIOUS
    <2> HIDE DEF B
    <2> QED
      BY <1>1, <2>1, LeastExists
  <1>3. n # 0
    <2>1. Opened([i \in 0..0 |-> {}], s, 0)
      BY DEF Opened
    <2> QED
      BY <1>2, <2>1
  <1>4. n - 1 \in 0..len /\ n - 1 \notin B /\ n \in 1..len
    <2>1. n \in 0..len
      BY <1>2
    <2>2. n - 1 \in 0..len /\ n \in 1..len /\ ~(n <= n - 1)
      BY <1>3, <2>1
    <2> HIDE DEF B
    <2> QED
      BY <1>2, <2>2
  <1>5. PICK g : Opened(g, s, n - 1)
    BY <1>4
  <1> DEFINE f == [i \in 0..n |-> IF i = n THEN (g[n - 1] \cup s[n].calls) \ s[n].closes ELSE g[i]]
  <1>6. Opened(f, s, n)
    <2>1. f = [i \in 0..n |-> f[i]] /\ f[0] = {}
      BY <1>4, <1>5 DEF Opened
    <2>2. ASSUME NEW i \in 1..n
          PROVE  f[i] = (f[i - 1] \cup s[i].calls) \ s[i].closes
      <3>1. CASE i = n
        <4>1. f[i - 1] = g[n - 1] /\ f[i] = (g[n - 1] \cup s[n].calls) \ s[n].closes
          BY <1>4, <3>1
        <4> QED
          BY <3>1, <4>1
      <3>2. CASE i # n
        <4>1. i \in 1..(n - 1) /\ i - 1 \in 0..n /\ i - 1 # n /\ i \in 0..n
          BY <1>4, <3>2
        <4>2. f[i] = g[i] /\ f[i - 1] = g[i - 1]
          BY <3>2, <4>1
        <4>3. g[i] = (g[i - 1] \cup s[i].calls) \ s[i].closes
          BY <1>5, <4>1 DEF Opened
        <4> QED
          BY <4>2, <4>3
      <3> QED
        BY <3>1, <3>2
    <2> HIDE DEF f
    <2> QED
      BY <2>1, <2>2 DEF Opened
  <1> QED
    BY <1>2, <1>6

(* This is what Reopen computes ...                                        *)
LEMMA ReopenIsOpened ==
    ASSUME NEW s \in Seq(Said)
    PROVE  \E f : Opened(f, s, Len(s)) /\ Reopen(s) = f[Len(s)]
  <1> DEFINE n == Len(s)
             Step(f) == [i \in 0..n |-> IF i = 0 THEN {} ELSE (f[i - 1] \cup s[i].calls) \ s[i].closes]
  <1>1. n \in Nat
    OBVIOUS
  <1>2. \E f : f = Step(f)
    <2>1. PICK f : Opened(f, s, n)
      BY <1>1, OpenedExists
    <2>2. \A i \in 0..n : f[i] = IF i = 0 THEN {} ELSE (f[i - 1] \cup s[i].calls) \ s[i].closes
      <3>1. \A i \in 0..n : i = 0 \/ i \in 1..n
        BY <1>1
      <3> QED
        BY <2>1, <3>1 DEF Opened
    <2>3. f = [i \in 0..n |-> f[i]]
      BY <2>1 DEF Opened
    <2> QED
      BY <2>2, <2>3
  <1> DEFINE w == CHOOSE f : f = Step(f)
  <1>3. w = Step(w)
    BY <1>2
  <1>4. Reopen(s) = w[n]
    BY DEF Reopen
  <1> HIDE DEF w
  <1>5. Opened(w, s, n)
    <2>1. \A i \in 1..n : i \in 0..n /\ i # 0
      BY <1>1
    <2>2. 0 \in 0..n
      BY <1>1
    <2>3. \A i \in 0..n : w[i] = IF i = 0 THEN {} ELSE (w[i - 1] \cup s[i].calls) \ s[i].closes
      BY <1>3
    <2>4. w = [i \in 0..n |-> w[i]]
      BY <1>3
    <2> QED
      BY <2>1, <2>2, <2>3, <2>4 DEF Opened
  <1> QED
    BY <1>4, <1>5

(* ... whoever goes through them.                                          *)
LEMMA OpenedOnce ==
    ASSUME NEW len \in Nat, NEW s, NEW t, NEW f, NEW g, NEW longer \in Nat, len <= longer,
           Same(s, t, len), Opened(f, s, len), Opened(g, t, longer)
    PROVE  f[len] = g[len]
  <1> DEFINE B == {n \in 0..len : f[n] # g[n]}
  <1>1. SUFFICES ASSUME B # {} PROVE FALSE
    OBVIOUS
  <1>2. PICK n \in B : \A m \in B : n <= m
    <2>1. B \in SUBSET Nat
      OBVIOUS
    <2> HIDE DEF B
    <2> QED
      BY <1>1, <2>1, LeastExists
  <1>3. n # 0
    BY <1>2 DEF Opened
  <1>4. n - 1 \in 0..len /\ n - 1 \notin B /\ n \in 1..len
    <2>1. n \in 0..len
      BY <1>2
    <2>2. n - 1 \in 0..len /\ n \in 1..len /\ ~(n <= n - 1)
      BY <1>3, <2>1
    <2> HIDE DEF B
    <2> QED
      BY <1>2, <2>2
  <1>5. f[n - 1] = g[n - 1]
    BY <1>4
  <1>6. n \in 1..longer
    BY <1>4
  <1>7. f[n] = g[n]
    BY <1>4, <1>5, <1>6 DEF Opened, Same
  <1> QED
    BY <1>2, <1>7

(* One more message opens the calls it lists and closes those it answers.  *)
LEMMA ReopenAppend ==
    ASSUME NEW s \in Seq(Said), NEW m \in Said
    PROVE  Reopen(Append(s, m)) = (Reopen(s) \cup m.calls) \ m.closes
  <1> DEFINE t == Append(s, m)
  <1>1. t \in Seq(Said) /\ Len(t) = Len(s) + 1 /\ t[Len(t)] = m /\ Len(s) \in Nat
    OBVIOUS
  <1>2. \A i \in 1..Len(s) : t[i] = s[i]
    OBVIOUS
  <1> HIDE DEF t
  <1>3. PICK f : Opened(f, t, Len(t)) /\ Reopen(t) = f[Len(t)]
    BY <1>1, ReopenIsOpened
  <1>4. PICK g : Opened(g, s, Len(s)) /\ Reopen(s) = g[Len(s)]
    BY ReopenIsOpened
  <1>5. Same(s, t, Len(s))
    BY <1>2 DEF Same
  <1>6. f[Len(s)] = g[Len(s)]
    <2>1. Len(s) <= Len(t) /\ Len(t) \in Nat
      BY <1>1
    <2> QED
      BY <1>1, <1>3, <1>4, <1>5, <2>1, OpenedOnce
  <1>7. Len(t) \in 1..Len(t) /\ Len(t) - 1 = Len(s)
    BY <1>1
  <1>8. f[Len(t)] = (f[Len(s)] \cup m.calls) \ m.closes
    BY <1>1, <1>3, <1>7 DEF Opened
  <1> QED
    BY <1>3, <1>4, <1>6, <1>8 DEF t

\* An empty list leaves no call open.
LEMMA ReopenNothing == Reopen(<<>>) = {}
  <1>1. <<>> \in Seq(Said) /\ Len(<<>>) = 0
    OBVIOUS
  <1>2. PICK f : Opened(f, <<>>, 0) /\ Reopen(<<>>) = f[0]
    BY <1>1, ReopenIsOpened
  <1> QED
    BY <1>2 DEF Opened

(* Only calls are opened, and a later part opens no more than the whole.   *)
LEMMA ReopenCalls ==
    ASSUME NEW s \in Seq(Said)
    PROVE  Reopen(s) \subseteq JournalCalls
  <1>1. PICK f : Opened(f, s, Len(s)) /\ Reopen(s) = f[Len(s)]
    BY ReopenIsOpened
  <1> DEFINE B == {n \in 0..Len(s) : ~ (f[n] \subseteq JournalCalls)}
  <1>2. Len(s) \in Nat
    OBVIOUS
  <1>3. SUFFICES ASSUME B # {} PROVE FALSE
    BY <1>1, <1>2
  <1>4. PICK n \in B : \A m \in B : n <= m
    <2>1. B \in SUBSET Nat
      BY <1>2
    <2> HIDE DEF B
    <2> QED
      BY <1>3, <2>1, LeastExists
  <1>5. n # 0
    BY <1>1, <1>4 DEF Opened
  <1>6. n - 1 \in 0..Len(s) /\ n - 1 \notin B /\ n \in 1..Len(s)
    <2>1. n \in 0..Len(s)
      BY <1>4
    <2>2. n - 1 \in 0..Len(s) /\ n \in 1..Len(s) /\ ~(n <= n - 1)
      BY <1>2, <1>5, <2>1
    <2> HIDE DEF B
    <2> QED
      BY <1>4, <2>2
  <1>7. f[n - 1] \subseteq JournalCalls
    BY <1>6
  <1>8. s[n] \in Said
    BY <1>6
  <1>9. f[n] = (f[n - 1] \cup s[n].calls) \ s[n].closes
    BY <1>1, <1>6 DEF Opened
  <1> QED
    BY <1>4, <1>7, <1>8, <1>9 DEF Said

\* The messages behind a cut leave no call open that the whole list does not.
LEMMA ReopenPart ==
    ASSUME NEW s \in Seq(Said), NEW k \in 1..(Len(s) + 1)
    PROVE  Reopen(SubSeq(s, k, Len(s))) \subseteq Reopen(s)
  <1> DEFINE t == SubSeq(s, k, Len(s))
             len == Len(s) - k + 1
  <1>1. len \in Nat /\ Len(s) \in Nat /\ k \in Nat
    OBVIOUS
  <1>2. t \in Seq(Said) /\ Len(t) = len
    BY SubSeqProperties
  <1>3. \A i \in 1..len : t[i] = s[k + i - 1]
    BY SubSeqProperties
  <1> HIDE DEF t, len
  <1>4. PICK f : Opened(f, s, Len(s)) /\ Reopen(s) = f[Len(s)]
    BY ReopenIsOpened
  <1>5. PICK g : Opened(g, t, len) /\ Reopen(t) = g[len]
    BY <1>2, ReopenIsOpened
  <1> DEFINE B == {n \in 0..len : ~ (g[n] \subseteq f[k + n - 1])}
  <1>6. SUFFICES ASSUME B # {} PROVE FALSE
    <2>1. len \in 0..len /\ k + len - 1 = Len(s)
      BY <1>1 DEF len
    <2>2. B = {} => g[len] \subseteq f[k + len - 1]
      BY <2>1
    <2> QED
      BY <1>4, <1>5, <2>1, <2>2 DEF t
  <1>7. PICK n \in B : \A m \in B : n <= m
    <2>1. B \in SUBSET Nat
      BY <1>1
    <2> HIDE DEF B
    <2> QED
      BY <1>6, <2>1, LeastExists
  <1>8. n # 0
    BY <1>5, <1>7 DEF Opened
  <1>9. n - 1 \in 0..len /\ n - 1 \notin B /\ n \in 1..len
    <2>1. n \in 0..len
      BY <1>7
    <2>2. n - 1 \in 0..len /\ n \in 1..len /\ ~(n <= n - 1)
      BY <1>1, <1>8, <2>1
    <2> HIDE DEF B
    <2> QED
      BY <1>7, <2>2
  <1>10. g[n - 1] \subseteq f[k + (n - 1) - 1]
    BY <1>9
  <1>11. k + n - 1 \in 1..Len(s) /\ (k + n - 1) - 1 = k + (n - 1) - 1
    BY <1>1, <1>9 DEF len
  <1>12. f[k + n - 1] = (f[k + (n - 1) - 1] \cup s[k + n - 1].calls) \ s[k + n - 1].closes
    BY <1>4, <1>11 DEF Opened
  <1>13. g[n] = (g[n - 1] \cup t[n].calls) \ t[n].closes /\ t[n] = s[k + n - 1]
    BY <1>3, <1>5, <1>9 DEF Opened
  <1> QED
    BY <1>7, <1>10, <1>12, <1>13
-----------------------------------------------------------------------------
(* What BuildPrompt goes through.                                          *)
Prompts(u, log, n) ==
    /\ u = [i \in 0..n |-> u[i]] /\ u[0] = NoPrompt
    /\ \A i \in 1..n : u[i] = Replay(u[i - 1], log[i])

(* A log can be gone through too ...                                       *)
LEMMA PromptsExist ==
    ASSUME NEW log, NEW len \in Nat
    PROVE  \E f : Prompts(f, log, len)
  <1> DEFINE B == {n \in 0..len : ~ \E f : Prompts(f, log, n)}
  <1>1. SUFFICES ASSUME B # {} PROVE FALSE
    OBVIOUS
  <1>2. PICK n \in B : \A m \in B : n <= m
    <2>1. B \in SUBSET Nat
      OBVIOUS
    <2> HIDE DEF B
    <2> QED
      BY <1>1, <2>1, LeastExists
  <1>3. n # 0
    <2>1. Prompts([i \in 0..0 |-> NoPrompt], log, 0)
      BY DEF Prompts
    <2> QED
      BY <1>2, <2>1
  <1>4. n - 1 \in 0..len /\ n - 1 \notin B /\ n \in 1..len
    <2>1. n \in 0..len
      BY <1>2
    <2>2. n - 1 \in 0..len /\ n \in 1..len /\ ~(n <= n - 1)
      BY <1>3, <2>1
    <2> HIDE DEF B
    <2> QED
      BY <1>2, <2>2
  <1>5. PICK g : Prompts(g, log, n - 1)
    BY <1>4
  <1> DEFINE f == [i \in 0..n |-> IF i = n THEN Replay(g[n - 1], log[n]) ELSE g[i]]
  <1>6. Prompts(f, log, n)
    <2>1. f = [i \in 0..n |-> f[i]] /\ f[0] = NoPrompt
      BY <1>4, <1>5 DEF Prompts
    <2>2. ASSUME NEW i \in 1..n
          PROVE  f[i] = Replay(f[i - 1], log[i])
      <3>1. CASE i = n
        <4>1. f[i - 1] = g[n - 1] /\ f[i] = Replay(g[n - 1], log[n])
          BY <1>4, <3>1
        <4> QED
          BY <3>1, <4>1
      <3>2. CASE i # n
        <4>1. i \in 1..(n - 1) /\ i - 1 \in 0..n /\ i - 1 # n /\ i \in 0..n
          BY <1>4, <3>2
        <4>2. f[i] = g[i] /\ f[i - 1] = g[i - 1]
          BY <3>2, <4>1
        <4>3. g[i] = Replay(g[i - 1], log[i])
          BY <1>5, <4>1 DEF Prompts
        <4> QED
          BY <4>2, <4>3
      <3> QED
        BY <3>1, <3>2
    <2> HIDE DEF f
    <2> QED
      BY <2>1, <2>2 DEF Prompts
  <1> QED
    BY <1>2, <1>6

(* ... as BuildPrompt does.                                                *)
LEMMA PromptIsLast ==
    ASSUME NEW log \in Seq(LogEntry)
    PROVE  \E f : Prompts(f, log, Len(log)) /\ BuildPrompt(log) = f[Len(log)]
  <1> DEFINE n == Len(log)
             Step(f) == [i \in 0..n |-> IF i = 0 THEN NoPrompt ELSE Replay(f[i - 1], log[i])]
  <1>1. n \in Nat
    OBVIOUS
  <1>2. \E f : f = Step(f)
    <2>1. PICK f : Prompts(f, log, n)
      BY <1>1, PromptsExist
    <2>2. \A i \in 0..n : f[i] = IF i = 0 THEN NoPrompt ELSE Replay(f[i - 1], log[i])
      <3>1. \A i \in 0..n : i = 0 \/ i \in 1..n
        BY <1>1
      <3> QED
        BY <2>1, <3>1 DEF Prompts
    <2>3. f = [i \in 0..n |-> f[i]]
      BY <2>1 DEF Prompts
    <2> QED
      BY <2>2, <2>3
  <1> DEFINE w == CHOOSE f : f = Step(f)
  <1>3. w = Step(w)
    BY <1>2
  <1>4. BuildPrompt(log) = w[n]
    BY DEF BuildPrompt
  <1> HIDE DEF w
  <1>5. Prompts(w, log, n)
    <2>1. \A i \in 1..n : i \in 0..n /\ i # 0
      BY <1>1
    <2>2. 0 \in 0..n
      BY <1>1
    <2>3. \A i \in 0..n : w[i] = IF i = 0 THEN NoPrompt ELSE Replay(w[i - 1], log[i])
      BY <1>3
    <2>4. w = [i \in 0..n |-> w[i]]
      BY <1>3
    <2> QED
      BY <2>1, <2>2, <2>3, <2>4 DEF Prompts
  <1> QED
    BY <1>4, <1>5

\* A log whose entries were recorded one after the other, each checkpoint as it
\* was planned.
Straight(log) ==
    /\ Ascending(log)
    /\ \A i \in DOMAIN log : log[i].type = "checkpoint" =>
           log[i].item.until = log[i].offset /\ Rising(log[i].item.kept)
    /\ \A i, j \in DOMAIN log : i < j /\ log[j].type = "message" =>
           \A n \in Told(log[i]) : n < log[j].item.n

Shows(messages, n) == \E i \in DOMAIN messages : messages[i].n = n

\* What the prompt of the first n entries is.
PromptOK(p, log, n) ==
    /\ p \in [from : Nat, messages : Seq(Said), open : SUBSET JournalCalls]
    /\ \A j \in DOMAIN log : n < j => p.from <= log[j].offset
    /\ \A c \in JournalCalls : c \in p.open <=> StillOpen(log, n, c)
    /\ \A c \in JournalCalls : c \in Reopen(p.messages) <=> StillListed(log, n, c)
    /\ Rising(p.messages)
    /\ \A i \in DOMAIN p.messages : \E j \in 1..n : p.messages[i].n \in Told(log[j])
    /\ \A i \in 1..n : \A x \in Told(log[i]) :
           Shows(p.messages, x) \/ \E j \in 1..n : i < j /\ log[j].type = "checkpoint" /\ x \notin Told(log[j])

(* A call is open behind an entry that opens it, or closes nothing of it.  *)
LEMMA OpenAfter ==
    ASSUME NEW log, NEW n \in Nat \ {0}, NEW c
    PROVE  StillOpen(log, n, c) <=> c \in Opens(log[n]) \/ (c \notin Closes(log[n]) /\ StillOpen(log, n - 1, c))
  <1>1. \A i \in 1..n : i = n \/ (i \in 1..(n - 1) /\ i < n)
    OBVIOUS
  <1>2. \A i \in 1..(n - 1) : i \in 1..n /\ i < n
    OBVIOUS
  <1>3. n \in 1..n /\ \A j \in 1..n : ~(n < j)
    OBVIOUS
  <1> QED
    BY <1>1, <1>2, <1>3 DEF StillOpen

\* Likewise for the calls a message lists.
LEMMA ListedAfter ==
    ASSUME NEW log, NEW n \in Nat \ {0}, NEW c
    PROVE  StillListed(log, n, c) <=>
             c \in Lists(log[n]) \/ (c \notin Answers(log[n]) /\ StillListed(log, n - 1, c))
  <1>1. \A i \in 1..n : i = n \/ (i \in 1..(n - 1) /\ i < n)
    OBVIOUS
  <1>2. \A i \in 1..(n - 1) : i \in 1..n /\ i < n
    OBVIOUS
  <1>3. n \in 1..n /\ \A j \in 1..n : ~(n < j)
    OBVIOUS
  <1> QED
    BY <1>1, <1>2, <1>3 DEF StillListed

(* What each kind of entry is.                                             *)
LEMMA EntryKinds ==
    ASSUME NEW e \in LogEntry
    PROVE  /\ e.offset \in Nat
           /\ e.type \in {"message", "started", "finished", "checkpoint"}
           /\ e.type = "message" => e.item \in Said
           /\ e.type \in {"started", "finished"} => e.item \subseteq JournalCalls
           /\ e.type = "checkpoint" => e.item \in Checkpoints
  BY DEF LogEntry

(* One more entry.                                                         *)
LEMMA PromptGrows ==
    ASSUME NEW log \in Seq(LogEntry), Straight(log), NEW n \in 1..Len(log), NEW p,
           PromptOK(p, log, n - 1)
    PROVE  PromptOK(Replay(p, log[n]), log, n)
  <1> DEFINE e == log[n]
             q == Replay(p, e)
  <1>1. e \in LogEntry /\ n \in Nat \ {0} /\ n - 1 \in Nat /\ Len(log) \in Nat /\ DOMAIN log = 1..Len(log)
    OBVIOUS
  <1>2. q = Replayed(p, e)
    <2>1. p.from <= e.offset /\ p.from \in Nat /\ e.offset \in Nat
      BY <1>1, EntryKinds DEF PromptOK
    <2> QED
      BY <2>1 DEF Replay
  <1>3. \A i \in 1..n : i = n \/ (i \in 1..(n - 1) /\ i < n)
    BY <1>1
  <1>4. \A i \in 1..(n - 1) : i \in 1..n /\ i < n
    BY <1>1
  <1>5. \A j \in DOMAIN log : n < j => n - 1 < j /\ n \in DOMAIN log
    BY <1>1
  <1> HIDE DEF e, q
  <1>6. CASE e.type = "message"
    <2>1. e.item \in Said
      BY <1>1, <1>6, EntryKinds
    <2>2. q = [p EXCEPT !.messages = Append(@, e.item), !.open = @ \cup e.item.calls]
      BY <1>2, <1>6 DEF Replayed
    <2>3. p \in [from : Nat, messages : Seq(Said), open : SUBSET JournalCalls]
      BY DEF PromptOK
    <2>4. q.from = p.from /\ q.messages = Append(p.messages, e.item) /\ q.open = p.open \cup e.item.calls
      BY <2>2, <2>3
    <2>5. q \in [from : Nat, messages : Seq(Said), open : SUBSET JournalCalls]
      <3>1. Append(p.messages, e.item) \in Seq(Said)
        BY <2>1, <2>3
      <3>2. p.open \cup e.item.calls \in SUBSET JournalCalls
        BY <2>1, <2>3 DEF Said
      <3> QED
        BY <2>2, <2>3, <3>1, <3>2
    <2>6. \A j \in DOMAIN log : n < j => q.from <= log[j].offset
      BY <1>5, <2>4 DEF PromptOK
    <2>7. ASSUME NEW c \in JournalCalls PROVE c \in q.open <=> StillOpen(log, n, c)
      <3>1. Opens(e) = e.item.calls /\ Closes(e) = {}
        BY <1>6 DEF Opens, Closes
      <3>2. c \in p.open <=> StillOpen(log, n - 1, c)
        BY DEF PromptOK
      <3> QED
        BY <1>1, <2>4, <3>1, <3>2, OpenAfter DEF e
    <2>8. ASSUME NEW c \in JournalCalls PROVE c \in Reopen(q.messages) <=> StillListed(log, n, c)
      <3>1. Lists(e) = e.item.calls \ e.item.closes /\ Answers(e) = e.item.closes
        BY <1>6 DEF Lists, Answers
      <3>2. c \in Reopen(p.messages) <=> StillListed(log, n - 1, c)
        BY DEF PromptOK
      <3>3. Reopen(q.messages) = (Reopen(p.messages) \cup e.item.calls) \ e.item.closes
        BY <2>1, <2>3, <2>4, ReopenAppend
      <3> QED
        BY <1>1, <3>1, <3>2, <3>3, ListedAfter DEF e
    <2>9. /\ Len(q.messages) = Len(p.messages) + 1 /\ Len(p.messages) \in Nat
          /\ q.messages[Len(q.messages)] = e.item
          /\ \A i \in 1..Len(p.messages) : q.messages[i] = p.messages[i]
          /\ DOMAIN p.messages = 1..Len(p.messages) /\ DOMAIN q.messages = 1..(Len(p.messages) + 1)
      BY <2>1, <2>3, <2>4
    <2>10. \A i \in DOMAIN p.messages : p.messages[i].n < e.item.n
      <3>1. ASSUME NEW i \in DOMAIN p.messages PROVE p.messages[i].n < e.item.n
        <4>1. PICK j \in 1..(n - 1) : p.messages[i].n \in Told(log[j])
          BY DEF PromptOK
        <4>2. j \in DOMAIN log /\ n \in DOMAIN log /\ j < n
          BY <1>1
        <4> QED
          BY <1>6, <4>1, <4>2 DEF Straight, e
      <3> QED
        BY <3>1
    <2>11. Rising(q.messages)
      <3>1. Rising(p.messages)
        BY DEF PromptOK
      <3>2. \A i \in DOMAIN q.messages : i \in DOMAIN p.messages \/ i = Len(q.messages)
        BY <2>9
      <3>3. \A i, j \in DOMAIN q.messages : i < j => i \in DOMAIN p.messages
        BY <2>9
      <3>4. ASSUME NEW i \in DOMAIN q.messages, NEW j \in DOMAIN q.messages, i < j
            PROVE  q.messages[i].n < q.messages[j].n
        <4>1. i \in DOMAIN p.messages /\ q.messages[i] = p.messages[i]
          BY <2>9, <3>3, <3>4
        <4>2. CASE j \in DOMAIN p.messages
          BY <2>9, <3>1, <3>4, <4>1, <4>2 DEF Rising
        <4>3. CASE j = Len(q.messages)
          BY <2>9, <2>10, <4>1, <4>3
        <4> QED
          BY <3>2, <4>2, <4>3
      <3> QED
        BY <3>4 DEF Rising
    <2>12. Told(e) = {e.item.n}
      BY <1>6 DEF Told
    <2>13. \A i \in DOMAIN q.messages : \E j \in 1..n : q.messages[i].n \in Told(log[j])
      <3>1. ASSUME NEW i \in DOMAIN q.messages PROVE \E j \in 1..n : q.messages[i].n \in Told(log[j])
        <4>1. CASE i \in DOMAIN p.messages
          BY <1>4, <2>9, <4>1 DEF PromptOK
        <4>2. CASE i = Len(q.messages)
          BY <1>1, <2>9, <2>12, <4>2 DEF e
        <4> QED
          BY <2>9, <4>1, <4>2
      <3> QED
        BY <3>1
    <2>14. ASSUME NEW i \in 1..n, NEW x \in Told(log[i])
           PROVE  Shows(q.messages, x) \/ \E j \in 1..n : i < j /\ log[j].type = "checkpoint" /\ x \notin Told(log[j])
      <3>1. CASE i = n
        <4>1. x = e.item.n
          BY <2>12, <3>1 DEF e
        <4>2. Len(q.messages) \in DOMAIN q.messages
          BY <2>9
        <4> QED
          BY <2>9, <4>1, <4>2 DEF Shows
      <3>2. CASE i \in 1..(n - 1)
        <4>1. \A k \in DOMAIN p.messages : k \in DOMAIN q.messages /\ q.messages[k] = p.messages[k]
          BY <2>9
        <4>2. Shows(p.messages, x) => Shows(q.messages, x)
          BY <4>1 DEF Shows
        <4> QED
          BY <1>4, <3>2, <4>2 DEF PromptOK
      <3> QED
        BY <1>3, <3>1, <3>2
    <2> QED
      BY <2>5, <2>6, <2>7, <2>8, <2>11, <2>13, <2>14 DEF PromptOK, q, e
  <1>7. CASE e.type \in {"started", "finished"}
    <2>1. e.item \subseteq JournalCalls /\ e.type # "message" /\ e.type # "checkpoint"
      BY <1>1, <1>7, EntryKinds
    <2>2. q = [p EXCEPT !.open = IF e.type = "started" THEN p.open \cup e.item ELSE p.open \ e.item]
      BY <1>2, <1>7 DEF Replayed
    <2>3. p \in [from : Nat, messages : Seq(Said), open : SUBSET JournalCalls]
      BY DEF PromptOK
    <2>4. /\ q.from = p.from /\ q.messages = p.messages
          /\ q.open = IF e.type = "started" THEN p.open \cup e.item ELSE p.open \ e.item
      BY <2>2, <2>3
    <2>5. q \in [from : Nat, messages : Seq(Said), open : SUBSET JournalCalls]
      BY <2>1, <2>2, <2>3
    <2>6. \A j \in DOMAIN log : n < j => q.from <= log[j].offset
      BY <1>5, <2>4 DEF PromptOK
    <2>7. ASSUME NEW c \in JournalCalls PROVE c \in q.open <=> StillOpen(log, n, c)
      <3>1. /\ e.type = "started" => Opens(e) = e.item /\ Closes(e) = {}
            /\ e.type = "finished" => Opens(e) = {} /\ Closes(e) = e.item
        BY DEF Opens, Closes
      <3>2. c \in p.open <=> StillOpen(log, n - 1, c)
        BY DEF PromptOK
      <3>3. StillOpen(log, n, c) <=> c \in Opens(e) \/ (c \notin Closes(e) /\ StillOpen(log, n - 1, c))
        BY <1>1, OpenAfter DEF e
      <3> QED
        BY <1>7, <2>4, <3>1, <3>2, <3>3
    <2>8. ASSUME NEW c \in JournalCalls PROVE c \in Reopen(q.messages) <=> StillListed(log, n, c)
      <3>1. Lists(e) = {} /\ Answers(e) = {}
        BY <1>7 DEF Lists, Answers
      <3>2. c \in Reopen(p.messages) <=> StillListed(log, n - 1, c)
        BY DEF PromptOK
      <3> QED
        BY <1>1, <2>4, <3>1, <3>2, ListedAfter DEF e
    <2>9. Told(e) = {}
      BY <2>1 DEF Told
    <2>10. \A i \in 1..n : \A x \in Told(log[i]) : i \in 1..(n - 1)
      BY <1>3, <2>9 DEF e
    <2>11. Rising(q.messages) /\ \A i \in DOMAIN q.messages : \E j \in 1..n : q.messages[i].n \in Told(log[j])
      BY <1>4, <2>4 DEF PromptOK
    <2>12. \A i \in 1..n : \A x \in Told(log[i]) :
             Shows(q.messages, x) \/ \E j \in 1..n : i < j /\ log[j].type = "checkpoint" /\ x \notin Told(log[j])
      BY <1>4, <2>4, <2>10 DEF PromptOK
    <2> QED
      BY <2>5, <2>6, <2>7, <2>8, <2>11, <2>12 DEF PromptOK, q, e
  <1>8. CASE e.type = "checkpoint"
    <2>1. e.item \in Checkpoints
      BY <1>1, <1>8, EntryKinds
    <2>2. q = [from |-> e.item.until, messages |-> e.item.kept, open |-> Reopen(e.item.kept)]
      BY <1>2, <1>8 DEF Replayed
    <2>3. e.item.until \in Nat /\ e.item.kept \in Seq(Said) /\ Reopen(e.item.kept) \subseteq JournalCalls
      BY <2>1, ReopenCalls DEF Checkpoints
    <2>4. q.from = e.item.until /\ q.messages = e.item.kept /\ q.open = Reopen(e.item.kept)
      BY <2>2
    <2>5. q \in [from : Nat, messages : Seq(Said), open : SUBSET JournalCalls]
      BY <2>2, <2>3
    <2>6. e.item.until = e.offset /\ Rising(e.item.kept)
      BY <1>1, <1>8 DEF Straight, e
    <2>7. \A j \in DOMAIN log : n < j => q.from <= log[j].offset
      <3>1. ASSUME NEW j \in DOMAIN log, n < j PROVE q.from <= log[j].offset
        <4>1. e.offset < log[j].offset
          BY <1>1, <3>1 DEF Straight, Ascending, e
        <4>2. e.offset \in Nat /\ log[j].offset \in Nat
          BY <1>1, EntryKinds
        <4> QED
          BY <2>4, <2>6, <4>1, <4>2
      <3> QED
        BY <3>1
    <2>8. ASSUME NEW c \in JournalCalls
          PROVE  /\ c \in q.open <=> StillOpen(log, n, c)
                 /\ c \in Reopen(q.messages) <=> StillListed(log, n, c)
      <3>1. Opens(e) = Reopen(e.item.kept) /\ Closes(e) = JournalCalls \ Reopen(e.item.kept)
        BY <1>8 DEF Opens, Closes
      <3>2. Lists(e) = Reopen(e.item.kept) /\ Answers(e) = JournalCalls \ Reopen(e.item.kept)
        BY <1>8 DEF Lists, Answers
      <3> QED
        BY <1>1, <2>4, <3>1, <3>2, OpenAfter, ListedAfter DEF e
    <2>9. Told(e) = {e.item.kept[i].n : i \in DOMAIN e.item.kept}
      BY <1>8 DEF Told
    <2>10. \A i \in DOMAIN q.messages : \E j \in 1..n : q.messages[i].n \in Told(log[j])
      BY <1>1, <2>4, <2>9 DEF e
    <2>11. ASSUME NEW i \in 1..n, NEW x \in Told(log[i])
           PROVE  Shows(q.messages, x) \/ \E j \in 1..n : i < j /\ log[j].type = "checkpoint" /\ x \notin Told(log[j])
      <3>1. x \in Told(e) => Shows(q.messages, x)
        BY <2>4, <2>9 DEF Shows
      <3>2. CASE i = n
        BY <3>1, <3>2 DEF e
      <3>3. CASE i < n
        BY <1>1, <1>8, <3>1, <3>3 DEF e
      <3> QED
        BY <1>3, <3>2, <3>3
    <2> QED
      BY <2>4, <2>5, <2>6, <2>7, <2>8, <2>10, <2>11 DEF PromptOK, q, e
  <1> QED
    BY <1>1, <1>6, <1>7, <1>8, EntryKinds

(* For every log that was recorded in order: what its prompt is.           *)
LEMMA PromptIs ==
    ASSUME NEW log \in Seq(LogEntry), Straight(log)
    PROVE  PromptOK(BuildPrompt(log), log, Len(log))
  <1>1. PICK u : Prompts(u, log, Len(log)) /\ BuildPrompt(log) = u[Len(log)]
    BY PromptIsLast
  <1> DEFINE B == {n \in 0..Len(log) : ~ PromptOK(u[n], log, n)}
  <1>2. Len(log) \in Nat
    OBVIOUS
  <1>3. SUFFICES ASSUME B # {} PROVE FALSE
    BY <1>1, <1>2
  <1>4. PICK n \in B : \A m \in B : n <= m
    <2>1. B \in SUBSET Nat
      BY <1>2
    <2> HIDE DEF B
    <2> QED
      BY <1>3, <2>1, LeastExists
  <1>5. n # 0
    <2>1. u[0] = [from |-> 0, messages |-> <<>>, open |-> {}]
      BY <1>1 DEF Prompts, NoPrompt
    <2>2. <<>> \in Seq(Said) /\ DOMAIN <<>> = {}
      OBVIOUS
    <2>3. u[0] \in [from : Nat, messages : Seq(Said), open : SUBSET JournalCalls] /\ u[0].messages = <<>>
      BY <2>1, <2>2
    <2>4. \A j \in DOMAIN log : u[0].from <= log[j].offset
      <3>1. \A j \in DOMAIN log : log[j].offset \in Nat
        BY EntryKinds
      <3> QED
        BY <2>1, <3>1
    <2>5. \A c \in JournalCalls : ~ StillOpen(log, 0, c) /\ ~ StillListed(log, 0, c)
      BY DEF StillOpen, StillListed
    <2>6. Rising(<<>>)
      BY <2>2 DEF Rising
    <2>7. PromptOK(u[0], log, 0)
      BY <2>1, <2>2, <2>3, <2>4, <2>5, <2>6, ReopenNothing DEF PromptOK
    <2> QED
      BY <1>4, <2>7
  <1>6. n - 1 \in 0..Len(log) /\ n - 1 \notin B /\ n \in 1..Len(log)
    <2>1. n \in 0..Len(log)
      BY <1>4
    <2>2. n - 1 \in 0..Len(log) /\ n \in 1..Len(log) /\ ~(n <= n - 1)
      BY <1>2, <1>5, <2>1
    <2> HIDE DEF B
    <2> QED
      BY <1>4, <2>2
  <1>7. PromptOK(u[n - 1], log, n - 1)
    BY <1>6
  <1>8. u[n] = Replay(u[n - 1], log[n])
    BY <1>1, <1>6 DEF Prompts
  <1>9. PromptOK(u[n], log, n)
    BY <1>6, <1>7, <1>8, PromptGrows
  <1> QED
    BY <1>4, <1>9

-----------------------------------------------------------------------------
(* Parts of a log.                                                         *)

\* t is log from its entry k on.
Part(t, log, k) ==
    /\ k \in 1..(Len(log) + 1)
    /\ t \in Seq(LogEntry) /\ Len(t) = Len(log) - k + 1
    /\ \A i \in 1..Len(t) : t[i] = log[k + i - 1]

(* entries_since is the part that begins at an offset.                     *)
LEMMA SinceIsPart ==
    ASSUME entries \in Seq(LogEntry), Ascending(entries), NEW x \in Nat
    PROVE  \E k : /\ Part(EntriesSince(x), entries, k)
                  /\ \A i \in DOMAIN entries : entries[i].offset >= x <=> k <= i
  <1> DEFINE since == {i \in DOMAIN entries : entries[i].offset >= x}
  <1>1. Len(entries) \in Nat /\ DOMAIN entries = 1..Len(entries)
    OBVIOUS
  <1>2. \A i \in DOMAIN entries : entries[i].offset \in Nat
    BY EntryKinds
  <1>3. EntriesSince(x) = IF since = {} THEN <<>> ELSE SubSeq(entries, Min(since), Len(entries))
    BY DEF EntriesSince
  <1>4. CASE since = {}
    <2>1. EntriesSince(x) = <<>> /\ <<>> \in Seq(LogEntry) /\ Len(<<>>) = 0
      BY <1>3, <1>4
    <2>2. Part(EntriesSince(x), entries, Len(entries) + 1)
      BY <1>1, <2>1 DEF Part
    <2>3. \A i \in DOMAIN entries : ~(entries[i].offset >= x) /\ ~(Len(entries) + 1 <= i)
      BY <1>1, <1>4
    <2> QED
      BY <2>2, <2>3
  <1>5. CASE since # {}
    <2>1. since \in SUBSET Nat
      BY <1>1
    <2> DEFINE k == Min(since)
    <2>2. k \in since /\ \A i \in since : k <= i
      <3>1. \E i \in since : \A j \in since : i <= j
        <4> HIDE DEF since
        <4> QED
          BY <1>5, <2>1, LeastExists
      <3> HIDE DEF since
      <3> QED
        BY <3>1 DEF Min
    <2>3. k \in 1..Len(entries) /\ entries[k].offset >= x
      BY <1>1, <2>2
    <2>4. \A i \in DOMAIN entries : entries[i].offset >= x <=> k <= i
      <3>1. ASSUME NEW i \in DOMAIN entries, k <= i PROVE entries[i].offset >= x
        <4>1. i = k \/ entries[k].offset < entries[i].offset
          BY <1>1, <2>3, <3>1 DEF Ascending
        <4> QED
          BY <1>1, <1>2, <2>3, <4>1
      <3>2. ASSUME NEW i \in DOMAIN entries, entries[i].offset >= x PROVE k <= i
        BY <2>2, <3>2
      <3> QED
        BY <3>1, <3>2
    <2>5. EntriesSince(x) = SubSeq(entries, k, Len(entries))
      BY <1>3, <1>5
    <2> HIDE DEF k, since
    <2>6. Part(EntriesSince(x), entries, k)
      BY <1>1, <2>3, <2>5, SubSeqProperties DEF Part
    <2> QED
      BY <2>4, <2>6
  <1> QED
    BY <1>4, <1>5

(* A part opens, lists and tells no more than the whole.                   *)
LEMMA PartTells ==
    ASSUME NEW log \in Seq(LogEntry), NEW t, NEW k, Part(t, log, k)
    PROVE  /\ Ascending(log) => Ascending(t)
           /\ \A i \in DOMAIN t : k + i - 1 \in DOMAIN log /\ t[i] = log[k + i - 1]
           /\ \A c : StillOpen(t, Len(t), c) => StillOpen(log, Len(log), c)
           /\ \A c : StillListed(t, Len(t), c) => StillListed(log, Len(log), c)
           /\ \A n : Tells(t, n) => Tells(log, n)
           /\ t # <<>> => log # <<>> /\ Last(t) = Last(log)
  <1>1. /\ Len(log) \in Nat /\ DOMAIN log = 1..Len(log) /\ k \in 1..(Len(log) + 1)
        /\ Len(t) \in Nat /\ DOMAIN t = 1..Len(t) /\ Len(t) = Len(log) - k + 1
    BY DEF Part
  <1>2. \A i \in 1..Len(t) : k + i - 1 \in 1..Len(log) /\ t[i] = log[k + i - 1]
    BY <1>1 DEF Part
  <1>3. \A i, j \in 1..Len(t) : i < j => k + i - 1 < k + j - 1
    BY <1>1
  <1>4. Ascending(log) => Ascending(t)
    BY <1>1, <1>2, <1>3 DEF Ascending
  <1>5. \A j \in 1..Len(log) : k <= j => j - k + 1 \in 1..Len(t) /\ log[j] = t[j - k + 1]
    <2>1. ASSUME NEW j \in 1..Len(log), k <= j PROVE j - k + 1 \in 1..Len(t) /\ log[j] = t[j - k + 1]
      <3>1. j - k + 1 \in 1..Len(t) /\ k + (j - k + 1) - 1 = j
        BY <1>1, <2>1
      <3> QED
        BY <1>2, <3>1
    <2> QED
      BY <2>1
  <1>6. ASSUME NEW i \in 1..Len(t), NEW j \in 1..Len(log), k + i - 1 < j
        PROVE  j - k + 1 \in 1..Len(t) /\ log[j] = t[j - k + 1] /\ i < j - k + 1
    BY <1>1, <1>5, <1>6
  <1>7. ASSUME NEW c, StillOpen(t, Len(t), c) PROVE StillOpen(log, Len(log), c)
    <2>1. PICK i \in 1..Len(t) : c \in Opens(t[i]) /\ \A j \in 1..Len(t) : i < j => c \notin Closes(t[j])
      BY <1>7 DEF StillOpen
    <2>2. \A j \in 1..Len(log) : k + i - 1 < j => c \notin Closes(log[j])
      BY <1>6, <2>1
    <2> QED
      BY <1>2, <2>1, <2>2 DEF StillOpen
  <1>8. ASSUME NEW c, StillListed(t, Len(t), c) PROVE StillListed(log, Len(log), c)
    <2>1. PICK i \in 1..Len(t) : c \in Lists(t[i]) /\ \A j \in 1..Len(t) : i < j => c \notin Answers(t[j])
      BY <1>8 DEF StillListed
    <2>2. \A j \in 1..Len(log) : k + i - 1 < j => c \notin Answers(log[j])
      BY <1>6, <2>1
    <2> QED
      BY <1>2, <2>1, <2>2 DEF StillListed
  <1>9. \A n : Tells(t, n) => Tells(log, n)
    BY <1>1, <1>2 DEF Tells
  <1>10. ASSUME t # <<>> PROVE log # <<>> /\ Last(t) = Last(log)
    <2>1. t \in Seq(LogEntry)
      BY DEF Part
    <2>2. Len(t) \in 1..Len(t)
      BY <1>1, <1>10, <2>1
    <2>3. t[Len(t)] = log[Len(log)] /\ Len(log) \in 1..Len(log)
      <3>1. k + Len(t) - 1 = Len(log)
        BY <1>1
      <3>2. t[Len(t)] = log[k + Len(t) - 1] /\ k + Len(t) - 1 \in 1..Len(log)
        BY <1>2, <2>2
      <3> QED
        BY <3>1, <3>2
    <2> QED
      BY <1>1, <2>3 DEF Last
  <1> QED
    BY <1>1, <1>2, <1>4, <1>7, <1>8, <1>9, <1>10

-----------------------------------------------------------------------------
(* What the journal records.                                               *)

\* The journal and the export are logs as the lemmas above ask for.
LEMMA LogsAreStraight == JournalOK => Straight(entries) /\ Straight(disk)
  <1> SUFFICES ASSUME JournalOK PROVE Straight(entries) /\ Straight(disk)
    OBVIOUS
  <1>1. \A i \in DOMAIN entries : entries[i] \in Recorded
    BY DEF Recorded
  <1>2. \A i \in DOMAIN disk : disk[i] \in Recorded
    BY DEF Recorded
  <1>3. /\ \A e \in Recorded : EntryOK(e)
        /\ \A d, e \in Recorded : Chained(d, e)
    BY DEF JournalOK, ChainOK
  <1>4. Ascending(entries) /\ Ascending(disk)
    BY DEF JournalOK, EntriesOK, DiskOK
  <1>5. Straight(entries)
    BY <1>1, <1>3, <1>4 DEF Straight, Ascending, EntryOK, Chained
  <1>6. Straight(disk)
    BY <1>2, <1>3, <1>4 DEF Straight, Ascending, EntryOK, Chained
  <1> QED
    BY <1>5, <1>6

(* What a log tells and was not given up is in its prompt.                 *)
LEMMA ToldIsShown ==
    ASSUME JournalOK, NEW log, log = entries \/ log = disk, NEW n, Tells(log, n), n \notin gone
    PROVE  Shows(BuildPrompt(log).messages, n)
  <1>1. log \in Seq(LogEntry) /\ Straight(log)
    BY LogsAreStraight DEF JournalOK, JournalTypes
  <1>2. PromptOK(BuildPrompt(log), log, Len(log))
    BY <1>1, PromptIs
  <1>3. DOMAIN log = 1..Len(log) /\ \A i \in DOMAIN log : log[i] \in Recorded
    BY <1>1 DEF Recorded
  <1>4. PICK i \in DOMAIN log : n \in Told(log[i])
    BY DEF Tells
  <1>5. ASSUME NEW j \in DOMAIN log, i < j, log[j].type = "checkpoint" PROVE n \in Told(log[j])
    <2>1. log[i].offset < log[j].offset
      BY <1>1, <1>5 DEF Straight, Ascending
    <2>2. Chained(log[i], log[j])
      BY <1>3 DEF JournalOK, ChainOK
    <2> QED
      BY <1>4, <1>5, <2>1, <2>2 DEF Chained
  <1> QED
    BY <1>2, <1>3, <1>4, <1>5 DEF PromptOK

(* A recorded entry stands behind all others.                              *)
LEMMA RecordAppends ==
    ASSUME JournalOK, NEW type, NEW item, Record(type, item),
           NEW e \in LogEntry, e = [offset |-> nextOffset, type |-> type, item |-> item]
    PROVE  /\ entries' \in Seq(LogEntry) /\ nextOffset' = nextOffset + 1 /\ nextOffset' \in Nat
           /\ Recorded' = Recorded \cup {e}
           /\ Ascending(entries') /\ nextOffset' = OffsetBehind(entries')
           /\ DiskOK'
           /\ \A n : Tells(entries', n) <=> Tells(entries, n) \/ n \in Told(e)
           /\ \A c : StillOpen(entries', Len(entries'), c) <=>
                       c \in Opens(e) \/ (c \notin Closes(e) /\ StillOpen(entries, Len(entries), c))
           /\ \A c : StillListed(entries', Len(entries'), c) <=>
                       c \in Lists(e) \/ (c \notin Answers(e) /\ StillListed(entries, Len(entries), c))
  <1> DEFINE n == Len(entries)
  <1>1. entries \in Seq(LogEntry) /\ n \in Nat /\ DOMAIN entries = 1..n /\ nextOffset \in Nat
    BY DEF JournalOK, JournalTypes
  <1>2. entries' = Append(entries, e) /\ nextOffset' = nextOffset + 1 /\ disk' = disk /\ exported' = exported
    BY DEF Record
  <1>3. /\ entries' \in Seq(LogEntry) /\ Len(entries') = n + 1 /\ DOMAIN entries' = 1..(n + 1)
        /\ \A i \in 1..n : entries'[i] = entries[i]
        /\ entries'[n + 1] = e
    BY <1>1, <1>2
  <1>4. nextOffset' \in Nat
    BY <1>1, <1>2
  <1>5. \A i \in 1..(n + 1) : i = n + 1 \/ i \in 1..n
    BY <1>1
  <1>6. \A i \in 1..n : i \in 1..(n + 1)
    BY <1>1
  <1>7. n + 1 \in 1..(n + 1)
    BY <1>1
  <1>8. Recorded' = Recorded \cup {e}
    BY <1>1, <1>2, <1>3, <1>5, <1>6, <1>7 DEF Recorded
  <1>9. \A i \in 1..n : entries[i].offset < e.offset
    <2>1. \A i \in 1..n : entries[i] \in Recorded
      BY <1>1 DEF Recorded
    <2> QED
      BY <2>1 DEF JournalOK, ChainOK, EntryOK
  <1>10. Ascending(entries')
    <2>1. Ascending(entries)
      BY DEF JournalOK, EntriesOK
    <2>2. \A i, j \in 1..(n + 1) : i < j => i \in 1..n
      BY <1>1
    <2> QED
      BY <1>1, <1>3, <1>5, <1>9, <2>1, <2>2 DEF Ascending
  <1>11. nextOffset' = OffsetBehind(entries')
    <2>1. entries' # <<>> /\ Last(entries') = e
      BY <1>1, <1>3 DEF Last
    <2> QED
      BY <1>2, <2>1 DEF OffsetBehind
  <1>12. DiskOK'
    <2>1. Ascending(disk') /\ exported' <= nextOffset' /\ \A i \in DOMAIN disk' : disk'[i].offset < exported'
      BY <1>1, <1>2 DEF JournalOK, JournalTypes, DiskOK
    <2>2. ASSUME NEW i \in 1..(n + 1), entries'[i].offset < exported'
          PROVE  \E j \in DOMAIN disk' : disk'[j] = entries'[i]
      <3>1. exported <= nextOffset /\ exported \in Nat
        BY DEF JournalOK, JournalTypes, DiskOK
      <3>2. i # n + 1
        BY <1>1, <1>2, <1>3, <2>2, <3>1
      <3>3. i \in 1..n
        BY <1>5, <3>2
      <3> QED
        BY <1>1, <1>2, <1>3, <2>2, <3>3 DEF JournalOK, DiskOK
    <2> QED
      BY <1>3, <2>1, <2>2 DEF DiskOK
  <1>13. \A x : Tells(entries', x) <=> Tells(entries, x) \/ x \in Told(e)
    BY <1>1, <1>3, <1>5, <1>6, <1>7 DEF Tells
  <1>14. \A c : StillOpen(entries', n, c) <=> StillOpen(entries, n, c)
    BY <1>3 DEF StillOpen
  <1>15. \A c : StillListed(entries', n, c) <=> StillListed(entries, n, c)
    BY <1>3 DEF StillListed
  <1>16. n + 1 \in Nat \ {0} /\ (n + 1) - 1 = n
    BY <1>1
  <1>17. ASSUME NEW c
         PROVE  /\ StillOpen(entries', n + 1, c) <=> c \in Opens(e) \/ (c \notin Closes(e) /\ StillOpen(entries, n, c))
                /\ StillListed(entries', n + 1, c) <=> c \in Lists(e) \/ (c \notin Answers(e) /\ StillListed(entries, n, c))
    BY <1>3, <1>14, <1>15, <1>16, OpenAfter, ListedAfter
  <1> QED
    BY <1>2, <1>3, <1>4, <1>8, <1>10, <1>11, <1>12, <1>13, <1>17

(* A chain goes on with an entry that fits.                                *)
LEMMA ChainGrows ==
    ASSUME JournalOK, NEW e \in LogEntry, e.offset = nextOffset, nextOffset' = nextOffset + 1,
           Recorded' = Recorded \cup {e}, gone \subseteq gone', said' \in Nat, said <= said',
           \A n \in Told(e) : n \in 1..said',
           e.type = "checkpoint" => e.item.until = e.offset /\ Rising(e.item.kept),
           e.type = "message" => \A n \in 1..said : n < e.item.n,
           e.type = "checkpoint" => \A d \in Recorded : Told(d) \subseteq Told(e) \cup gone'
    PROVE  ChainOK'
  <1>1. nextOffset \in Nat /\ said \in Nat
    BY DEF JournalOK, JournalTypes
  <1>2. \A d \in Recorded : EntryOK(d)
    BY DEF JournalOK, ChainOK
  <1>3. \A d \in Recorded : d.offset \in Nat
    BY EntryKinds DEF Recorded, JournalOK, JournalTypes
  <1>4. ASSUME NEW d \in Recorded' PROVE EntryOK(d)'
    <2>1. CASE d = e
      BY <1>1, <2>1 DEF EntryOK
    <2>2. CASE d \in Recorded
      <3>1. d.offset < nextOffset'
        BY <1>1, <1>2, <1>3, <2>2 DEF EntryOK
      <3>2. \A n \in Told(d) : n \in 1..said'
        BY <1>1, <1>2, <2>2 DEF EntryOK
      <3> QED
        BY <1>2, <2>2, <3>1, <3>2 DEF EntryOK
    <2> QED
      BY <2>1, <2>2
  <1>5. \A d \in Recorded : d.offset < e.offset /\ ~(e.offset < d.offset) /\ d.offset # e.offset
    BY <1>1, <1>2, <1>3 DEF EntryOK
  <1>6. ~(e.offset < e.offset)
    BY <1>1
  <1>7. ASSUME NEW d \in Recorded', NEW f \in Recorded' PROVE Chained(d, f)'
    <2>1. CASE d \in Recorded /\ f \in Recorded
      <3>1. Chained(d, f)
        BY <2>1 DEF JournalOK, ChainOK
      <3> QED
        BY <3>1 DEF Chained
    <2>2. CASE d \in Recorded /\ f = e
      BY <1>2, <1>5, <2>2 DEF Chained, EntryOK
    <2>3. CASE d = e
      BY <1>5, <1>6, <2>3 DEF Chained
    <2> QED
      BY <2>1, <2>2, <2>3
  <1> QED
    BY <1>4, <1>7 DEF ChainOK

(* A message, whoever says it.                                             *)
LEMMA SayKeeps ==
    ASSUME JournalOK, NEW calls \in SUBSET JournalCalls, NEW closes \in SUBSET JournalCalls,
           Say(calls, closes), asked' \subseteq JournalCalls, answered' \subseteq JournalCalls,
           asked \cup calls \subseteq asked',
           (asked \cup answered \cup calls) \ closes \subseteq asked' \cup answered'
    PROVE  JournalOK'
  <1> DEFINE m == [n |-> said + 1, calls |-> calls, closes |-> closes]
             e == [offset |-> nextOffset, type |-> "message", item |-> m]
  <1>1. said \in Nat /\ nextOffset \in Nat /\ exported \in Nat /\ disk \in Seq(LogEntry)
    BY DEF JournalOK, JournalTypes
  <1>2. m \in Said
    BY <1>1 DEF Said
  <1>3. e \in LogEntry
    BY <1>1, <1>2 DEF LogEntry
  <1>4. /\ Record("message", m)
        /\ said' = said + 1 /\ planned' = planned /\ gone' = gone
        /\ disk' = disk /\ exported' = exported
    BY DEF Say, NewMessage, Record
  <1>5. e.type = "message" /\ e.item = m /\ e.offset = nextOffset /\ m.n = said + 1 /\ m.calls = calls /\ m.closes = closes
    OBVIOUS
  <1>6. e = [offset |-> nextOffset, type |-> "message", item |-> m]
    OBVIOUS
  <1> HIDE DEF e, m
  <1>7. Told(e) = {said + 1} /\ Opens(e) = calls /\ Closes(e) = {} /\ Lists(e) = calls \ closes /\ Answers(e) = closes
    BY <1>5 DEF Told, Opens, Closes, Lists, Answers
  <1>8. /\ entries' \in Seq(LogEntry) /\ nextOffset' = nextOffset + 1 /\ nextOffset' \in Nat
        /\ Recorded' = Recorded \cup {e}
        /\ Ascending(entries') /\ nextOffset' = OffsetBehind(entries')
        /\ DiskOK'
        /\ \A n : Tells(entries', n) <=> Tells(entries, n) \/ n \in Told(e)
        /\ \A c : StillOpen(entries', Len(entries'), c) <=>
                    c \in Opens(e) \/ (c \notin Closes(e) /\ StillOpen(entries, Len(entries), c))
        /\ \A c : StillListed(entries', Len(entries'), c) <=>
                    c \in Lists(e) \/ (c \notin Answers(e) /\ StillListed(entries, Len(entries), c))
    BY <1>3, <1>4, <1>6, RecordAppends
  <1>9. JournalTypes'
    BY <1>1, <1>4, <1>8 DEF JournalOK, JournalTypes
  <1>10. ChainOK'
    <2>1. \A n \in 1..said : n < e.item.n
      BY <1>1, <1>5
    <2>2. gone \subseteq gone' /\ said' \in Nat /\ said <= said' /\ \A n \in Told(e) : n \in 1..said'
      BY <1>1, <1>4, <1>7
    <2> QED
      BY <1>3, <1>5, <1>8, <2>1, <2>2, ChainGrows
  <1>11. EntriesOK'
    <2>1. \A n \in 1..said' : n = said + 1 \/ n \in 1..said
      BY <1>1, <1>4
    <2>2. \A n \in 1..said' : n \in gone' \/ Tells(entries', n)
      BY <1>4, <1>7, <1>8, <2>1 DEF JournalOK, EntriesOK
    <2>3. \A c \in JournalCalls :
            /\ StillOpen(entries', Len(entries'), c) => c \in asked'
            /\ StillListed(entries', Len(entries'), c) => c \in asked' \cup answered'
      BY <1>7, <1>8 DEF JournalOK, EntriesOK
    <2> QED
      BY <1>8, <2>2, <2>3 DEF EntriesOK
  <1>12. PlanOK'
    <2>1. planned.until <= nextOffset
      BY DEF JournalOK, PlanOK
    <2>2. planned.until \in Int
      BY DEF JournalOK, JournalTypes, Unplanned
    <2>3. planned'.until <= nextOffset' /\ planned'.until # nextOffset'
      BY <1>1, <1>4, <1>8, <2>1, <2>2
    <2> QED
      BY <2>3 DEF PlanOK
  <1> QED
    BY <1>8, <1>9, <1>10, <1>11, <1>12 DEF JournalOK

(* The begin or the end of a call.                                         *)
LEMMA NoteKeeps ==
    ASSUME JournalOK, NEW type \in {"started", "finished"}, NEW item \in SUBSET JournalCalls,
           Record(type, item), UNCHANGED <<planned, said, gone>>,
           asked' \subseteq JournalCalls, answered' \subseteq JournalCalls,
           type = "started" => asked \cup item \subseteq asked',
           type = "finished" => asked \ item \subseteq asked',
           asked \cup answered \subseteq asked' \cup answered'
    PROVE  JournalOK'
  <1> DEFINE e == [offset |-> nextOffset, type |-> type, item |-> item]
  <1>1. said \in Nat /\ nextOffset \in Nat /\ exported \in Nat /\ disk \in Seq(LogEntry)
    BY DEF JournalOK, JournalTypes
  <1>2. e \in LogEntry
    BY <1>1 DEF LogEntry
  <1>3. said' = said /\ planned' = planned /\ gone' = gone /\ disk' = disk /\ exported' = exported
    BY DEF Record
  <1>4. e.type = type /\ e.item = item /\ e.offset = nextOffset
    OBVIOUS
  <1>5. e = [offset |-> nextOffset, type |-> type, item |-> item]
    OBVIOUS
  <1> HIDE DEF e
  <1>6. /\ e.type # "message" /\ e.type # "checkpoint"
        /\ Told(e) = {} /\ Lists(e) = {} /\ Answers(e) = {}
    BY <1>4 DEF Told, Lists, Answers
  <1>7. /\ type = "started" => Opens(e) = item /\ Closes(e) = {}
        /\ type = "finished" => Opens(e) = {} /\ Closes(e) = item
    BY <1>4 DEF Opens, Closes
  <1>8. /\ entries' \in Seq(LogEntry) /\ nextOffset' = nextOffset + 1 /\ nextOffset' \in Nat
        /\ Recorded' = Recorded \cup {e}
        /\ Ascending(entries') /\ nextOffset' = OffsetBehind(entries')
        /\ DiskOK'
        /\ \A n : Tells(entries', n) <=> Tells(entries, n) \/ n \in Told(e)
        /\ \A c : StillOpen(entries', Len(entries'), c) <=>
                    c \in Opens(e) \/ (c \notin Closes(e) /\ StillOpen(entries, Len(entries), c))
        /\ \A c : StillListed(entries', Len(entries'), c) <=>
                    c \in Lists(e) \/ (c \notin Answers(e) /\ StillListed(entries, Len(entries), c))
    BY <1>2, <1>5, RecordAppends
  <1>9. JournalTypes'
    BY <1>1, <1>3, <1>8 DEF JournalOK, JournalTypes
  <1>10. ChainOK'
    <2>1. gone \subseteq gone' /\ said' \in Nat /\ said <= said' /\ \A n \in Told(e) : n \in 1..said'
      BY <1>1, <1>3, <1>6
    <2> QED
      BY <1>2, <1>4, <1>6, <1>8, <2>1, ChainGrows
  <1>11. EntriesOK'
    <2>1. /\ \A n \in 1..said' : n \in gone' \/ Tells(entries', n)
          /\ \A n \in 1..said' : Tells(disk', n) => n \in gone' \/ Tells(entries', n)
      BY <1>3, <1>8 DEF JournalOK, EntriesOK
    <2>2. \A c \in JournalCalls : StillOpen(entries', Len(entries'), c) => c \in asked'
      BY <1>7, <1>8 DEF JournalOK, EntriesOK
    <2>3. \A c \in JournalCalls : StillListed(entries', Len(entries'), c) => c \in asked' \cup answered'
      BY <1>6, <1>8 DEF JournalOK, EntriesOK
    <2> QED
      BY <1>8, <2>1, <2>2, <2>3 DEF EntriesOK
  <1>12. PlanOK'
    <2>1. planned.until <= nextOffset
      BY DEF JournalOK, PlanOK
    <2>2. planned.until \in Int
      BY DEF JournalOK, JournalTypes, Unplanned
    <2>3. planned'.until <= nextOffset' /\ planned'.until # nextOffset'
      BY <1>1, <1>3, <1>8, <2>1, <2>2
    <2> QED
      BY <2>3 DEF PlanOK
  <1> QED
    BY <1>8, <1>9, <1>10, <1>11, <1>12 DEF JournalOK

(* A checkpoint is planned of what the prompt shows ...                    *)
LEMMA PlanKeeps ==
    ASSUME JournalOK, NEW keep \in 0..2, PlanCheckpoint(keep)
    PROVE  JournalOK'
  <1> DEFINE p == BuildPrompt(entries)
             len == Len(p.messages)
             kept == SubSeq(p.messages, len - keep + 1, len)
             drops == {m.n : m \in ToSet(p.messages)} \ {m.n : m \in ToSet(kept)}
  <1>1. entries \in Seq(LogEntry) /\ Straight(entries) /\ nextOffset \in Nat /\ said \in Nat
    BY LogsAreStraight DEF JournalOK, JournalTypes
  <1>2. PromptOK(p, entries, Len(entries))
    BY <1>1, PromptIs
  <1>3. p.messages \in Seq(Said) /\ len \in Nat /\ DOMAIN p.messages = 1..len
    BY <1>2 DEF PromptOK
  <1>4. planned' = [until |-> nextOffset, kept |-> kept, drops |-> drops] /\ keep < len
    BY DEF PlanCheckpoint
  <1>5. UNCHANGED <<entries, nextOffset, disk, exported, asked, answered, said, gone>>
    BY DEF PlanCheckpoint
  <1> HIDE DEF p
  <1>6. len - keep + 1 \in 1..(len + 1)
    BY <1>3, <1>4
  <1>7. /\ kept \in Seq(Said) /\ Len(kept) = keep
        /\ \A i \in 1..keep : kept[i] = p.messages[len - keep + i]
    <2>1. len - (len - keep + 1) + 1 = keep /\ \A i \in 1..keep : (len - keep + 1) + i - 1 = len - keep + i
      BY <1>3, <1>6
    <2>2. keep \in Nat /\ len - keep + 1 \in 1..(len + 1) /\ p.messages \in Seq(Said)
      BY <1>3, <1>6
    <2>3. /\ kept \in Seq(Said) /\ Len(kept) = len - (len - keep + 1) + 1
          /\ \A i \in 1..(len - (len - keep + 1) + 1) : kept[i] = p.messages[(len - keep + 1) + i - 1]
      BY <2>2, SubSeqProperties
    <2> HIDE DEF kept, len
    <2> QED
      BY <2>1, <2>3
  <1>8. Reopen(kept) \subseteq Reopen(p.messages)
    BY <1>3, <1>6, ReopenPart
  <1>9. \A i \in DOMAIN p.messages : p.messages[i].n \in 1..said
    <2>1. \A j \in 1..Len(entries) : \A n \in Told(entries[j]) : n \in 1..said
      <3>1. \A j \in 1..Len(entries) : entries[j] \in Recorded
        BY <1>1 DEF Recorded
      <3> QED
        BY <3>1 DEF JournalOK, ChainOK, EntryOK
    <2> QED
      BY <1>2, <2>1 DEF PromptOK
  <1>10. ToSet(kept) = {kept[i] : i \in 1..keep} /\ ToSet(p.messages) = {p.messages[i] : i \in 1..len}
    <2>1. DOMAIN kept = 1..keep
      BY <1>7
    <2> HIDE DEF kept
    <2> QED
      BY <1>3, <2>1 DEF ToSet
  <1> HIDE DEF kept
  <1>11. drops \in SUBSET Nat
    BY <1>3, <1>9, <1>10
  <1>12. DOMAIN kept = 1..keep
    BY <1>7
  <1>13. \A i \in 1..keep : len - keep + i \in 1..len
    BY <1>3, <1>4
  <1>14. Rising(kept)
    <2>1. Rising(p.messages)
      BY <1>2 DEF PromptOK
    <2>2. \A i, j \in 1..keep : i < j => len - keep + i < len - keep + j
      BY <1>3
    <2> QED
      BY <1>3, <1>7, <1>12, <1>13, <2>1, <2>2 DEF Rising
  <1>15. \A i \in DOMAIN kept : kept[i].n \in 1..said
    BY <1>3, <1>7, <1>9, <1>12, <1>13
  <1>16. Reopen(kept) \subseteq asked \cup answered
    <2>1. Reopen(p.messages) \subseteq JournalCalls
      BY <1>3, ReopenCalls
    <2>2. \A c \in JournalCalls : c \in Reopen(p.messages) => c \in asked \cup answered
      BY <1>2 DEF PromptOK, JournalOK, EntriesOK
    <2> QED
      BY <1>8, <2>1, <2>2
  <1>17. ASSUME NEW n \in 1..said, Tells(entries, n), n \notin gone
         PROVE  n \in drops \/ \E i \in DOMAIN kept : kept[i].n = n
    <2>1. Shows(p.messages, n)
      BY <1>17, ToldIsShown DEF p
    <2>2. n \in {m.n : m \in ToSet(p.messages)}
      BY <1>3, <1>10, <2>1 DEF Shows
    <2>3. n \in {m.n : m \in ToSet(kept)} => \E i \in DOMAIN kept : kept[i].n = n
      BY <1>10, <1>12
    <2> QED
      BY <2>2, <2>3
  <1> HIDE DEF drops
  <1>18. planned' \in [until : Nat, kept : Seq(Said), drops : SUBSET Nat]
    BY <1>1, <1>4, <1>7, <1>11
  <1>19. planned'.until = nextOffset /\ planned'.kept = kept /\ planned'.drops = drops
    BY <1>4
  <1>20. PlanOK'
    BY <1>1, <1>5, <1>14, <1>15, <1>16, <1>17, <1>19 DEF PlanOK
  <1>21. JournalTypes'
    BY <1>5, <1>18 DEF JournalOK, JournalTypes
  <1>22. Recorded' = Recorded
    BY <1>5 DEF Recorded
  <1>23. ChainOK'
    BY <1>5, <1>22 DEF JournalOK, ChainOK, EntryOK, Chained
  <1>24. EntriesOK' /\ DiskOK'
    BY <1>5 DEF JournalOK, EntriesOK, DiskOK
  <1> QED
    BY <1>20, <1>21, <1>23, <1>24 DEF JournalOK

(* ... and holds all of it if nothing came in between.                     *)
LEMMA CheckpointKeeps ==
    ASSUME JournalOK, RecordCheckpoint, ~hasty'
    PROVE  JournalOK'
  <1> DEFINE cp == [until |-> planned.until, kept |-> planned.kept]
             e == [offset |-> nextOffset, type |-> "checkpoint", item |-> cp]
  <1>1. said \in Nat /\ nextOffset \in Nat /\ exported \in Nat /\ disk \in Seq(LogEntry)
    BY DEF JournalOK, JournalTypes
  <1>2. planned \in [until : Nat, kept : Seq(Said), drops : SUBSET Nat]
    BY DEF JournalOK, JournalTypes, RecordCheckpoint
  <1>3. /\ Record("checkpoint", cp) /\ planned' = Unplanned /\ gone' = gone \cup planned.drops
        /\ asked' = asked /\ answered' = answered /\ said' = said
        /\ disk' = disk /\ exported' = exported
        /\ planned.until = nextOffset /\ answered = {}
    BY DEF RecordCheckpoint, Record
  <1>4. cp \in Checkpoints
    BY <1>2 DEF Checkpoints
  <1>5. e \in LogEntry
    BY <1>1, <1>4 DEF LogEntry
  <1>6. /\ e.type = "checkpoint" /\ e.item = cp /\ e.offset = nextOffset
        /\ cp.until = nextOffset /\ cp.kept = planned.kept
    BY <1>3
  <1>7. e = [offset |-> nextOffset, type |-> "checkpoint", item |-> cp]
    OBVIOUS
  <1> HIDE DEF e, cp
  <1>8. /\ Told(e) = {planned.kept[i].n : i \in DOMAIN planned.kept}
        /\ Opens(e) = Reopen(planned.kept) /\ Closes(e) = JournalCalls \ Reopen(planned.kept)
        /\ Lists(e) = Reopen(planned.kept) /\ Answers(e) = JournalCalls \ Reopen(planned.kept)
    BY <1>6 DEF Told, Opens, Closes, Lists, Answers
  <1>9. /\ Rising(planned.kept)
        /\ Reopen(planned.kept) \subseteq asked
        /\ \A i \in DOMAIN planned.kept : planned.kept[i].n \in 1..said
        /\ \A n \in 1..said : Tells(entries, n) =>
             n \in gone \cup planned.drops \/ \E i \in DOMAIN planned.kept : planned.kept[i].n = n
    BY <1>3 DEF JournalOK, PlanOK
  <1>10. /\ entries' \in Seq(LogEntry) /\ nextOffset' = nextOffset + 1 /\ nextOffset' \in Nat
         /\ Recorded' = Recorded \cup {e}
         /\ Ascending(entries') /\ nextOffset' = OffsetBehind(entries')
         /\ DiskOK'
         /\ \A n : Tells(entries', n) <=> Tells(entries, n) \/ n \in Told(e)
         /\ \A c : StillOpen(entries', Len(entries'), c) <=>
                     c \in Opens(e) \/ (c \notin Closes(e) /\ StillOpen(entries, Len(entries), c))
         /\ \A c : StillListed(entries', Len(entries'), c) <=>
                     c \in Lists(e) \/ (c \notin Answers(e) /\ StillListed(entries, Len(entries), c))
    BY <1>3, <1>5, <1>7, RecordAppends
  <1>11. JournalTypes'
    BY <1>1, <1>3, <1>10 DEF JournalOK, JournalTypes
  <1>12. ChainOK'
    <2>1. gone \subseteq gone' /\ said' \in Nat /\ said <= said' /\ \A n \in Told(e) : n \in 1..said'
      BY <1>1, <1>3, <1>8, <1>9
    <2>2. ASSUME NEW d \in Recorded, NEW n \in Told(d) PROVE n \in Told(e) \cup gone'
      <3>1. n \in 1..said
        BY <2>2 DEF JournalOK, ChainOK, EntryOK
      <3>2. Tells(entries, n) \/ n \in gone
        <4>1. Tells(entries, n) \/ Tells(disk, n)
          BY <2>2 DEF Recorded, Tells
        <4> QED
          BY <3>1, <4>1 DEF JournalOK, EntriesOK
      <3> QED
        BY <1>3, <1>8, <1>9, <3>1, <3>2
    <2>3. e.item.until = e.offset /\ Rising(e.item.kept)
      BY <1>6, <1>9
    <2>4. \A d \in Recorded : Told(d) \subseteq Told(e) \cup gone'
      BY <2>2
    <2>5. e.type # "message"
      BY <1>6
    <2> QED
      BY <1>5, <1>6, <1>10, <2>1, <2>3, <2>4, <2>5, ChainGrows
  <1>13. EntriesOK'
    <2>1. /\ \A n \in 1..said' : n \in gone' \/ Tells(entries', n)
          /\ \A n \in 1..said' : Tells(disk', n) => n \in gone' \/ Tells(entries', n)
      BY <1>3, <1>10 DEF JournalOK, EntriesOK
    <2>2. \A c \in JournalCalls :
            /\ StillOpen(entries', Len(entries'), c) => c \in asked'
            /\ StillListed(entries', Len(entries'), c) => c \in asked' \cup answered'
      BY <1>3, <1>8, <1>9, <1>10
    <2> QED
      BY <1>10, <2>1, <2>2 DEF EntriesOK
  <1>14. PlanOK'
    BY <1>3, <1>10 DEF PlanOK, Unplanned
  <1> QED
    BY <1>10, <1>11, <1>12, <1>13, <1>14 DEF JournalOK

(* The numbers of a log are those its entries tell.                        *)
LEMMA NumbersAreTold ==
    ASSUME NEW log \in Seq(LogEntry)
    PROVE  \A n : n \in Numbers(log) <=> Tells(log, n)
  <1>1. ToSet(log) = {log[i] : i \in DOMAIN log}
    BY DEF ToSet
  <1>2. ASSUME NEW n PROVE n \in Numbers(log) <=> Tells(log, n)
    <2>1. n \in Numbers(log) <=>
            \E e \in ToSet(log) : \/ e.type = "message" /\ n = e.item.n
                                  \/ e.type = "checkpoint" /\ n \in {m.n : m \in ToSet(e.item.kept)}
      BY DEF Numbers
    <2>2. ASSUME NEW e \in ToSet(log)
          PROVE  n \in Told(e) <=> \/ e.type = "message" /\ n = e.item.n
                                   \/ e.type = "checkpoint" /\ n \in {m.n : m \in ToSet(e.item.kept)}
      <3>1. n \in {m.n : m \in ToSet(e.item.kept)} <=> n \in {e.item.kept[i].n : i \in DOMAIN e.item.kept}
        BY DEF ToSet
      <3> QED
        BY <3>1 DEF Told
    <2> QED
      BY <1>1, <2>1, <2>2 DEF Tells
  <1> QED
    BY <1>2

(* What is snipped was given up.                                           *)
LEMMA SnipKeeps ==
    ASSUME JournalOK, NEW x \in 1..nextOffset, Snip(x), ~hasty'
    PROVE  JournalOK'
  <1> DEFINE t == EntriesSince(x)
  <1>1. /\ entries \in Seq(LogEntry) /\ disk \in Seq(LogEntry) /\ nextOffset \in Nat /\ said \in Nat
        /\ Ascending(entries) /\ DOMAIN entries = 1..Len(entries)
    BY DEF JournalOK, JournalTypes, EntriesOK
  <1>2. PICK k : Part(t, entries, k) /\ \A i \in DOMAIN entries : entries[i].offset >= x <=> k <= i
    <2>1. x \in Nat
      BY <1>1
    <2> QED
      BY <1>1, <2>1, SinceIsPart
  <1>3. /\ entries' = t /\ nextOffset' = OffsetBehind(t) /\ t # <<>>
        /\ gone' = gone \cup (Numbers(entries) \ Numbers(t))
        /\ UNCHANGED <<disk, exported, planned, asked, answered, said>>
    BY DEF Snip, hostVars
  <1> HIDE DEF t
  <1>4. /\ Ascending(t)
        /\ \A i \in DOMAIN t : k + i - 1 \in DOMAIN entries /\ t[i] = entries[k + i - 1]
        /\ \A c : StillOpen(t, Len(t), c) => StillOpen(entries, Len(entries), c)
        /\ \A c : StillListed(t, Len(t), c) => StillListed(entries, Len(entries), c)
        /\ Last(t) = Last(entries) /\ entries # <<>>
    BY <1>1, <1>2, <1>3, PartTells
  <1>5. t \in Seq(LogEntry)
    BY <1>2 DEF Part
  <1>6. nextOffset' = nextOffset
    BY <1>3, <1>4 DEF JournalOK, EntriesOK, OffsetBehind
  <1>7. \A n : Tells(entries, n) <=> n \in Numbers(entries)
    BY <1>1, NumbersAreTold
  <1>8. \A n : Tells(t, n) <=> n \in Numbers(t)
    BY <1>5, NumbersAreTold
  <1>9. ASSUME NEW n, Tells(entries, n), n \notin gone' PROVE Tells(t, n)
    BY <1>3, <1>7, <1>8, <1>9
  <1>10. Numbers(entries) \subseteq Nat
    <2>1. \A e \in Recorded : \A n \in Told(e) : n \in Nat
      BY DEF JournalOK, ChainOK, EntryOK
    <2>2. \A n : Tells(entries, n) => n \in Nat
      BY <2>1 DEF Tells, Recorded
    <2> QED
      BY <1>7, <2>2
  <1>11. JournalTypes'
    BY <1>1, <1>3, <1>5, <1>6 DEF JournalOK, JournalTypes
  <1>12. Recorded' \subseteq Recorded
    BY <1>3, <1>4 DEF Recorded
  <1>13. ChainOK'
    <2>1. gone \subseteq gone'
      BY <1>3
    <2> QED
      BY <1>3, <1>6, <1>12, <2>1 DEF JournalOK, ChainOK, EntryOK, Chained
  <1>14. EntriesOK'
    <2>1. /\ \A n \in 1..said : n \in gone' \/ Tells(t, n)
          /\ \A n \in 1..said : Tells(disk, n) => n \in gone' \/ Tells(t, n)
      BY <1>3, <1>9 DEF JournalOK, EntriesOK
    <2>2. \A c \in JournalCalls :
            /\ StillOpen(t, Len(t), c) => c \in asked
            /\ StillListed(t, Len(t), c) => c \in asked \cup answered
      BY <1>4 DEF JournalOK, EntriesOK
    <2> QED
      BY <1>3, <1>4, <2>1, <2>2 DEF EntriesOK
  <1>15. DiskOK'
    BY <1>3, <1>4, <1>6 DEF JournalOK, DiskOK
  <1>16. PlanOK'
    <2>1. \A n : Tells(t, n) => Tells(entries, n)
      BY <1>1, <1>2, PartTells
    <2> QED
      BY <1>3, <1>6, <2>1 DEF JournalOK, PlanOK
  <1> QED
    BY <1>11, <1>13, <1>14, <1>15, <1>16 DEF JournalOK

(* An export takes each entry it has not taken yet.                        *)
LEMMA ExportKeeps ==
    ASSUME JournalOK, Export
    PROVE  JournalOK'
  <1> DEFINE t == EntriesSince(exported)
             n == Len(disk)
  <1>1. /\ entries \in Seq(LogEntry) /\ disk \in Seq(LogEntry) /\ nextOffset \in Nat /\ exported \in Nat
        /\ Ascending(entries) /\ DOMAIN entries = 1..Len(entries) /\ Len(entries) \in Nat
        /\ DOMAIN disk = 1..n /\ n \in Nat
    BY DEF JournalOK, JournalTypes, EntriesOK
  <1>2. PICK k : Part(t, entries, k) /\ \A i \in DOMAIN entries : entries[i].offset >= exported <=> k <= i
    BY <1>1, SinceIsPart
  <1>3. /\ disk' = disk \o t /\ exported' = nextOffset
        /\ UNCHANGED <<entries, nextOffset, planned, asked, answered, said, gone>>
    BY DEF Export, hostVars
  <1> HIDE DEF t
  <1>4. /\ Ascending(t)
        /\ \A i \in DOMAIN t : k + i - 1 \in DOMAIN entries /\ t[i] = entries[k + i - 1]
    BY <1>1, <1>2, PartTells
  <1>5. t \in Seq(LogEntry) /\ Len(t) = Len(entries) - k + 1 /\ k \in 1..(Len(entries) + 1)
    BY <1>2 DEF Part
  <1>6. Len(t) \in Nat /\ DOMAIN t = 1..Len(t) /\ k \in Nat
    BY <1>1, <1>5
  <1>7. /\ disk' \in Seq(LogEntry) /\ Len(disk') = n + Len(t) /\ DOMAIN disk' = 1..(n + Len(t))
        /\ \A i \in 1..n : disk'[i] = disk[i]
        /\ \A i \in 1..Len(t) : disk'[n + i] = t[i]
    <2>1. disk \o t \in Seq(LogEntry) /\ Len(disk \o t) = n + Len(t)
      BY <1>1, <1>5
    <2>2. \A i \in 1..n : (disk \o t)[i] = disk[i]
      BY <1>1, <1>5
    <2>3. \A i \in 1..Len(t) : (disk \o t)[n + i] = t[i]
      BY <1>1, <1>5
    <2> QED
      BY <1>3, <2>1, <2>2, <2>3
  <1>8. \A i \in 1..(n + Len(t)) : i \in 1..n \/ (i - n \in 1..Len(t) /\ disk'[i] = t[i - n])
    <2>1. ASSUME NEW i \in 1..(n + Len(t)), i \notin 1..n PROVE i - n \in 1..Len(t) /\ disk'[i] = t[i - n]
      <3>1. i - n \in 1..Len(t) /\ n + (i - n) = i
        BY <1>1, <1>6, <2>1
      <3> QED
        BY <1>7, <3>1
    <2> QED
      BY <2>1
  <1>9. \A i \in 1..n : i \in 1..(n + Len(t))
    BY <1>1, <1>6
  <1>10. \A i \in 1..Len(t) : t[i].offset >= exported /\ t[i].offset < nextOffset /\ t[i].offset \in Nat
    <2>1. ASSUME NEW i \in 1..Len(t) PROVE t[i].offset >= exported /\ t[i].offset < nextOffset /\ t[i].offset \in Nat
      <3>1. k + i - 1 \in DOMAIN entries /\ k <= k + i - 1 /\ t[i] = entries[k + i - 1]
        BY <1>4, <1>6
      <3>2. entries[k + i - 1] \in Recorded
        BY <3>1 DEF Recorded
      <3>3. entries[k + i - 1].offset \in Nat
        BY <1>1, <3>1, EntryKinds
      <3> QED
        BY <1>2, <3>1, <3>2, <3>3 DEF JournalOK, ChainOK, EntryOK
    <2> QED
      BY <2>1
  <1>11. \A i \in 1..n : disk[i].offset < exported /\ disk[i].offset < nextOffset /\ disk[i].offset \in Nat
    <2>1. \A i \in 1..n : disk[i] \in Recorded /\ disk[i].offset \in Nat
      BY <1>1, EntryKinds DEF Recorded
    <2> QED
      BY <1>1, <2>1 DEF JournalOK, DiskOK, ChainOK, EntryOK
  <1>12. Ascending(disk')
    <2>1. ASSUME NEW i \in 1..(n + Len(t)), NEW j \in 1..(n + Len(t)), i < j
          PROVE  disk'[i].offset < disk'[j].offset
      <3>1. CASE i \in 1..n /\ j \in 1..n
        BY <1>1, <1>7, <2>1, <3>1 DEF JournalOK, DiskOK, Ascending
      <3>2. CASE i \in 1..n /\ j \notin 1..n
        <4>1. j - n \in 1..Len(t) /\ disk'[j] = t[j - n] /\ disk'[i] = disk[i]
          BY <1>7, <1>8, <3>2
        <4> QED
          BY <1>1, <1>10, <1>11, <3>2, <4>1
      <3>3. CASE i \notin 1..n
        <4>1. j \notin 1..n
          BY <1>1, <2>1, <3>3
        <4>2. i - n \in 1..Len(t) /\ j - n \in 1..Len(t) /\ i - n < j - n
          BY <1>1, <1>8, <2>1, <3>3, <4>1
        <4>3. disk'[i] = t[i - n] /\ disk'[j] = t[j - n]
          BY <1>8, <3>3, <4>1
        <4> QED
          BY <1>4, <1>6, <4>2, <4>3 DEF Ascending
      <3> QED
        BY <3>1, <3>2, <3>3
    <2> QED
      BY <1>7, <2>1 DEF Ascending
  <1>13. \A i \in 1..(n + Len(t)) : disk'[i].offset < nextOffset
    BY <1>7, <1>8, <1>10, <1>11
  <1>14. ASSUME NEW i \in DOMAIN entries PROVE entries[i].offset < nextOffset => \E j \in 1..(n + Len(t)) : disk'[j] = entries[i]
    <2>1. CASE entries[i].offset < exported
      BY <1>1, <1>7, <1>9, <2>1 DEF JournalOK, DiskOK
    <2>2. CASE entries[i].offset >= exported
      <3>1. k <= i
        BY <1>2, <2>2
      <3>2. i - k + 1 \in 1..Len(t) /\ k + (i - k + 1) - 1 = i
        BY <1>1, <1>5, <1>6, <3>1
      <3>3. t[i - k + 1] = entries[i]
        BY <1>4, <1>6, <3>2
      <3>4. n + (i - k + 1) \in 1..(n + Len(t)) /\ disk'[n + (i - k + 1)] = t[i - k + 1]
        BY <1>1, <1>6, <1>7, <3>2
      <3> QED
        BY <3>3, <3>4
    <2>3. entries[i].offset \in Nat
      BY <1>1, EntryKinds
    <2> QED
      BY <1>1, <2>1, <2>2, <2>3
  <1>15. DiskOK'
    <2>1. Ascending(disk') /\ exported' <= nextOffset' /\ \A i \in DOMAIN disk' : disk'[i].offset < exported'
      BY <1>1, <1>3, <1>7, <1>12, <1>13
    <2>2. \A i \in DOMAIN entries' : entries'[i].offset < exported' => \E j \in DOMAIN disk' : disk'[j] = entries'[i]
      BY <1>3, <1>7, <1>14
    <2> QED
      BY <2>1, <2>2 DEF DiskOK
  <1>16. Recorded' \subseteq Recorded
    <2>1. \A i \in 1..(n + Len(t)) : disk'[i] \in Recorded
      BY <1>1, <1>4, <1>6, <1>7, <1>8 DEF Recorded
    <2>2. \A i \in DOMAIN entries : entries[i] \in Recorded
      BY DEF Recorded
    <2>3. Recorded' = {entries[i] : i \in DOMAIN entries} \cup {disk'[i] : i \in 1..(n + Len(t))}
      BY <1>3, <1>7 DEF Recorded
    <2> QED
      BY <2>1, <2>2, <2>3
  <1>17. ChainOK'
    BY <1>3, <1>16 DEF JournalOK, ChainOK, EntryOK, Chained
  <1>18. EntriesOK'
    <2>1. ASSUME NEW x, Tells(disk', x) PROVE Tells(disk, x) \/ Tells(entries, x)
      BY <1>1, <1>4, <1>6, <1>7, <1>8, <2>1 DEF Tells
    <2>2. \A x \in 1..said' : Tells(disk', x) => x \in gone' \/ Tells(entries', x)
      BY <1>3, <2>1 DEF JournalOK, EntriesOK
    <2> QED
      BY <1>3, <2>2 DEF JournalOK, EntriesOK
  <1>19. JournalTypes' /\ PlanOK'
    BY <1>1, <1>3, <1>7 DEF JournalOK, JournalTypes, PlanOK
  <1> QED
    BY <1>15, <1>17, <1>18, <1>19 DEF JournalOK

(* A restart goes on with what was exported.                               *)
LEMMA RestartKeeps ==
    ASSUME JournalOK, Restart
    PROVE  JournalOK'
  <1> DEFINE p == BuildPrompt(disk)
  <1>1. /\ disk \in Seq(LogEntry) /\ Straight(disk) /\ Ascending(disk) /\ said \in Nat
        /\ DOMAIN disk = 1..Len(disk) /\ Len(disk) \in Nat
    BY LogsAreStraight DEF JournalOK, JournalTypes, DiskOK
  <1>2. PromptOK(p, disk, Len(disk))
    BY <1>1, PromptIs
  <1>3. /\ entries' = disk /\ nextOffset' = OffsetBehind(disk) /\ exported' = OffsetBehind(disk)
        /\ gone' = gone \cup (1..said \ Numbers(disk)) /\ planned' = Unplanned
        /\ asked' = p.open /\ answered' = Reopen(p.messages) \ p.open
        /\ UNCHANGED <<disk, said>>
    BY DEF Restart
  <1> HIDE DEF p
  <1>4. p.open \subseteq JournalCalls /\ Reopen(p.messages) \subseteq JournalCalls
    BY <1>2, ReopenCalls DEF PromptOK
  <1>5. \A i \in 1..Len(disk) : disk[i].offset \in Nat
    BY <1>1, EntryKinds
  <1>6. OffsetBehind(disk) \in Nat /\ \A i \in 1..Len(disk) : disk[i].offset < OffsetBehind(disk)
    <2>1. CASE disk = <<>>
      BY <1>1, <2>1 DEF OffsetBehind
    <2>2. CASE disk # <<>>
      <3>1. Len(disk) \in 1..Len(disk) /\ OffsetBehind(disk) = disk[Len(disk)].offset + 1
        BY <1>1, <2>2 DEF OffsetBehind, Last
      <3>2. \A i \in 1..Len(disk) : i = Len(disk) \/ i < Len(disk)
        <4>1. Len(disk) \in Nat
          BY <1>1
        <4> QED
          BY <4>1
      <3>3. \A i \in 1..Len(disk) : i = Len(disk) \/ disk[i].offset < disk[Len(disk)].offset
        BY <1>1, <3>1, <3>2 DEF Ascending
      <3> QED
        BY <1>5, <3>1, <3>3
    <2> QED
      BY <2>1, <2>2
  <1>7. JournalTypes'
    BY <1>1, <1>3, <1>4, <1>6 DEF JournalOK, JournalTypes
  <1>8. Recorded' = {disk[i] : i \in 1..Len(disk)} /\ Recorded' \subseteq Recorded
    BY <1>1, <1>3 DEF Recorded
  <1>9. ChainOK'
    <2>1. gone \subseteq gone'
      BY <1>3
    <2>2. \A e \in Recorded' : EntryOK(e)'
      BY <1>3, <1>6, <1>8 DEF JournalOK, ChainOK, EntryOK
    <2> QED
      BY <1>8, <2>1, <2>2 DEF JournalOK, ChainOK, Chained
  <1>10. EntriesOK'
    <2>1. \A n \in 1..said : n \in gone' \/ Tells(disk, n)
      BY <1>1, <1>3, NumbersAreTold
    <2>2. \A c \in JournalCalls :
            /\ StillOpen(disk, Len(disk), c) => c \in asked'
            /\ StillListed(disk, Len(disk), c) => c \in asked' \cup answered'
      BY <1>2, <1>3 DEF PromptOK
    <2> QED
      BY <1>1, <1>3, <2>1, <2>2 DEF EntriesOK
  <1>11. DiskOK'
    BY <1>1, <1>3, <1>6 DEF DiskOK
  <1>12. PlanOK'
    BY <1>3, <1>6 DEF PlanOK, Unplanned
  <1> QED
    BY <1>7, <1>9, <1>10, <1>11, <1>12 DEF JournalOK

\* An empty journal has the invariant, and every step keeps it.
LEMMA JournalFirst == JournalInit => JournalInv
  <1> SUFFICES ASSUME JournalInit PROVE JournalOK
    BY DEF JournalInv
  <1>1. <<>> \in Seq(LogEntry) /\ DOMAIN <<>> = {} /\ Len(<<>>) = 0
    OBVIOUS
  <1>2. JournalTypes
    BY <1>1 DEF JournalInit, JournalTypes
  <1>3. Recorded = {}
    BY <1>1 DEF JournalInit, Recorded
  <1>4. ChainOK
    BY <1>3 DEF ChainOK
  <1>5. EntriesOK
    BY <1>1 DEF JournalInit, EntriesOK, Ascending, OffsetBehind, StillOpen, StillListed
  <1>6. DiskOK
    BY <1>1 DEF JournalInit, DiskOK, Ascending
  <1>7. PlanOK
    BY DEF JournalInit, PlanOK, Unplanned
  <1> QED
    BY <1>2, <1>4, <1>5, <1>6, <1>7 DEF JournalOK

LEMMA JournalStep == JournalInv /\ [JournalNext]_journalVars => JournalInv'
  <1> SUFFICES ASSUME JournalInv, [JournalNext]_journalVars, ~hasty' PROVE JournalOK'
    BY DEF JournalInv
  <1>1. CASE UNCHANGED journalVars
    <2>1. UNCHANGED <<entries, nextOffset, disk, exported, planned, asked, answered, said, gone, hasty>>
      BY <1>1 DEF journalVars, hostVars
    <2>2. JournalOK
      BY <2>1 DEF JournalInv
    <2>3. Recorded' = Recorded
      BY <2>1 DEF Recorded
    <2> QED
      BY <2>1, <2>2, <2>3 DEF JournalOK, JournalTypes, ChainOK, EntryOK, Chained, EntriesOK, DiskOK, PlanOK
  <1>2. CASE JournalNext
    <2>1. JournalOK /\ asked \subseteq JournalCalls /\ answered \subseteq JournalCalls
      BY <1>2 DEF JournalNext, JournalInv, JournalOK, JournalTypes
    <2>2. CASE Hear
      <3>1. Say({}, {}) /\ asked' = asked /\ answered' = answered
        BY <2>2 DEF Hear
      <3> QED
        BY <2>1, <3>1, SayKeeps
    <2>3. ASSUME NEW c \in JournalCalls, AskFor(c) PROVE JournalOK'
      <3>1. Say({c}, {}) /\ asked = {} /\ answered = {} /\ asked' = {c} /\ answered' = answered
        BY <2>3 DEF AskFor
      <3> QED
        BY <2>1, <3>1, SayKeeps
    <2>4. ASSUME NEW c \in JournalCalls, StartCall(c) PROVE JournalOK'
      <3>1. Record("started", {c}) /\ c \in asked /\ UNCHANGED <<planned, said, gone>> /\ asked' = asked /\ answered' = answered
        BY <2>4 DEF StartCall, hostVars
      <3> QED
        BY <2>1, <3>1, NoteKeeps
    <2>5. ASSUME NEW c \in JournalCalls, FinishCall(c) PROVE JournalOK'
      <3>1. /\ Record("finished", {c}) /\ c \in asked /\ UNCHANGED <<planned, said, gone>>
            /\ asked' = asked \ {c} /\ answered' = answered \cup {c}
        BY <2>5 DEF FinishCall
      <3> QED
        BY <2>1, <3>1, NoteKeeps
    <2>6. ASSUME NEW c \in JournalCalls, SayAnswer(c) PROVE JournalOK'
      <3>1. Say({}, {c}) /\ answered' = answered \ {c} /\ asked' = asked
        BY <2>6 DEF SayAnswer
      <3> QED
        BY <2>1, <3>1, SayKeeps
    <2>7. ASSUME NEW keep \in 0..2, PlanCheckpoint(keep) PROVE JournalOK'
      BY <2>1, <2>7, PlanKeeps
    <2>8. CASE RecordCheckpoint
      BY <2>1, <2>8, CheckpointKeeps
    <2>9. ASSUME NEW x \in 1..nextOffset, Snip(x) PROVE JournalOK'
      BY <2>1, <2>9, SnipKeeps
    <2>10. CASE Export
      BY <2>1, <2>10, ExportKeeps
    <2>11. CASE Restart
      BY <2>1, <2>11, RestartKeeps
    <2> QED
      BY <1>2, <2>2, <2>3, <2>4, <2>5, <2>6, <2>7, <2>8, <2>9, <2>10, <2>11 DEF JournalNext
  <1> QED
    BY <1>1, <1>2

(* Whatever is recorded, compacted, snipped, exported and restored: what   *)
(* was said and not given up is in the prompt, in order and once, the      *)
(* calls it lists as open are owed a result, and the export has each       *)
(* entry once (Journal, build_prompt and from_entries of behest-core).     *)
THEOREM JournalIsKept == JournalSpec => []JournalKeepsLog
  <1>1. JournalInv => JournalKeepsLog
    <2> SUFFICES ASSUME JournalOK, ~hasty
                 PROVE  JournalKeepsLog
      BY DEF JournalInv, JournalKeepsLog
    <2> DEFINE p == BuildPrompt(entries)
               numbers == [i \in DOMAIN p.messages |-> p.messages[i].n]
    <2>1. entries \in Seq(LogEntry) /\ Straight(entries)
      BY LogsAreStraight DEF JournalOK, JournalTypes
    <2>2. PromptOK(p, entries, Len(entries))
      BY <2>1, PromptIs
    <2>3. \A n : Shows(p.messages, n) => n \in ToSet(numbers)
      BY DEF Shows, ToSet
    <2>4. 1..said \ gone \subseteq ToSet(numbers)
      <3>1. ASSUME NEW n \in 1..said, n \notin gone PROVE n \in ToSet(numbers)
        <4>1. Tells(entries, n)
          BY <3>1 DEF JournalOK, EntriesOK
        <4>2. Shows(p.messages, n)
          BY <3>1, <4>1, ToldIsShown
        <4> QED
          BY <2>3, <4>2
      <3> QED
        BY <3>1
    <2>5. \A i, j \in DOMAIN numbers : i < j => numbers[i] < numbers[j]
      BY <2>2 DEF PromptOK, Rising
    <2>6. p.open \subseteq asked
      BY <2>2 DEF PromptOK, JournalOK, EntriesOK
    <2>7. \A e \in ToSet(entries) : e.offset < exported => e \in ToSet(disk)
      BY DEF JournalOK, DiskOK, ToSet
    <2>8. \A i, j \in DOMAIN disk : i < j => disk[i].offset < disk[j].offset
      BY DEF JournalOK, DiskOK, Ascending
    <2> QED
      BY <2>4, <2>5, <2>6, <2>7, <2>8 DEF JournalKeepsLog
  <1> QED
    BY <1>1, JournalFirst, JournalStep, PTL DEF JournalSpec

-----------------------------------------------------------------------------
(* A session's history. *)
HistorySpec == HistoryInit /\ [][HistoryNext]_historyVars

HistoryRecord ==
    [role : {"user", "assistant", "tool"}, kind : {"plain", "compaction", "summary"},
     size : Nat, calls : Nat, tail : Nat, covers : SUBSET Nat]
HistoryTypes ==
    /\ history \in Seq(HistoryRecord)
    /\ stage \in {"idle", "build", "call", "tools", "summary"}
    /\ chosen \in [head : SUBSET Nat, start : Nat]
    /\ whole \in BOOLEAN

Input(h, i) == h[i].kind = "plain" /\ h[i].role = "user"
Asking(h, i) == h[i].kind = "plain" /\ h[i].role \in {"assistant", "tool"}

\* A history begins with an input, a summary follows its compaction at once, and
\* tool messages follow one another back to an answer of the model.
RecordsOK(h) ==
    /\ h # <<>> => Input(h, 1)
    /\ \A i \in 1..Len(h) :
         /\ h[i].kind = "summary" => i > 1 /\ h[i - 1].kind = "compaction"
         /\ h[i].role = "tool" => h[i].kind = "plain" /\ i > 1 /\ Asking(h, i - 1)

StageOK ==
    /\ stage # "idle" => history # <<>>
    /\ stage = "build" => Plain(Len(history))
    /\ stage = "call" => history[Len(history)].kind # "compaction"
    /\ stage = "tools" => Asking(history, Len(history))
    /\ stage = "summary" => history[Len(history)].kind = "compaction"

\* What is kept of n messages begins with an input, and only a setting of no
\* turns at all keeps nothing.
CutOK(h, n, start) == IF start = 0 THEN TailTurns = 0 ELSE start \in 1..n /\ Input(h, start)
Cut(n, start) == {i \in 1..n : start = 0 \/ i < start}
Past(i) == Tokens(1..(i - 1)) > PromptLimit

CutsOK ==
    \A s \in Pairs :
        /\ CutOK(history, s - 2, history[s - 1].tail)
        /\ \A i \in Cut(s - 2, history[s - 1].tail) : i \in history[s].covers \/ Past(i)
ChosenOK ==
    stage = "summary" =>
        /\ history[Len(history)].tail = chosen.start
        /\ CutOK(history, Len(history) - 1, chosen.start)
        /\ chosen.head = Cut(Len(history) - 1, chosen.start)

HistoryInv == HistoryTypes /\ RecordsOK(history) /\ StageOK /\ (whole => CutsOK /\ ChosenOK)

-----------------------------------------------------------------------------
(* What the loops of a selection and of a request compute.                  *)
\* What the fields of a record are.
LEMMA RecordFields ==
    ASSUME NEW h \in Seq(HistoryRecord), NEW i \in 1..Len(h)
    PROVE  /\ h[i] \in HistoryRecord /\ h[i].size \in Nat /\ h[i].tail \in Nat /\ h[i].covers \in SUBSET Nat
           /\ h[i].kind \in {"plain", "compaction", "summary"}
           /\ h[i].role \in {"user", "assistant", "tool"}
  <1>1. h[i] \in HistoryRecord
    OBVIOUS
  <1> QED
    BY <1>1 DEF HistoryRecord

TokensIn(h, positions) ==
    LET sum[i \in 0..Len(h)] ==
            IF i = 0 THEN 0 ELSE sum[i - 1] + (IF i \in positions THEN h[i].size ELSE 0)
    IN  sum[Len(h)]
Sums(f, h, S) ==
    /\ f \in [0..Len(h) -> Nat] /\ f[0] = 0
    /\ \A i \in 1..Len(h) : f[i] = f[i - 1] + (IF i \in S THEN h[i].size ELSE 0)

\* Tokens adds up the sizes of the messages ...
LEMMA TokensAre ==
    ASSUME NEW h \in Seq(HistoryRecord), NEW S
    PROVE  \E f : Sums(f, h, S) /\ TokensIn(h, S) = f[Len(h)]
  <1> DEFINE n == Len(h)
             more(i) == IF i \in S THEN h[i].size ELSE 0
             Next(f) == [i \in 0..n |-> IF i = 0 THEN 0 ELSE f[i - 1] + more(i)]
             step == [i \in 1..n |-> [v \in Nat |-> v + more(i)]]
             w == CHOOSE f : f = Next(f)
  <1>1. n \in Nat /\ \A i \in 1..n : more(i) \in Nat
    BY RecordFields
  <1>2. TokensIn(h, S) = w[n]
    BY DEF TokensIn
  <1>3. \A i \in 0..n : i = 0 \/ (i \in 1..n /\ i # 0)
    BY <1>1
  <1>4. \A i \in 1..n : i \in 0..n /\ i # 0 /\ i - 1 \in 0..n
    BY <1>1
  <1> HIDE DEF n, more
  <1>5. \E f : f = Next(f)
    <2>1. step \in [1..n -> [Nat -> Nat]]
      BY <1>1
    <2>2. \A i \in 1..n : \A v \in Nat : step[i][v] = v + more(i)
      OBVIOUS
    <2> HIDE DEF step
    <2>3. PICK f : Iterates(f, n, Nat, 0, step)
      BY <1>1, <2>1, IteratesExist
    <2>4. f \in [0..n -> Nat] /\ f[0] = 0 /\ \A i \in 1..n : f[i] = step[i][f[i - 1]]
      BY <2>3 DEF Iterates
    <2>5. \A i \in 1..n : f[i - 1] \in Nat
      BY <1>4, <2>4
    <2>6. \A i \in 1..n : f[i] = f[i - 1] + more(i)
      BY <2>2, <2>4, <2>5
    <2>7. f = Next(f)
      BY <1>3, <2>4, <2>6
    <2> QED
      BY <2>7
  <1>6. w = Next(w)
    BY <1>5
  <1> HIDE DEF w
  <1>7. w[0] = 0 /\ \A i \in 1..n : w[i] = w[i - 1] + more(i)
    <2>1. 0 \in 0..n
      BY <1>1
    <2> QED
      BY <1>4, <1>6, <2>1
  <1>8. w \in [0..n -> Nat]
    <2> DEFINE G == {i \in 0..n : w[i] \in Nat}
    <2>1. 0 \in G
      BY <1>1, <1>7
    <2>2. ASSUME NEW i \in 1..n, i - 1 \in G PROVE i \in G
      BY <1>1, <1>4, <1>7, <2>2
    <2> HIDE DEF G
    <2>3. 0..n \subseteq G
      BY <1>1, <2>1, <2>2, Climb
    <2>4. \A i \in 0..n : w[i] \in Nat
      BY <2>3 DEF G
    <2>5. w = [i \in 0..n |-> w[i]]
      BY <1>6
    <2> QED
      BY <2>4, <2>5
  <1>9. Sums(w, h, S)
    BY <1>7, <1>8 DEF Sums, n, more
  <1> QED
    BY <1>2, <1>9 DEF n

\* What is appended does not count for the messages before it.
LEMMA TokensStay ==
    ASSUME NEW h \in Seq(HistoryRecord), NEW r \in HistoryRecord, NEW S \in SUBSET (1..Len(h))
    PROVE  TokensIn(Append(h, r), S) = TokensIn(h, S)
  <1> DEFINE k == Append(h, r)
             n == Len(h)
  <1>1. n \in Nat /\ k \in Seq(HistoryRecord) /\ Len(k) = n + 1 /\ \A i \in 1..n : k[i] = h[i]
    BY AppendProperties
  <1> HIDE DEF k
  <1>2. PICK f : Sums(f, h, S) /\ TokensIn(h, S) = f[n]
    BY TokensAre
  <1>3. PICK g : Sums(g, k, S) /\ TokensIn(k, S) = g[n + 1]
    BY <1>1, TokensAre
  <1>4. f[0] = 0 /\ g[0] = 0 /\ \A i \in 1..n : f[i] = f[i - 1] + (IF i \in S THEN h[i].size ELSE 0)
    BY <1>2, <1>3 DEF Sums
  <1>5. \A i \in 1..(n + 1) : g[i] = g[i - 1] + (IF i \in S THEN k[i].size ELSE 0)
    BY <1>1, <1>3 DEF Sums
  <1> DEFINE G == {i \in 0..n : g[i] = f[i]}
  <1>6. 0 \in G
    BY <1>1, <1>4
  <1>7. ASSUME NEW i \in 1..n, i - 1 \in G PROVE i \in G
    <2>1. i \in 0..n /\ i \in 1..(n + 1) /\ g[i - 1] = f[i - 1]
      BY <1>1, <1>7
    <2> QED
      BY <1>1, <1>4, <1>5, <2>1
  <1> HIDE DEF G
  <1>8. 0..n \subseteq G
    BY <1>1, <1>6, <1>7, Climb
  <1>9. g[n] = f[n]
    <2>1. n \in 0..n
      BY <1>1
    <2> QED
      BY <1>8, <2>1 DEF G
  <1>10. g[n + 1] = g[n]
    <2>1. n + 1 \in 1..(n + 1) /\ n + 1 \notin S /\ (n + 1) - 1 = n
      BY <1>1
    <2>2. g[n] \in Nat
      BY <1>1, <1>3 DEF Sums
    <2>3. g[n + 1] = g[(n + 1) - 1] + 0
      BY <1>5, <2>1
    <2> QED
      BY <2>1, <2>2, <2>3
  <1> QED
    BY <1>2, <1>3, <1>9, <1>10 DEF k

\* ... to a number.
LEMMA TokensTyped ==
    ASSUME NEW h \in Seq(HistoryRecord), NEW S
    PROVE  TokensIn(h, S) \in Nat
  <1>1. PICK f : Sums(f, h, S) /\ TokensIn(h, S) = f[Len(h)]
    BY TokensAre
  <1>2. Len(h) \in 0..Len(h)
    OBVIOUS
  <1> QED
    BY <1>1, <1>2 DEF Sums

\* The list of a set of positions, in order.
InOrderOf(l, S) == l \in Seq(Nat) /\ ToSet(l) = S /\ \A i, j \in 1..Len(l) : i < j => l[i] < l[j]

\* Two lists, the second behind the first.
LEMMA InOrderJoined ==
    ASSUME NEW k, NEW l, NEW S, NEW T, InOrderOf(k, S), InOrderOf(l, T), \A x \in S : \A y \in T : x < y
    PROVE  InOrderOf(k \o l, S \cup T)
  <1> DEFINE m == k \o l
             a == Len(k)
             b == Len(l)
  <1>1. k \in Seq(Nat) /\ l \in Seq(Nat) /\ a \in Nat /\ b \in Nat
    BY DEF InOrderOf
  <1>2. /\ m \in Seq(Nat) /\ Len(m) = a + b
        /\ \A i \in 1..(a + b) : m[i] = IF i <= a THEN k[i] ELSE l[i - a]
    BY <1>1, ConcatProperties
  <1>3. /\ \A i \in 1..a : i \in 1..(a + b) /\ m[i] = k[i] /\ k[i] \in Nat
        /\ \A i \in 1..b : a + i \in 1..(a + b) /\ m[a + i] = l[i] /\ l[i] \in Nat
        /\ \A i \in 1..(a + b) : i \in 1..a \/ (i - a \in 1..b /\ a + (i - a) = i /\ i \in Nat)
    <2>1. \A i \in 1..a : i \in 1..(a + b) /\ i <= a
      BY <1>1
    <2>2. \A i \in 1..b : a + i \in 1..(a + b) /\ ~(a + i <= a) /\ (a + i) - a = i
      BY <1>1
    <2>3. \A i \in 1..(a + b) : i \in 1..a \/ (i - a \in 1..b /\ a + (i - a) = i /\ i \in Nat)
      BY <1>1
    <2>4. (\A i \in 1..a : k[i] \in Nat) /\ (\A i \in 1..b : l[i] \in Nat)
      BY <1>1
    <2> QED
      BY <1>2, <2>1, <2>2, <2>3, <2>4
  <1>4. DOMAIN k = 1..a /\ DOMAIN l = 1..b /\ DOMAIN m = 1..(a + b)
    BY <1>1, <1>2
  <1>5. (\A i \in 1..a : k[i] \in S) /\ (\A i \in 1..b : l[i] \in T)
    BY <1>4 DEF InOrderOf, ToSet
  <1>6. (\A x \in S : \E i \in 1..a : x = k[i]) /\ (\A x \in T : \E i \in 1..b : x = l[i])
    BY <1>4 DEF InOrderOf, ToSet
  <1>7. /\ \A i, j \in 1..a : i < j => k[i] < k[j]
        /\ \A i, j \in 1..b : i < j => l[i] < l[j]
    BY DEF InOrderOf
  <1> HIDE DEF m, a, b
  <1>8. ToSet(m) = S \cup T
    <2>1. ASSUME NEW x \in ToSet(m) PROVE x \in S \cup T
      <3>1. PICK i \in 1..(a + b) : x = m[i]
        BY <1>4, <2>1 DEF ToSet
      <3>2. CASE i \in 1..a
        BY <1>3, <1>5, <3>1, <3>2
      <3>3. CASE i - a \in 1..b /\ a + (i - a) = i
        <4>1. m[i] = l[i - a]
          BY <1>3, <3>3
        <4> QED
          BY <1>5, <3>1, <3>3, <4>1
      <3> QED
        BY <1>3, <3>2, <3>3
    <2>2. ASSUME NEW x \in S PROVE x \in ToSet(m)
      <3>1. PICK i \in 1..a : x = k[i]
        BY <1>6
      <3> QED
        BY <1>3, <1>4, <3>1 DEF ToSet
    <2>3. ASSUME NEW x \in T PROVE x \in ToSet(m)
      <3>1. PICK i \in 1..b : x = l[i]
        BY <1>6
      <3> QED
        BY <1>3, <1>4, <3>1 DEF ToSet
    <2> QED
      BY <2>1, <2>2, <2>3
  <1>9. ASSUME NEW i \in 1..(a + b), NEW j \in 1..(a + b), i < j PROVE m[i] < m[j]
    <2>1. CASE i \in 1..a /\ j \in 1..a
      BY <1>3, <1>7, <1>9, <2>1
    <2>2. CASE i \in 1..a /\ j - a \in 1..b /\ a + (j - a) = j
      <3>1. m[j] = l[j - a] /\ m[i] = k[i]
        BY <1>3, <2>2
      <3>2. k[i] \in S /\ l[j - a] \in T
        BY <1>5, <2>2
      <3> QED
        BY <3>1, <3>2
    <2>3. CASE i - a \in 1..b /\ a + (i - a) = i /\ j - a \in 1..b /\ a + (j - a) = j
      <3>1. m[j] = l[j - a] /\ m[i] = l[i - a]
        BY <1>3, <2>3
      <3>2. i - a < j - a
        BY <1>1, <1>3, <1>9
      <3> QED
        BY <1>7, <2>3, <3>1, <3>2
    <2>4. ~(i - a \in 1..b /\ j \in 1..a)
      BY <1>1, <1>9
    <2> QED
      BY <1>3, <2>1, <2>2, <2>3, <2>4
  <1> QED
    BY <1>2, <1>8, <1>9 DEF InOrderOf, m

\* The lists of one position and of none.
LEMMA InOrderOne == \A x \in Nat : InOrderOf(<<x>>, {x})
  BY DEF InOrderOf, ToSet
LEMMA InOrderNone == InOrderOf(<<>>, {})
  <1>1. <<>> \in Seq(Nat) /\ Len(<<>>) = 0 /\ DOMAIN <<>> = {}
    OBVIOUS
  <1> QED
    BY <1>1 DEF InOrderOf, ToSet

\* InOrder lists the positions it is given.
LEMMA InOrderIs ==
    ASSUME history \in Seq(HistoryRecord), NEW S \in SUBSET (1..Len(history))
    PROVE  InOrderOf(InOrder(S), S)
  <1> DEFINE n == Len(history)
             Next(f) == [i \in 0..n |-> IF i = 0 THEN <<>>
                                        ELSE IF i \in S THEN Append(f[i - 1], i) ELSE f[i - 1]]
             step == [i \in 1..n |-> [v \in Seq(Nat) |-> IF i \in S THEN Append(v, i) ELSE v]]
             w == CHOOSE f : f = Next(f)
  <1>1. n \in Nat /\ S \in SUBSET (1..n)
    OBVIOUS
  <1>2. InOrder(S) = w[n]
    BY DEF InOrder
  <1> HIDE DEF n
  <1>3. \A i \in 0..n : i = 0 \/ (i \in 1..n /\ i # 0)
    BY <1>1
  <1>4. \A i \in 1..n : i \in 0..n /\ i # 0 /\ i - 1 \in 0..n /\ i \in Nat
    BY <1>1
  <1>5. \E f : f = Next(f)
    <2>1. \A i \in 1..n : \A v \in Seq(Nat) : Append(v, i) \in Seq(Nat)
      BY <1>4
    <2>2. step \in [1..n -> [Seq(Nat) -> Seq(Nat)]]
      BY <2>1
    <2>3. \A i \in 1..n : \A v \in Seq(Nat) : step[i][v] = IF i \in S THEN Append(v, i) ELSE v
      OBVIOUS
    <2>4. <<>> \in Seq(Nat)
      OBVIOUS
    <2> HIDE DEF step
    <2>5. PICK f : Iterates(f, n, Seq(Nat), <<>>, step)
      BY <1>1, <2>2, <2>4, IteratesExist
    <2>6. f \in [0..n -> Seq(Nat)] /\ f[0] = <<>> /\ \A i \in 1..n : f[i] = step[i][f[i - 1]]
      BY <2>5 DEF Iterates
    <2>7. \A i \in 1..n : f[i - 1] \in Seq(Nat)
      BY <1>4, <2>6
    <2>8. \A i \in 1..n : f[i] = IF i \in S THEN Append(f[i - 1], i) ELSE f[i - 1]
      BY <2>3, <2>6, <2>7
    <2>9. f = Next(f)
      BY <1>3, <2>6, <2>8
    <2> QED
      BY <2>9
  <1>6. w = Next(w)
    BY <1>5
  <1> HIDE DEF w
  <1>7. w[0] = <<>> /\ \A i \in 1..n : w[i] = IF i \in S THEN Append(w[i - 1], i) ELSE w[i - 1]
    <2>1. 0 \in 0..n
      BY <1>1
    <2> QED
      BY <1>4, <1>6, <2>1
  <1> DEFINE Upto(i) == {x \in S : x <= i}
             G == {i \in 0..n : InOrderOf(w[i], Upto(i))}
  <1>pos. \A x \in S : x \in Nat /\ 1 <= x /\ x <= n /\ ~(x <= 0)
    BY <1>1
  <1>8. 0 \in G
    <2>1. Upto(0) = {}
      BY <1>pos
    <2>2. 0 \in 0..n
      BY <1>1
    <2> HIDE DEF Upto
    <2> QED
      BY <1>7, <2>1, <2>2, InOrderNone
  <1>9. ASSUME NEW i \in 1..n, i - 1 \in G PROVE i \in G
    <2>1. InOrderOf(w[i - 1], Upto(i - 1)) /\ i \in 0..n /\ i \in Nat
      BY <1>4, <1>9
    <2>2. \A x \in S : x \in Nat /\ (x <= i <=> x <= i - 1 \/ x = i)
      BY <1>pos, <2>1
    <2>5. \A x : x \in Upto(i) <=> (x \in S /\ (x <= i - 1 \/ x = i))
      BY <2>2
    <2>6. \A x : x \in Upto(i - 1) <=> (x \in S /\ x <= i - 1)
      OBVIOUS
    <2>3. CASE i \in S
      <3>1. Upto(i) = Upto(i - 1) \cup {i}
        <4>1. \A x : x \in Upto(i) <=> x \in Upto(i - 1) \cup {i}
          BY <2>3, <2>5, <2>6
        <4> HIDE DEF Upto
        <4> QED
          BY <4>1
      <3>2. \A x \in Upto(i - 1) : \A y \in {i} : x < y
        BY <2>1, <2>2, <2>6
      <3>3. w[i] = Append(w[i - 1], i)
        BY <1>7, <2>3
      <3>4. w[i - 1] \in Seq(Nat)
        BY <2>1 DEF InOrderOf
      <3>5. w[i] = w[i - 1] \o <<i>>
        BY <2>1, <3>3, <3>4, AppendIsConcat
      <3> HIDE DEF Upto
      <3>6. InOrderOf(w[i - 1] \o <<i>>, Upto(i - 1) \cup {i})
        BY <2>1, <3>2, InOrderOne, InOrderJoined
      <3> QED
        BY <2>1, <3>1, <3>5, <3>6
    <2>4. CASE i \notin S
      <3>1. Upto(i) = Upto(i - 1)
        <4>1. \A x : x \in Upto(i) <=> x \in Upto(i - 1)
          BY <2>4, <2>5, <2>6
        <4> HIDE DEF Upto
        <4> QED
          BY <4>1
      <3>2. w[i] = w[i - 1]
        BY <1>7, <2>4
      <3> HIDE DEF Upto
      <3> QED
        BY <2>1, <3>1, <3>2
    <2> QED
      BY <2>3, <2>4
  <1> HIDE DEF G
  <1>10. 0..n \subseteq G
    BY <1>1, <1>8, <1>9, Climb
  <1>11. InOrderOf(w[n], Upto(n))
    <2>1. n \in 0..n
      BY <1>1
    <2> QED
      BY <1>10, <2>1 DEF G
  <1>12. Upto(n) = S
    BY <1>1, <1>pos
  <1> HIDE DEF Upto
  <1> QED
    BY <1>2, <1>11, <1>12

\* One more message at the front of an end of a list.
LEMMA EndGrows ==
    ASSUME NEW l \in Seq(Nat), NEW j \in 1..Len(l)
    PROVE  /\ <<l[j]>> \o SubSeq(l, j + 1, Len(l)) = SubSeq(l, j, Len(l))
           /\ SubSeq(l, j, Len(l)) \in Seq(Nat) /\ SubSeq(l, j, Len(l)) # <<>>
  <1>1. /\ Len(l) \in j..Len(l) /\ j \in Int /\ Len(l) \in Int /\ j <= Len(l)
        /\ \A i \in j..Len(l) : l[i] \in Nat
    OBVIOUS
  <1>2. SubSeq(l, j, Len(l)) = <<l[j]>> \o SubSeq(l, j + 1, Len(l))
    BY <1>1, SubSeqRecursiveFirst
  <1>3. SubSeq(l, j, Len(l)) \in Seq(Nat) /\ Len(SubSeq(l, j, Len(l))) = Len(l) - j + 1
    BY <1>1, SubSeqProperties
  <1>4. Len(l) - j + 1 # 0 /\ Len(<<>>) = 0
    BY <1>1
  <1> QED
    BY <1>2, <1>3, <1>4

\* Trim stops where the longest end begins.
LEMMA ContextIsLongest ==
    ASSUME Filter \in Seq(Nat), \A i \in 1..Len(Filter) : SizeOf(Filter[i]) \in Nat, MaxHistory \in Nat
    PROVE  /\ Context = LongestEnd
           /\ Filter = <<>> => Context = <<>>
           /\ Filter # <<>> => \E k \in 1..Len(Filter) : Context = SubSeq(Filter, k, Len(Filter))
  <1> DEFINE l == Filter
             n == Len(l)
             size(i) == SizeOf(l[n - i + 1])
             NextS(f) == [k \in 0..n |-> IF k = 0 THEN 0 ELSE f[k - 1] + size(k)]
             s == CHOOSE f : f = NextS(f)
             V == [list : Seq(Nat), tokens : Nat, full : BOOLEAN]
             none == [list |-> <<>>, tokens |-> 0, full |-> FALSE]
             Closed(v, i) == v.full \/ (v.tokens + size(i) > MaxHistory /\ v.list # <<>>)
             Walk(v, i) == IF Closed(v, i) THEN [v EXCEPT !.full = TRUE]
                           ELSE [list |-> <<l[n - i + 1]>> \o v.list, tokens |-> v.tokens + size(i), full |-> FALSE]
             NextW(f) == [i \in 0..n |-> IF i = 0 THEN none ELSE Walk(f[i - 1], i)]
             w == CHOOSE f : f = NextW(f)
             fits == {k \in 1..n : s[k] <= MaxHistory}
             shown == IF fits = {} THEN 1 ELSE Max(fits)
             End(k) == SubSeq(l, n - k + 1, n)
  <1>1. LongestEnd = IF l = <<>> THEN <<>> ELSE End(shown)
    BY DEF LongestEnd
  <1>2. Context = w[n].list
    BY DEF Context, Trim
  <1>3. /\ l \in Seq(Nat) /\ n \in Nat /\ MaxHistory \in Nat
        /\ \A i \in 1..n : n - i + 1 \in 1..n /\ size(i) \in Nat
    <2>1. \A i \in 1..n : n - i + 1 \in 1..n
      OBVIOUS
    <2> QED
      BY <2>1
  <1>4. \A i \in 1..n : <<l[n - i + 1]>> \o End(i - 1) = End(i) /\ End(i) \in Seq(Nat) /\ End(i) # <<>>
    <2>1. \A i \in 1..n : n - (i - 1) + 1 = (n - i + 1) + 1
      BY <1>3
    <2> QED
      BY <1>3, <2>1, EndGrows
  <1>5. End(0) = <<>>
    BY <1>3, SubSeqEmpty
  <1>6. /\ \A i \in 0..n : i = 0 \/ (i \in 1..n /\ i # 0)
        /\ \A i \in 1..n : i \in 0..n /\ i # 0 /\ i - 1 \in 0..n /\ i \in Nat /\ n - i + 1 \in 1..n /\ l[n - i + 1] \in Nat
        /\ 0 \in 0..n /\ n \in 0..n
    BY <1>3
  <1> DEFINE front(i) == l[n - i + 1]
  <1>front. /\ \A i \in 1..n : front(i) \in Nat /\ size(i) \in Nat /\ <<front(i)>> \o End(i - 1) = End(i)
            /\ \A v, i : Walk(v, i) = IF Closed(v, i) THEN [v EXCEPT !.full = TRUE]
                 ELSE [list |-> <<front(i)>> \o v.list, tokens |-> v.tokens + size(i), full |-> FALSE]
    BY <1>3, <1>4, <1>6
  <1> HIDE DEF l, n, size, Walk, front
  <1>7. s[0] = 0 /\ (\A i \in 1..n : s[i] = s[i - 1] + size(i)) /\ s \in [0..n -> Nat]
    <2> DEFINE step == [i \in 1..n |-> [v \in Nat |-> v + size(i)]]
    <2>1. \E f : f = NextS(f)
      <3>1. step \in [1..n -> [Nat -> Nat]]
        BY <1>3
      <3>2. \A i \in 1..n : \A v \in Nat : step[i][v] = v + size(i)
        OBVIOUS
      <3> HIDE DEF step
      <3>3. PICK f : Iterates(f, n, Nat, 0, step)
        BY <1>3, <3>1, IteratesExist
      <3>4. f \in [0..n -> Nat] /\ f[0] = 0 /\ \A i \in 1..n : f[i] = step[i][f[i - 1]]
        BY <3>3 DEF Iterates
      <3>5. \A i \in 1..n : f[i] = f[i - 1] + size(i)
        BY <1>6, <3>2, <3>4
      <3>6. f = NextS(f)
        BY <1>6, <3>4, <3>5
      <3> QED
        BY <3>6
    <2>2. s = NextS(s)
      BY <2>1
    <2> HIDE DEF s, step
    <2>3. s[0] = 0 /\ \A i \in 1..n : s[i] = s[i - 1] + size(i)
      BY <1>6, <2>2
    <2> DEFINE G == {i \in 0..n : s[i] \in Nat}
    <2>4. 0 \in G
      BY <1>6, <2>3
    <2>5. ASSUME NEW i \in 1..n, i - 1 \in G PROVE i \in G
      BY <1>3, <1>6, <2>3, <2>5
    <2> HIDE DEF G
    <2>6. 0..n \subseteq G
      BY <1>3, <2>4, <2>5, Climb
    <2>7. s = [i \in 0..n |-> s[i]]
      BY <2>2
    <2> QED
      BY <2>3, <2>6, <2>7 DEF G
  <1>walk. \A i \in 1..n : \A v \in V : Walk(v, i) \in V
    <2> SUFFICES ASSUME NEW i \in 1..n, NEW v \in V PROVE Walk(v, i) \in V
      OBVIOUS
    <2>1. v.list \in Seq(Nat) /\ v.tokens \in Nat
      OBVIOUS
    <2>2. <<front(i)>> \in Seq(Nat)
      <3>1. front(i) \in Nat
        BY <1>front
      <3>2. \A x \in Nat : <<x>> \in Seq(Nat)
        OBVIOUS
      <3> QED
        BY <3>1, <3>2
    <2>3. <<front(i)>> \o v.list \in Seq(Nat)
      BY <2>1, <2>2, ConcatProperties
    <2>4. v.tokens + size(i) \in Nat
      BY <1>3, <2>1
    <2>5. [v EXCEPT !.full = TRUE] \in V
      OBVIOUS
    <2>6. [list |-> <<front(i)>> \o v.list, tokens |-> v.tokens + size(i), full |-> FALSE] \in V
      BY <2>3, <2>4
    <2> HIDE DEF V, Closed
    <2> QED
      BY <1>front, <2>5, <2>6
  <1>8. w[0] = none /\ \A i \in 1..n : w[i] = Walk(w[i - 1], i)
    <2> DEFINE step == [i \in 1..n |-> [v \in V |-> Walk(v, i)]]
    <2>1. \E f : f = NextW(f)
      <3>2. none \in V
        BY EmptySeq
      <3> HIDE DEF V, none
      <3>3. step \in [1..n -> [V -> V]]
        BY <1>walk
      <3>4. \A i \in 1..n : \A v \in V : step[i][v] = Walk(v, i)
        OBVIOUS
      <3> HIDE DEF step
      <3>5. PICK f : Iterates(f, n, V, none, step)
        BY <1>3, <3>2, <3>3, IteratesExist
      <3>6. f \in [0..n -> V] /\ f[0] = none /\ \A i \in 1..n : f[i] = step[i][f[i - 1]]
        BY <3>5 DEF Iterates
      <3>7. \A i \in 1..n : f[i] = Walk(f[i - 1], i)
        BY <1>6, <3>4, <3>6
      <3>8. f = NextW(f)
        BY <1>6, <3>6, <3>7
      <3> QED
        BY <3>8
    <2>2. w = NextW(w)
      BY <2>1
    <2> HIDE DEF w
    <2> QED
      BY <1>6, <2>2
  <1> HIDE DEF s, w
  <1>9. \A i, j \in 0..n : i <= j => s[i] <= s[j]
    <2> DEFINE G == {j \in 0..n : \A i \in 0..j : s[i] <= s[j]}
    <2>1. 0 \in G
      <3>1. \A i \in 0..0 : i = 0
        OBVIOUS
      <3>2. s[0] <= s[0]
        BY <1>7
      <3> QED
        BY <1>6, <3>1, <3>2
    <2>2. ASSUME NEW j \in 1..n, j - 1 \in G PROVE j \in G
      <3>1. s[j] = s[j - 1] + size(j) /\ s[j - 1] \in Nat /\ size(j) \in Nat
        BY <1>3, <1>6, <1>7
      <3>2. ASSUME NEW i \in 0..j PROVE s[i] <= s[j]
        <4>1. i = j \/ i \in 0..(j - 1)
          BY <1>6
        <4>2. CASE i = j
          BY <3>1, <4>2
        <4>3. CASE i \in 0..(j - 1)
          <5>1. s[i] <= s[j - 1] /\ i \in 0..n
            BY <1>3, <2>2, <4>3
          <5>2. s[i] \in Nat
            BY <1>7, <5>1
          <5> QED
            BY <3>1, <5>1, <5>2
        <4> QED
          BY <4>1, <4>2, <4>3
      <3> QED
        BY <1>6, <3>2
    <2> HIDE DEF G
    <2>3. 0..n \subseteq G
      BY <1>3, <2>1, <2>2, Climb
    <2> QED
      BY <1>3, <2>3 DEF G
  <1> DEFINE At(v, i, k) ==
               /\ v \in V /\ v.list = End(k) /\ v.tokens = s[k]
               /\ k >= 2 => s[k] <= MaxHistory
               /\ IF v.full THEN k >= 1 /\ k < n /\ s[k + 1] > MaxHistory ELSE k = i
             G == {i \in 0..n : \E k \in 0..i : At(w[i], i, k)}
  <1>10. 0 \in G
    <2>1. none \in V
      BY EmptySeq
    <2>2. At(w[0], 0, 0)
      BY <1>3, <1>5, <1>7, <1>8, <2>1
    <2> HIDE DEF At
    <2> QED
      BY <1>6, <2>2
  <1>11. ASSUME NEW i \in 1..n, i - 1 \in G PROVE i \in G
    <2> DEFINE v == w[i - 1]
    <2>1. PICK k \in 0..(i - 1) : At(v, i - 1, k)
      BY <1>11
    <2>2. k \in 0..i /\ i \in 0..i /\ k \in 0..n /\ i \in Nat /\ k \in Nat /\ i >= 1 /\ i - 1 \in Nat /\ i <= n
      BY <1>3
    <2>3. w[i] = Walk(v, i)
      BY <1>8
    <2> HIDE DEF v
    <2>4. v \in V /\ s[k] \in Nat /\ s[i] = s[i - 1] + size(i) /\ size(i) \in Nat /\ s[i - 1] \in Nat
      BY <1>3, <1>6, <1>7, <2>1, <2>2
    <2>5. w[i] \in V
      BY <1>walk, <2>3, <2>4
    <2>6. CASE Closed(v, i)
      <3>1. w[i] = [v EXCEPT !.full = TRUE]
        BY <1>front, <2>3, <2>6
      <3>2. w[i].list = v.list /\ w[i].tokens = v.tokens /\ w[i].full = TRUE
        BY <2>4, <3>1
      <3>3. k >= 1 /\ k < n /\ s[k + 1] > MaxHistory
        <4>1. CASE v.full
          BY <2>1, <4>1
        <4>2. CASE ~v.full
          <5>1. k = i - 1 /\ v.tokens + size(i) > MaxHistory /\ v.list # <<>> /\ v.tokens = s[k] /\ v.list = End(k)
            BY <2>1, <2>6, <4>2
          <5>2. k # 0
            BY <1>5, <5>1
          <5>3. k + 1 = i /\ k >= 1 /\ k < n
            <6>1. k = i - 1
              BY <5>1
            <6> QED
              BY <1>3, <2>2, <5>2, <6>1
          <5>4. s[k + 1] > MaxHistory
            BY <2>4, <5>1, <5>3
          <5> QED
            BY <5>3, <5>4
        <4> QED
          BY <4>1, <4>2
      <3>4. At(w[i], i, k)
        BY <2>1, <2>2, <2>5, <3>2, <3>3
      <3> HIDE DEF At
      <3> QED
        BY <1>6, <2>2, <3>4
    <2>7. CASE ~Closed(v, i)
      <3>1. w[i] = [list |-> <<front(i)>> \o v.list, tokens |-> v.tokens + size(i), full |-> FALSE]
        BY <1>front, <2>3, <2>7
      <3>2. ~v.full /\ (v.tokens + size(i) <= MaxHistory \/ v.list = <<>>)
        BY <1>3, <2>4, <2>7
      <3>3. k = i - 1 /\ v.list = End(i - 1) /\ v.tokens = s[i - 1]
        BY <2>1, <3>2
      <3>4. w[i].list = End(i) /\ w[i].tokens = s[i] /\ w[i].full = FALSE
        <4>1. <<front(i)>> \o End(i - 1) = End(i)
          BY <1>front
        <4> HIDE DEF End
        <4> QED
          BY <2>4, <3>1, <3>3, <4>1
      <3>5. i >= 2 => s[i] <= MaxHistory
        <4>1. ASSUME i >= 2 PROVE v.list # <<>>
          <5>1. i - 1 \in 1..n
            BY <1>3, <2>2, <4>1
          <5> QED
            BY <1>4, <3>3, <5>1
        <4> QED
          BY <2>4, <3>2, <3>3, <4>1
      <3>6. At(w[i], i, i)
        BY <2>2, <2>5, <3>4, <3>5
      <3> HIDE DEF At
      <3> QED
        BY <1>6, <2>2, <3>6
    <2> QED
      BY <2>6, <2>7
  <1> HIDE DEF G
  <1>12. 0..n \subseteq G
    BY <1>3, <1>10, <1>11, Climb
  <1>13. PICK k \in 0..n : At(w[n], n, k)
    BY <1>6, <1>12 DEF G
  <1>14. CASE n = 0
    <2>1. k = 0
      BY <1>14
    <2>2. l = <<>>
      <3>1. l \in Seq(Nat) /\ Len(l) = 0
        BY <1>3, <1>14 DEF n
      <3> HIDE DEF l
      <3> QED
        BY <3>1, EmptySeq
    <2> QED
      BY <1>1, <1>2, <1>5, <1>13, <2>1, <2>2 DEF l
  <1>15. CASE n # 0
    <2>1. k \in 1..n /\ k \in Nat /\ (k >= 2 => s[k] <= MaxHistory) /\ w[n].list = End(k)
      BY <1>3, <1>13, <1>15
    <2>2. \A j \in fits : j <= k
      <3> SUFFICES ASSUME NEW j \in fits, ~(j <= k) PROVE FALSE
        OBVIOUS
      <3>1. j \in 1..n /\ s[j] <= MaxHistory /\ k + 1 <= j
        BY <2>1
      <3>2. w[n].full /\ s[k + 1] > MaxHistory
        BY <1>3, <1>13, <2>1, <3>1
      <3>3. k + 1 \in 0..n /\ j \in 0..n
        BY <1>3, <2>1, <3>1
      <3>4. s[k + 1] <= s[j] /\ s[k + 1] \in Nat /\ s[j] \in Nat
        BY <1>7, <1>9, <3>1, <3>3
      <3> QED
        BY <1>3, <3>1, <3>2, <3>4
    <2>3. shown = k
      <3>1. CASE fits = {}
        <4>1. k \notin fits
          BY <3>1
        <4>2. ~(k >= 2)
          BY <2>1, <4>1
        <4> QED
          BY <2>1, <3>1, <4>2
      <3>2. CASE fits # {}
        <4>1. k \in fits
          <5>1. PICK j \in fits : TRUE
            BY <3>2
          <5>2. j \in 1..n /\ s[j] <= MaxHistory /\ j <= k
            BY <2>2, <5>1
          <5>3. CASE j = k
            BY <5>1, <5>3
          <5>4. CASE j # k
            <6>1. k >= 2
              BY <2>1, <5>2, <5>4
            <6> QED
              BY <2>1, <6>1
          <5> QED
            BY <5>3, <5>4
        <4>2. \A j \in fits : k >= j
          BY <2>1, <2>2
        <4>3. \A x \in fits : (\A y \in fits : x >= y) => x = k
          <5> SUFFICES ASSUME NEW x \in fits, \A y \in fits : x >= y PROVE x = k
            OBVIOUS
          <5>1. x >= k /\ x <= k /\ x \in Nat
            BY <2>2, <4>1
          <5> QED
            BY <2>1, <5>1
        <4> HIDE DEF fits
        <4>4. Max(fits) = k
          BY <4>1, <4>2, <4>3 DEF Max
        <4> QED
          BY <3>2, <4>4
      <3> QED
        BY <3>1, <3>2
    <2> HIDE DEF shown
    <2>4. l # <<>>
      BY <1>15, EmptySeq DEF n
    <2>5. LongestEnd = End(k) /\ Context = End(k)
      BY <1>1, <1>2, <2>1, <2>3, <2>4
    <2>6. n - k + 1 \in 1..n
      BY <1>3, <2>1
    <2> QED
      BY <2>4, <2>5, <2>6 DEF l, n
  <1> QED
    BY <1>14, <1>15

\* A set of positions has a first and a last one.
LEMMA Extremes ==
    ASSUME NEW n \in Nat, NEW S \in SUBSET (1..n), S # {}
    PROVE  /\ Min(S) \in S /\ \A x \in S : Min(S) <= x
           /\ Max(S) \in S /\ \A x \in S : x <= Max(S)
  <1>1. \A x \in S : x \in Nat /\ x <= n /\ n - x \in Nat
    OBVIOUS
  <1>2. S \in SUBSET Nat
    BY <1>1
  <1>3. PICK a \in S : \A x \in S : a <= x
    BY <1>2, LeastExists
  <1> DEFINE T == {n - x : x \in S}
  <1>4. T \in SUBSET Nat /\ T # {}
    BY <1>1
  <1>5. PICK t \in T : \A x \in T : t <= x
    <2> HIDE DEF T
    <2> QED
      BY <1>4, LeastExists
  <1>6. PICK b \in S : t = n - b
    BY <1>5
  <1>7. \A x \in S : b >= x
    <2> TAKE x \in S
    <2>1. n - b <= n - x
      BY <1>5, <1>6
    <2> QED
      BY <1>1, <1>6, <2>1
  <1>8. Min(S) \in S /\ \A x \in S : Min(S) <= x
    BY <1>3 DEF Min
  <1>9. Max(S) \in S /\ \A x \in S : Max(S) >= x
    BY <1>6, <1>7 DEF Max
  <1>10. \A x \in S : x <= Max(S)
    BY <1>1, <1>9
  <1> QED
    BY <1>8, <1>9, <1>10

\* Turns are numbered in order, and one goes on until the next begins.
LEMMA TurnsInOrder ==
    ASSUME history \in Seq(HistoryRecord), history # <<>>
    PROVE  /\ \A i \in 1..Len(history) : TurnOf(i) \in Nat /\ TurnOf(i) > 0
           /\ \A i, j \in 1..Len(history) : i <= j => TurnOf(i) <= TurnOf(j)
           /\ \A i \in 1..Len(history) :
                i \notin TurnStarts => i - 1 \in 1..Len(history) /\ TurnOf(i - 1) = TurnOf(i)
  <1> DEFINE n == Len(history)
             Begun(i) == {j \in TurnStarts : j <= i}
  <1>1. n \in Nat /\ DOMAIN history = 1..n /\ 1 \in TurnStarts
    BY DEF TurnStarts
  <1>2. n # 0
    BY EmptySeq
  <1>3. \A j \in TurnStarts : j \in Nat /\ 1 <= j
    BY <1>1 DEF TurnStarts
  <1>4. \A i \in 1..n : Begun(i) \subseteq 1..i /\ 1 \in Begun(i)
    BY <1>1, <1>3
  <1>5. \A i : TurnOf(i) = Cardinality(Begun(i))
    BY DEF TurnOf
  <1>6. ASSUME NEW i \in 1..n PROVE IsFiniteSet(Begun(i)) /\ Begun(i) # {}
    <2>1. IsFiniteSet(1..i)
      BY <1>1, FS_Interval
    <2>2. Begun(i) \in SUBSET (1..i) /\ 1 \in Begun(i)
      BY <1>4
    <2> HIDE DEF Begun
    <2> QED
      BY <2>1, <2>2, FS_Subset
  <1>7. ASSUME NEW i \in 1..n, NEW j \in 1..n, i <= j PROVE Begun(i) \in SUBSET Begun(j)
    <2>1. \A x \in TurnStarts : x <= i => x <= j
      BY <1>1, <1>3, <1>7
    <2> QED
      BY <2>1
  <1>8. ASSUME NEW i \in 1..n, i \notin TurnStarts PROVE i - 1 \in 1..n /\ Begun(i - 1) = Begun(i)
    <2>1. i # 1 /\ i - 1 \in 1..n
      BY <1>1, <1>8
    <2>2. \A x \in TurnStarts : x <= i <=> x <= i - 1
      <3> TAKE x \in TurnStarts
      <3>1. x \in Nat /\ x # i /\ i \in Nat
        BY <1>3, <1>8
      <3> QED
        BY <3>1
    <2> QED
      BY <2>1, <2>2
  <1> HIDE DEF Begun
  <1>9. ASSUME NEW i \in 1..n PROVE TurnOf(i) \in Nat /\ TurnOf(i) > 0
    <2>1. Cardinality(Begun(i)) \in Nat
      BY <1>6, FS_CardinalityType
    <2>2. Cardinality(Begun(i)) # 0
      BY <1>6, FS_EmptySet
    <2> QED
      BY <1>5, <2>1, <2>2
  <1>10. ASSUME NEW i \in 1..n, NEW j \in 1..n, i <= j PROVE TurnOf(i) <= TurnOf(j)
    BY <1>5, <1>6, <1>7, <1>10, FS_Subset
  <1>11. ASSUME NEW i \in 1..n, i \notin TurnStarts PROVE i - 1 \in 1..n /\ TurnOf(i - 1) = TurnOf(i)
    BY <1>5, <1>8, <1>11
  <1> QED
    BY <1>9, <1>10, <1>11 DEF n

\* What a selection takes and leaves, whatever fits.
SelectionOK(selection) ==
    /\ selection.head \in SUBSET Nat /\ selection.start \in Nat /\ selection.parted \in BOOLEAN
    /\ ~selection.parted =>
         /\ selection.head = Cut(Len(history), selection.start)
         /\ CutOK(history, Len(history), selection.start)

\* Select, if it parts no turn, keeps what begins with an input and cuts off the
\* rest.
LEMMA SelectCuts ==
    ASSUME history \in Seq(HistoryRecord), RecordsOK(history), history # <<>>, TailTurns \in Nat, NEW keep
    PROVE  SelectionOK(Select(keep))
  <1> DEFINE n == Len(history)
             last == TurnOf(n)
             turns == Min({last, TailTurns})
             old == {i \in DOMAIN history : TurnOf(i) <= last - turns}
             none == [head |-> old, tail |-> {}, spent |-> 0, done |-> FALSE, parted |-> FALSE]
             turn(k) == Turn(last - k + 1)
             taken(v, k) == Taken(turn(k), v, keep)
             spent(v, k) == v.spent + Tokens(taken(v, k))
             Walk(v, k) == IF v.done THEN v
                     ELSE IF spent(v, k) > keep /\ v.tail # {}
                     THEN [v EXCEPT !.head = @ \cup (turn(k) \ taken(v, k)), !.done = TRUE, !.parted = TRUE]
                     ELSE [v EXCEPT !.tail = @ \cup taken(v, k), !.spent = spent(v, k),
                                    !.parted = @ \/ taken(v, k) # turn(k)]
             NextW(f) == [k \in 0..turns |-> IF k = 0 THEN none ELSE Walk(f[k - 1], k)]
             w == CHOOSE f : f = NextW(f)
             e == w[turns]
             start == IF e.tail = {} THEN 0 ELSE IF e.done THEN Max(e.tail) ELSE Min(e.tail)
             V == [head : SUBSET (1..n), tail : SUBSET (1..n), spent : Nat, done : BOOLEAN, parted : BOOLEAN]
  <1>1. Select(keep) = [head |-> e.head, parted |-> e.parted, start |-> start]
    BY DEF Select
  <1>2. n \in Nat /\ n \in 1..n /\ DOMAIN history = 1..n
    <2>1. n \in Nat /\ DOMAIN history = 1..n
      OBVIOUS
    <2>2. n # 0
      BY EmptySeq
    <2> QED
      BY <2>1, <2>2
  <1>3. /\ \A i \in 1..n : TurnOf(i) \in Nat /\ TurnOf(i) > 0
        /\ \A i, j \in 1..n : i <= j => TurnOf(i) <= TurnOf(j)
        /\ \A i \in 1..n : i \notin TurnStarts => i - 1 \in 1..n /\ TurnOf(i - 1) = TurnOf(i)
    BY TurnsInOrder
  <1>4. last \in Nat /\ last > 0
    BY <1>2, <1>3
  <1>5. turns \in Nat /\ turns <= last /\ (turns = 0 => TailTurns = 0)
    <2> HIDE DEF last
    <2>1. turns \in {last, TailTurns} /\ \A y \in {last, TailTurns} : turns <= y
      <3>1. \E x \in {last, TailTurns} : \A y \in {last, TailTurns} : x <= y
        BY <1>4
      <3> QED
        BY <3>1 DEF Min
    <2> HIDE DEF turns
    <2> QED
      BY <1>4, <2>1
  <1>6. \A k : turn(k) \subseteq 1..n
    BY <1>2 DEF Turn
  <1>7. \A v, k : taken(v, k) \subseteq turn(k)
    BY DEF Taken
  <1>8. \A v, k : Tokens(taken(v, k)) \in Nat
    <2>1. \A S : Tokens(S) = TokensIn(history, S)
      BY DEF Tokens, TokensIn
    <2> HIDE DEF taken
    <2> QED
      BY <2>1, TokensTyped
  <1>9. none \in V
    BY <1>2
  <1>walk. \A v, k : Walk(v, k) = IF v.done THEN v
                     ELSE IF spent(v, k) > keep /\ v.tail # {}
                     THEN [v EXCEPT !.head = @ \cup (turn(k) \ taken(v, k)), !.done = TRUE, !.parted = TRUE]
                     ELSE [v EXCEPT !.tail = @ \cup taken(v, k), !.spent = spent(v, k),
                                    !.parted = @ \/ taken(v, k) # turn(k)]
    OBVIOUS
  <1>10. \A v \in V : \A k : Walk(v, k) \in V
    <2> SUFFICES ASSUME NEW v \in V, NEW k PROVE Walk(v, k) \in V
      OBVIOUS
    <2> HIDE DEF Walk, turn, taken
    <2>1. spent(v, k) \in Nat
      BY <1>8
    <2>2. turn(k) \ taken(v, k) \in SUBSET (1..n) /\ taken(v, k) \in SUBSET (1..n)
      BY <1>6, <1>7
    <2> HIDE DEF spent, n
    <2>3. (taken(v, k) # turn(k)) \in BOOLEAN
      OBVIOUS
    <2>4. [v EXCEPT !.head = @ \cup (turn(k) \ taken(v, k)), !.done = TRUE, !.parted = TRUE] \in V
      BY <2>2
    <2>5. [v EXCEPT !.tail = @ \cup taken(v, k), !.spent = spent(v, k), !.parted = @ \/ taken(v, k) # turn(k)] \in V
      BY <2>1, <2>2, <2>3
    <2> HIDE DEF V
    <2> QED
      BY <1>walk, <2>4, <2>5
  <1>above. \A k : turn(k) = {i \in 1..n : TurnOf(i) = last - k + 1}
    BY <1>2 DEF Turn
  <1>old. old = {i \in 1..n : TurnOf(i) <= last - turns}
    BY <1>2
  <1>11. /\ \A i \in 0..turns : i = 0 \/ (i \in 1..turns /\ i # 0)
         /\ \A i \in 1..turns : i \in 0..turns /\ i # 0 /\ i - 1 \in 0..turns /\ i \in Nat
         /\ 0 \in 0..turns /\ turns \in 0..turns
    BY <1>5
  <1> HIDE DEF n, last, turns, old, turn, taken, spent, Walk
  <1>12. w[0] = none /\ \A k \in 1..turns : w[k] = Walk(w[k - 1], k)
    <2> DEFINE step == [k \in 1..turns |-> [v \in V |-> Walk(v, k)]]
    <2>1. \E f : f = NextW(f)
      <3> HIDE DEF V, none
      <3>1. step \in [1..turns -> [V -> V]]
        BY <1>10
      <3>2. \A k \in 1..turns : \A v \in V : step[k][v] = Walk(v, k)
        OBVIOUS
      <3> HIDE DEF step
      <3>3. PICK f : Iterates(f, turns, V, none, step)
        BY <1>5, <1>9, <3>1, IteratesExist
      <3>4. f \in [0..turns -> V] /\ f[0] = none /\ \A k \in 1..turns : f[k] = step[k][f[k - 1]]
        BY <3>3 DEF Iterates
      <3>5. \A k \in 1..turns : f[k] = Walk(f[k - 1], k)
        BY <1>11, <3>2, <3>4
      <3>6. f = NextW(f)
        BY <1>11, <3>4, <3>5
      <3> QED
        BY <3>6
    <2>2. w = NextW(w)
      BY <2>1
    <2> HIDE DEF w
    <2> QED
      BY <1>11, <2>2
  <1> HIDE DEF w
  <1> DEFINE Newer(k) == {i \in 1..n : TurnOf(i) > last - k}
             At(v, k) == v \in V /\ (v.parted \/ (~v.done /\ v.tail = Newer(k) /\ v.head = old))
             G == {k \in 0..turns : At(w[k], k)}
  <1>13. 0 \in G
    <2>1. Newer(0) = {}
      <3>1. ASSUME NEW i \in 1..n PROVE ~(TurnOf(i) > last - 0)
        <4>1. i <= n
          BY <1>2
        <4>2. TurnOf(i) <= last
          BY <1>2, <1>3, <4>1 DEF last
        <4> QED
          BY <1>3, <1>4, <4>2
      <3> QED
        BY <3>1
    <2> HIDE DEF Newer, V
    <2>2. At(none, 0)
      BY <1>9, <2>1
    <2> HIDE DEF At, none
    <2> QED
      BY <1>11, <1>12, <2>2
  <1>14. ASSUME NEW k \in 1..turns, k - 1 \in G PROVE k \in G
    <2> DEFINE v == w[k - 1]
    <2>1. At(v, k - 1) /\ w[k] = Walk(v, k)
      BY <1>12, <1>14
    <2>2. Newer(k) = Newer(k - 1) \cup turn(k)
      <3>1. \A i \in 1..n : TurnOf(i) > last - k <=> (TurnOf(i) > last - (k - 1) \/ TurnOf(i) = last - k + 1)
        BY <1>3, <1>4, <1>11
      <3> QED
        BY <1>above, <3>1
    <2> HIDE DEF v, Newer
    <2>3. w[k] \in V
      <3> HIDE DEF V
      <3> QED
        BY <1>10, <2>1
    <2>4. ASSUME ~w[k].parted PROVE ~w[k].done /\ w[k].tail = Newer(k) /\ w[k].head = old
      <3>1. v \in V
        BY <2>1
      <3>2. ~v.done
        <4>1. CASE v.done
          <5>1. w[k] = v
            BY <1>walk, <2>1, <4>1
          <5> QED
            BY <2>1, <2>4, <4>1, <5>1
        <4> QED
          BY <4>1
      <3>3. ~(spent(v, k) > keep /\ v.tail # {})
        <4> SUFFICES ASSUME spent(v, k) > keep /\ v.tail # {} PROVE FALSE
          OBVIOUS
        <4>1. w[k] = [v EXCEPT !.head = @ \cup (turn(k) \ taken(v, k)), !.done = TRUE, !.parted = TRUE]
          BY <1>walk, <2>1, <3>2
        <4>2. w[k].parted = TRUE
          BY <3>1, <4>1
        <4> QED
          BY <2>4, <4>2
      <3>4. w[k] = [v EXCEPT !.tail = @ \cup taken(v, k), !.spent = spent(v, k), !.parted = @ \/ taken(v, k) # turn(k)]
        BY <1>walk, <2>1, <3>2, <3>3
      <3>5. /\ w[k].parted = (v.parted \/ taken(v, k) # turn(k))
            /\ w[k].done = v.done /\ w[k].tail = v.tail \cup taken(v, k) /\ w[k].head = v.head
        BY <3>1, <3>4
      <3>6. ~v.parted /\ taken(v, k) = turn(k)
        BY <2>4, <3>5
      <3> QED
        BY <2>1, <2>2, <3>2, <3>5, <3>6
    <2> HIDE DEF V
    <2> QED
      BY <1>11, <2>3, <2>4
  <1> HIDE DEF G
  <1>15. 0..turns \subseteq G
    BY <1>5, <1>13, <1>14, Climb
  <1>16. At(e, turns)
    BY <1>11, <1>15 DEF G
  <1>17. e \in V
    BY <1>16
  <1>18. e.tail # {} => /\ Min(e.tail) \in e.tail /\ \A x \in e.tail : Min(e.tail) <= x
                       /\ Max(e.tail) \in e.tail
    BY <1>2, <1>17, Extremes
  <1>19. start \in Nat /\ e.head \in SUBSET Nat /\ e.parted \in BOOLEAN
    <2>1. e.tail \subseteq Nat /\ e.head \in SUBSET Nat /\ e.parted \in BOOLEAN
      BY <1>17
    <2> HIDE DEF e
    <2> QED
      BY <1>18, <2>1
  <1>20. ASSUME ~e.parted PROVE e.head = Cut(n, start) /\ CutOK(history, n, start)
    <2>1. ~e.done /\ e.tail = Newer(turns) /\ e.head = old
      BY <1>16, <1>20
    <2>2. start = IF Newer(turns) = {} THEN 0 ELSE Min(Newer(turns))
      BY <2>1
    <2>3. \A i \in 1..n : i \in old <=> ~(i \in Newer(turns))
      BY <1>3, <1>4, <1>5, <1>old
    <2>4. CASE Newer(turns) = {}
      <3>1. start = 0
        BY <2>2, <2>4
      <3>2. TailTurns = 0
        <4>1. n \notin Newer(turns)
          BY <2>4
        <4>2. ~(last > last - turns)
          BY <1>2, <4>1 DEF last
        <4> QED
          BY <1>4, <1>5, <4>2
      <3>3. old = 1..n
        BY <1>old, <2>3, <2>4
      <3> HIDE DEF start, e, Newer
      <3>4. Cut(n, start) = 1..n
        BY <3>1 DEF Cut
      <3> QED
        BY <2>1, <3>1, <3>2, <3>3, <3>4 DEF CutOK
    <2>5. CASE Newer(turns) # {}
      <3>1. start \in Newer(turns) /\ \A x \in Newer(turns) : start <= x
        BY <1>18, <2>1, <2>2, <2>5
      <3> HIDE DEF start, e
      <3>2. start \in 1..n /\ TurnOf(start) > last - turns /\ start \in Nat /\ start # 0
        BY <1>2, <3>1
      <3>3. \A i \in 1..n : i \in Newer(turns) <=> start <= i
        <4> TAKE i \in 1..n
        <4>1. ASSUME start <= i PROVE i \in Newer(turns)
          <5>1. TurnOf(start) <= TurnOf(i) /\ TurnOf(start) \in Nat /\ TurnOf(i) \in Nat
            BY <1>3, <3>2, <4>1
          <5> QED
            BY <1>4, <1>5, <3>2, <5>1
        <4> QED
          BY <3>1, <4>1
      <3>4. start \in TurnStarts
        <4> SUFFICES ASSUME start \notin TurnStarts PROVE FALSE
          OBVIOUS
        <4>1. start - 1 \in 1..n /\ TurnOf(start - 1) = TurnOf(start)
          BY <1>3, <3>2
        <4>2. start - 1 \in Newer(turns)
          BY <3>2, <4>1
        <4>3. start <= start - 1
          BY <3>1, <4>2
        <4> QED
          BY <3>2, <4>3
      <3>5. Input(history, start)
        <4>1. CASE start = 1
          BY <4>1 DEF RecordsOK
        <4>2. CASE start # 1
          BY <3>4, <4>2 DEF TurnStarts, Plain, Input
        <4> QED
          BY <4>1, <4>2
      <3> HIDE DEF Newer
      <3>6. \A i \in 1..n : i \in old <=> i < start
        BY <1>2, <2>3, <3>2, <3>3
      <3>7. old = Cut(n, start)
        <4>1. old \subseteq 1..n
          BY <1>old
        <4> QED
          BY <3>2, <3>6, <4>1 DEF Cut
      <3> QED
        BY <2>1, <3>2, <3>5, <3>7 DEF CutOK
    <2> QED
      BY <2>4, <2>5
  <1> HIDE DEF start, e
  <1>21. /\ Select(keep).head = e.head /\ Select(keep).parted = e.parted /\ Select(keep).start = start
    BY <1>1
  <1> QED
    BY <1>19, <1>20, <1>21 DEF SelectionOK, n

-----------------------------------------------------------------------------
(* The invariant of a history.                                              *)
\* One more record.
LEMMA Appended ==
    ASSUME NEW h \in Seq(HistoryRecord), NEW r \in HistoryRecord
    PROVE  /\ Append(h, r) \in Seq(HistoryRecord) /\ Append(h, r) # <<>>
           /\ Len(h) \in Nat /\ Len(Append(h, r)) = Len(h) + 1 /\ Append(h, r)[Len(h) + 1] = r
           /\ \A i \in 1..Len(h) : Append(h, r)[i] = h[i]
           /\ h # <<>> => Len(h) > 0 /\ Len(h) \in 1..Len(h)
  <1>1. h # <<>> => Len(h) \in Nat \ {0}
    BY EmptySeq
  <1>2. Len(h) \in Nat /\ Len(Append(h, r)) = Len(h) + 1 /\ Append(h, r)[Len(h) + 1] = r
    BY AppendProperties
  <1> QED
    BY <1>1, <1>2, AppendProperties

\* The order of the records is kept by the records that the actions append.
LEMMA RecordsGrow ==
    ASSUME NEW h \in Seq(HistoryRecord), RecordsOK(h), NEW r \in HistoryRecord,
           IF h = <<>> THEN r.kind = "plain" /\ r.role = "user"
           ELSE /\ r.kind = "summary" => h[Len(h)].kind = "compaction"
                /\ r.role = "tool" => r.kind = "plain" /\ Asking(h, Len(h))
    PROVE  RecordsOK(Append(h, r))
  <1> DEFINE k == Append(h, r)
             n == Len(h)
  <1>1. /\ n \in Nat /\ Len(k) = n + 1 /\ k[n + 1] = r /\ (\A i \in 1..n : k[i] = h[i])
        /\ h # <<>> => n > 0 /\ n \in 1..n
    BY Appended
  <1>2. h = <<>> => n = 0
    BY EmptySeq
  <1> HIDE DEF k, n
  <1>3. Input(k, 1)
    <2>1. CASE h = <<>>
      <3>1. k[1] = r
        BY <1>1, <1>2, <2>1
      <3> QED
        BY <2>1, <3>1 DEF Input
    <2>2. CASE h # <<>>
      <3>1. 1 \in 1..n
        BY <1>1, <2>2
      <3>2. k[1] = h[1]
        BY <1>1, <3>1
      <3> QED
        BY <2>2, <3>2 DEF RecordsOK, Input
    <2> QED
      BY <2>1, <2>2
  <1>4. ASSUME NEW i \in 1..(n + 1)
        PROVE  /\ k[i].kind = "summary" => i > 1 /\ k[i - 1].kind = "compaction"
               /\ k[i].role = "tool" => k[i].kind = "plain" /\ i > 1 /\ Asking(k, i - 1)
    <2>1. i \in 1..n \/ i = n + 1
      BY <1>1
    <2>2. CASE i \in 1..n
      <3>1. k[i] = h[i] /\ (i > 1 => i - 1 \in 1..n /\ k[i - 1] = h[i - 1])
        <4>1. i > 1 => i - 1 \in 1..n
          BY <1>1, <2>2
        <4> QED
          BY <1>1, <2>2, <4>1
      <3>2. /\ h[i].kind = "summary" => i > 1 /\ h[i - 1].kind = "compaction"
            /\ h[i].role = "tool" => h[i].kind = "plain" /\ i > 1 /\ Asking(h, i - 1)
        BY <2>2 DEF RecordsOK, n
      <3>3. i > 1 => (Asking(k, i - 1) <=> Asking(h, i - 1))
        BY <3>1 DEF Asking
      <3> QED
        BY <3>1, <3>2, <3>3
    <2>3. CASE i = n + 1
      <3>1. CASE h = <<>>
        <4>1. k[i] = r /\ r.kind = "plain" /\ r.role = "user"
          BY <1>1, <2>3, <3>1
        <4> QED
          BY <4>1
      <3>2. CASE h # <<>>
        <4>1. k[i] = r /\ i - 1 = n /\ i > 1 /\ k[n] = h[n]
          BY <1>1, <2>3, <3>2
        <4>2. Asking(k, n) <=> Asking(h, n)
          BY <4>1 DEF Asking
        <4> QED
          BY <3>2, <4>1, <4>2 DEF n
      <3> QED
        BY <3>1, <3>2
    <2> QED
      BY <2>1, <2>2, <2>3
  <1>5. RecordsOK(k)
    BY <1>1, <1>3, <1>4 DEF RecordsOK
  <1> QED
    BY <1>5 DEF k

\* What was cut off stays covered, and a summary covers what was cut off for it.
LEMMA CutsGrow ==
    ASSUME history \in Seq(HistoryRecord), NEW r \in HistoryRecord, history' = Append(history, r), CutsOK,
           history # <<>> /\ r.kind = "summary" =>
               /\ CutOK(history, Len(history) - 1, history[Len(history)].tail)
               /\ \A i \in Cut(Len(history) - 1, history[Len(history)].tail) : i \in r.covers \/ Past(i)
    PROVE  CutsOK'
  <1> DEFINE n == Len(history)
  <1>1. /\ n \in Nat /\ Len(history') = n + 1 /\ history'[n + 1] = r /\ (\A i \in 1..n : history'[i] = history[i])
        /\ history # <<>> => n > 0 /\ n \in 1..n
        /\ history' \in Seq(HistoryRecord)
    BY Appended
  <1>2. DOMAIN history = 1..n /\ DOMAIN (history') = 1..(n + 1)
    BY <1>1
  <1> HIDE DEF n
  <1>3. ASSUME NEW i \in 1..n PROVE Past(i)' <=> Past(i)
    <2>1. 1..(i - 1) \in SUBSET (1..n)
      BY <1>1
    <2>2. TokensIn(Append(history, r), 1..(i - 1)) = TokensIn(history, 1..(i - 1))
      BY <2>1, TokensStay DEF n
    <2>3. Tokens(1..(i - 1)) = TokensIn(history, 1..(i - 1))
      BY DEF Tokens, TokensIn
    <2>4. Tokens(1..(i - 1))' = TokensIn(Append(history, r), 1..(i - 1))
      BY DEF Tokens, TokensIn
    <2>5. Tokens(1..(i - 1))' = Tokens(1..(i - 1))
      BY <2>2, <2>3, <2>4
    <2> QED
      BY <2>5 DEF Past
  <1>4. ASSUME NEW m \in Int, m <= n, NEW start, CutOK(history, m, start) PROVE CutOK(history', m, start)
    <2>1. start \in 1..m => start \in 1..n
      BY <1>1, <1>4
    <2> QED
      BY <1>1, <1>4, <2>1 DEF CutOK, Input
  <1>5. SUFFICES ASSUME NEW s \in Pairs'
                 PROVE  /\ CutOK(history', s - 2, history'[s - 1].tail)
                        /\ \A i \in Cut(s - 2, history'[s - 1].tail) : i \in history'[s].covers \/ Past(i)'
    BY DEF CutsOK, CutOK, Cut, Input
  <1>6. s \in 1..(n + 1) /\ s > 1 /\ history'[s].kind = "summary" /\ history'[s - 1].kind = "compaction"
    BY <1>2 DEF Pairs
  <1>7. s \in Int /\ s - 1 \in 1..n /\ history'[s - 1] = history[s - 1] /\ s - 2 \in Int /\ s - 2 <= n
    BY <1>1, <1>6
  <1>8. \A i \in Cut(s - 2, history'[s - 1].tail) : i \in 1..n
    <2>1. \A i \in Cut(s - 2, history'[s - 1].tail) : i \in 1..(s - 2)
      BY DEF Cut
    <2>2. \A i \in 1..(s - 2) : i \in 1..n
      BY <1>1, <1>7
    <2> QED
      BY <2>1, <2>2
  <1>9. CASE s \in 1..n
    <2>1. history'[s] = history[s] /\ s \in Pairs
      BY <1>1, <1>2, <1>6, <1>7, <1>9 DEF Pairs
    <2>2. /\ CutOK(history, s - 2, history[s - 1].tail)
          /\ \A i \in Cut(s - 2, history[s - 1].tail) : i \in history[s].covers \/ Past(i)
      BY <2>1 DEF CutsOK
    <2> QED
      BY <1>3, <1>4, <1>7, <1>8, <2>1, <2>2
  <1>10. CASE s = n + 1
    <2>1. history'[s] = r /\ s - 1 = n /\ s - 2 = n - 1 /\ history # <<>>
      <3>1. n > 0
        BY <1>1, <1>6, <1>10
      <3>2. history # <<>>
        BY <3>1, EmptySeq DEF n
      <3> QED
        BY <1>1, <1>10, <3>2
    <2>2. r.kind = "summary"
      BY <1>6, <2>1
    <2>3. /\ CutOK(history, s - 2, history[s - 1].tail)
          /\ \A i \in Cut(s - 2, history[s - 1].tail) : i \in history'[s].covers \/ Past(i)
      BY <2>1, <2>2 DEF n
    <2> QED
      BY <1>3, <1>4, <1>7, <1>8, <2>3
  <1> QED
    BY <1>1, <1>6, <1>9, <1>10

\* A message that a run stores.
LEMMA MessageIs ==
    ASSUME NEW role \in {"user", "assistant", "tool"}, NEW size \in Nat, NEW calls \in Nat
    PROVE  /\ Message(role, size, calls) \in HistoryRecord
           /\ Message(role, size, calls).role = role /\ Message(role, size, calls).kind = "plain"
  BY DEF Message, HistoryRecord

\* A message that is not a summary, behind which the history goes on.
LEMMA Spoken ==
    ASSUME HistoryInv, NEW r \in HistoryRecord, history' = Append(history, r), r.kind # "summary",
           IF history = <<>> THEN r.kind = "plain" /\ r.role = "user"
           ELSE r.role = "tool" => r.kind = "plain" /\ Asking(history, Len(history))
    PROVE  /\ history' \in Seq(HistoryRecord) /\ history' # <<>> /\ RecordsOK(history')
           /\ Len(history') = Len(history) + 1 /\ history'[Len(history')] = r
           /\ Len(history) \in Nat
           /\ CutsOK => CutsOK'
  <1>1. history \in Seq(HistoryRecord) /\ RecordsOK(history)
    BY DEF HistoryInv, HistoryTypes
  <1>2. RecordsOK(Append(history, r))
    BY <1>1, RecordsGrow
  <1>3. CutsOK => CutsOK'
    BY <1>1, CutsGrow
  <1> QED
    BY <1>1, <1>2, <1>3, Appended

\* Nothing changes where the history does not.
LEMMA CutsStay ==
    ASSUME UNCHANGED history, CutsOK
    PROVE  CutsOK'
  <1>1. ASSUME NEW i PROVE Past(i)' <=> Past(i)
    <2>1. Tokens(1..(i - 1)) = TokensIn(history, 1..(i - 1))
      BY DEF Tokens, TokensIn
    <2>2. Tokens(1..(i - 1))' = TokensIn(history', 1..(i - 1))
      BY DEF Tokens, TokensIn
    <2>3. Tokens(1..(i - 1))' = Tokens(1..(i - 1))
      BY <2>1, <2>2
    <2> QED
      BY <2>3 DEF Past
  <1>2. Pairs' = Pairs
    BY DEF Pairs
  <1> SUFFICES ASSUME NEW s \in Pairs'
               PROVE  /\ CutOK(history', s - 2, history'[s - 1].tail)
                      /\ \A i \in Cut(s - 2, history'[s - 1].tail) : i \in history'[s].covers \/ Past(i)'
    BY DEF CutsOK, CutOK, Cut, Input
  <1>3. /\ CutOK(history, s - 2, history[s - 1].tail)
        /\ \A i \in Cut(s - 2, history[s - 1].tail) : i \in history[s].covers \/ Past(i)
    BY <1>2 DEF CutsOK
  <1> QED
    BY <1>1, <1>3

\* An empty history has the invariant.
LEMMA HistoryFirst == HistoryInit => HistoryInv
  <1> SUFFICES ASSUME HistoryInit PROVE HistoryInv
    OBVIOUS
  <1>1. history = <<>> /\ Len(history) = 0 /\ DOMAIN history = {}
    BY DEF HistoryInit
  <1>2. HistoryTypes
    BY EmptySeq DEF HistoryInit, HistoryTypes, NoChoice
  <1>3. RecordsOK(history)
    BY <1>1 DEF RecordsOK
  <1>4. StageOK /\ ChosenOK
    BY DEF HistoryInit, StageOK, ChosenOK
  <1>5. CutsOK
    BY <1>1 DEF CutsOK, Pairs
  <1> QED
    BY <1>2, <1>3, <1>4, <1>5 DEF HistoryInv

\* The two actions that write a compaction's records keep the invariant ...
LEMMA ChooseKeeps ==
    ASSUME HistoryAssumption, HistoryInv, NEW keep, Choose(keep), stage \in {"build", "call"}
    PROVE  HistoryInv'
  <1> DEFINE sel == Select(keep)
             r == [Message("user", 1, 0) EXCEPT !.kind = "compaction", !.tail = sel.start]
             n == Len(history)
  <1>1. history \in Seq(HistoryRecord) /\ RecordsOK(history) /\ history # <<>> /\ whole \in BOOLEAN
    BY DEF HistoryInv, HistoryTypes, StageOK
  <1>2. SelectionOK(sel)
    BY <1>1, SelectCuts DEF HistoryAssumption
  <1>3. /\ history' = Append(history, r)
        /\ chosen' = [head |-> sel.head, start |-> sel.start]
        /\ whole' = (whole /\ ~sel.parted)
        /\ stage' = "summary"
    BY DEF Choose
  <1> HIDE DEF sel
  <1>4. /\ r \in HistoryRecord /\ r.kind = "compaction" /\ r.role = "user" /\ r.tail = sel.start
    BY <1>2 DEF Message, HistoryRecord, SelectionOK
  <1> HIDE DEF r
  <1>5. /\ history' \in Seq(HistoryRecord) /\ history' # <<>> /\ RecordsOK(history')
        /\ Len(history') = n + 1 /\ history'[Len(history')] = r /\ n \in Nat
        /\ CutsOK => CutsOK'
    BY <1>1, <1>3, <1>4, Spoken
  <1>6. HistoryTypes'
    BY <1>1, <1>2, <1>3, <1>5 DEF HistoryTypes, SelectionOK
  <1>7. StageOK'
    BY <1>3, <1>4, <1>5 DEF StageOK
  <1>8. whole' => CutsOK' /\ ChosenOK'
    <2> SUFFICES ASSUME whole' PROVE CutsOK' /\ ChosenOK'
      OBVIOUS
    <2>1. whole /\ ~sel.parted
      BY <1>3
    <2>2. CutsOK
      BY <2>1 DEF HistoryInv
    <2>3. sel.head = Cut(n, sel.start) /\ CutOK(history, n, sel.start)
      BY <1>2, <2>1 DEF SelectionOK
    <2>4. CutOK(history', n, sel.start)
      <3>1. \A i \in 1..n : history'[i] = history[i]
        BY <1>1, <1>3, <1>4, Appended
      <3> QED
        BY <2>3, <3>1 DEF CutOK, Input
    <2>5. Len(history') - 1 = n
      BY <1>5
    <2>6. chosen'.start = sel.start /\ chosen'.head = sel.head
      BY <1>3
    <2> HIDE DEF n
    <2>7. ChosenOK'
      BY <1>3, <1>4, <1>5, <2>3, <2>4, <2>5, <2>6 DEF ChosenOK, CutOK, Cut, Input
    <2> QED
      BY <1>5, <2>2, <2>7
  <1> QED
    BY <1>5, <1>6, <1>7, <1>8 DEF HistoryInv, RecordsOK, Input, Asking

LEMMA SummaryKeeps ==
    ASSUME HistoryAssumption, HistoryInv, AppendSummary
    PROVE  HistoryInv'
  <1> DEFINE r == [Message("assistant", 1, 0) EXCEPT !.kind = "summary", !.tail = chosen.start,
                                                     !.covers = Covered(chosen.head)]
             n == Len(history)
  <1>1. /\ history \in Seq(HistoryRecord) /\ RecordsOK(history) /\ history # <<>> /\ whole \in BOOLEAN
        /\ stage = "summary" /\ history[n].kind = "compaction"
        /\ chosen.head \in SUBSET Nat /\ chosen.start \in Nat
    BY DEF HistoryInv, HistoryTypes, StageOK, AppendSummary
  <1>2. /\ history' = Append(history, r) /\ chosen' = NoChoice /\ whole' = whole /\ stage' = "call"
    BY DEF AppendSummary
  <1>3. /\ r \in HistoryRecord /\ r.kind = "summary" /\ r.role = "assistant" /\ r.covers = Covered(chosen.head)
    <2>1. Covered(chosen.head) \in SUBSET Nat
      BY <1>1 DEF Covered
    <2> QED
      BY <1>1, <2>1 DEF Message, HistoryRecord
  <1> HIDE DEF r
  <1>4. RecordsOK(history')
    BY <1>1, <1>2, <1>3, RecordsGrow
  <1>5. /\ history' \in Seq(HistoryRecord) /\ history' # <<>>
        /\ Len(history') = n + 1 /\ history'[Len(history')] = r /\ n \in Nat
    BY <1>1, <1>2, <1>3, Appended
  <1>6. HistoryTypes'
    BY <1>1, <1>2, <1>5 DEF HistoryTypes, NoChoice
  <1>7. StageOK'
    BY <1>2, <1>3, <1>5 DEF StageOK
  <1>8. whole' => CutsOK'
    <2> SUFFICES ASSUME whole' PROVE CutsOK'
      OBVIOUS
    <2>1. CutsOK /\ ChosenOK
      BY <1>2 DEF HistoryInv
    <2>2. /\ history[n].tail = chosen.start /\ CutOK(history, n - 1, chosen.start)
          /\ chosen.head = Cut(n - 1, chosen.start)
      BY <1>1, <2>1 DEF ChosenOK
    <2>3. ASSUME NEW i \in Cut(n - 1, chosen.start) PROVE i \in r.covers \/ Past(i)
      <3>1. i \in 1..(n - 1) /\ (chosen.start = 0 \/ i < chosen.start)
        BY DEF Cut
      <3>2. {j \in chosen.head : j < i} = 1..(i - 1)
        <4>1. ASSUME NEW j \in 1..(i - 1) PROVE j \in chosen.head /\ j < i
          <5>1. j \in 1..(n - 1) /\ j < i /\ (chosen.start = 0 \/ j < chosen.start)
            <6>1. n - 1 \in Int /\ i \in Nat /\ j \in Nat /\ i <= n - 1 /\ 1 <= j /\ j <= i - 1
              BY <1>5, <3>1
            <6> QED
              BY <1>1, <3>1, <6>1
          <5> QED
            BY <2>2, <5>1 DEF Cut
        <4>2. ASSUME NEW j \in chosen.head, j < i PROVE j \in 1..(i - 1)
          <5>1. j \in 1..(n - 1)
            BY <2>2 DEF Cut
          <5> QED
            BY <1>5, <3>1, <4>2, <5>1
        <4> QED
          BY <4>1, <4>2
      <3>3. Tokens(1..(i - 1)) \in Nat /\ PromptLimit \in Nat
        <4>1. TokensIn(history, 1..(i - 1)) \in Nat
          BY <1>1, TokensTyped
        <4> QED
          BY <4>1 DEF Tokens, TokensIn, HistoryAssumption
      <3>4. i \in chosen.head
        BY <2>2
      <3>5. Tokens(1..(i - 1)) <= PromptLimit => i \in Covered(chosen.head)
        BY <3>2, <3>4 DEF Covered
      <3> QED
        BY <1>3, <3>3, <3>5 DEF Past
    <2> QED
      BY <1>1, <1>2, <1>3, <2>1, <2>2, <2>3, CutsGrow
  <1>9. ChosenOK'
    BY <1>2 DEF ChosenOK
  <1> QED
    BY <1>4, <1>6, <1>7, <1>8, <1>9 DEF HistoryInv, RecordsOK, Input, Asking

\* ... and so does every step.
LEMMA HistoryStep ==
    ASSUME HistoryAssumption, HistoryInv, [HistoryNext]_historyVars
    PROVE  HistoryInv'
  <1> DEFINE n == Len(history)
  <1>1. history \in Seq(HistoryRecord) /\ RecordsOK(history) /\ whole \in BOOLEAN
    BY DEF HistoryInv, HistoryTypes
  <1>plain. ASSUME NEW r \in HistoryRecord, r.kind = "plain", history' = Append(history, r),
                   IF history = <<>> THEN r.role = "user" ELSE r.role = "tool" => Asking(history, n),
                   stage' \in {"idle", "build", "tools"},
                   stage' = "tools" => r.role \in {"assistant", "tool"},
                   UNCHANGED <<chosen, whole>>
            PROVE  HistoryInv'
    <2>1. /\ history' \in Seq(HistoryRecord) /\ history' # <<>> /\ RecordsOK(history')
          /\ Len(history') = n + 1 /\ history'[Len(history')] = r
          /\ CutsOK => CutsOK'
      BY <1>plain, Spoken
    <2>2. HistoryTypes'
      BY <1>plain, <2>1 DEF HistoryInv, HistoryTypes
    <2>3. StageOK'
      BY <1>plain, <2>1 DEF StageOK, Plain, Asking
    <2>4. ChosenOK'
      BY <1>plain DEF ChosenOK
    <2>5. whole' => CutsOK'
      BY <1>plain, <2>1 DEF HistoryInv
    <2> QED
      BY <2>1, <2>2, <2>3, <2>4, <2>5 DEF HistoryInv, RecordsOK, Input, Asking
  <1>same. ASSUME UNCHANGED <<history, whole>>, chosen' \in [head : SUBSET Nat, start : Nat],
                  stage' = "idle" \/ (stage' = "call" /\ stage = "build")
           PROVE  HistoryInv'
    <2>1. HistoryTypes'
      BY <1>same DEF HistoryInv, HistoryTypes
    <2>2. RecordsOK(history)'
      BY <1>1, <1>same DEF RecordsOK, Input, Asking
    <2>3. StageOK'
      <3>1. stage = "build" => history # <<>> /\ history[n].kind = "plain"
        BY DEF HistoryInv, StageOK, Plain
      <3> QED
        BY <1>same, <3>1 DEF StageOK
    <2>4. CutsOK => CutsOK'
      BY <1>same, CutsStay
    <2>5. ChosenOK'
      BY <1>same DEF ChosenOK
    <2> QED
      BY <1>same, <2>1, <2>2, <2>3, <2>4, <2>5 DEF HistoryInv
  <1>2. ASSUME NEW size \in Sizes, UserSpeaks(size) PROVE HistoryInv'
    <2>1. size \in Nat
      BY DEF HistoryAssumption
    <2>2. /\ Message("user", size, 0) \in HistoryRecord /\ Message("user", size, 0).role = "user"
          /\ Message("user", size, 0).kind = "plain"
      BY <2>1, MessageIs
    <2> QED
      BY <1>2, <1>plain, <2>2 DEF UserSpeaks
  <1>3. ASSUME NEW size \in Sizes, ToolAnswers(size) PROVE HistoryInv'
    <2>1. size \in Nat
      BY DEF HistoryAssumption
    <2>2. /\ Message("tool", size, 0) \in HistoryRecord /\ Message("tool", size, 0).role = "tool"
          /\ Message("tool", size, 0).kind = "plain"
      BY <2>1, MessageIs
    <2>3. history # <<>> /\ Asking(history, n)
      BY <1>3 DEF ToolAnswers, HistoryInv, StageOK
    <2>4. stage' \in {"build", "tools"} /\ UNCHANGED <<chosen, whole>> /\ history' = Append(history, Message("tool", size, 0))
      BY <1>3 DEF ToolAnswers
    <2> QED
      BY <1>plain, <2>2, <2>3, <2>4
  <1>4. ASSUME NEW size \in Sizes, NEW calls \in 0..MaxCalls, ModelAnswers(size, calls) PROVE HistoryInv'
    <2>1. size \in Nat /\ calls \in Nat
      BY DEF HistoryAssumption
    <2>2. /\ Message("assistant", size, calls) \in HistoryRecord /\ Message("assistant", size, calls).role = "assistant"
          /\ Message("assistant", size, calls).kind = "plain"
      BY <2>1, MessageIs
    <2>3. history # <<>>
      BY <1>4 DEF ModelAnswers, HistoryInv, StageOK
    <2>4. stage' \in {"idle", "tools"} /\ UNCHANGED <<chosen, whole>>
          /\ history' = Append(history, Message("assistant", size, calls))
      BY <1>4 DEF ModelAnswers
    <2> QED
      BY <1>plain, <2>2, <2>3, <2>4
  <1>5. CASE CompactIfNeeded
    BY <1>5, ChooseKeeps DEF CompactIfNeeded
  <1>6. CASE CompactAfterOverflow
    BY <1>6, ChooseKeeps DEF CompactAfterOverflow
  <1>7. CASE AppendSummary
    BY <1>7, SummaryKeeps
  <1>8. CASE BuildContext
    <2>1. chosen \in [head : SUBSET Nat, start : Nat]
      BY DEF HistoryInv, HistoryTypes
    <2> QED
      BY <1>8, <1>same, <2>1 DEF BuildContext
  <1>9. CASE RunStops
    <2>1. NoChoice \in [head : SUBSET Nat, start : Nat]
      BY DEF NoChoice
    <2> QED
      BY <1>9, <1>same, <2>1 DEF RunStops
  <1>10. CASE UNCHANGED historyVars
    <2>1. UNCHANGED <<history, stage, chosen, whole>>
      BY <1>10 DEF historyVars
    <2>2. CutsOK => CutsOK'
      BY <2>1, CutsStay
    <2>3. HistoryTypes'
      BY <2>1 DEF HistoryInv, HistoryTypes
    <2>4. RecordsOK(history)'
      BY <1>1, <2>1 DEF RecordsOK, Input, Asking
    <2>5. StageOK'
      BY <2>1 DEF HistoryInv, StageOK, Asking, Plain
    <2>6. ChosenOK => ChosenOK'
      BY <2>1 DEF ChosenOK, CutOK, Cut, Input
    <2> QED
      BY <2>1, <2>2, <2>3, <2>4, <2>5, <2>6 DEF HistoryInv
  <1> QED
    BY <1>2, <1>3, <1>4, <1>5, <1>6, <1>7, <1>8, <1>9, <1>10 DEF HistoryNext

-----------------------------------------------------------------------------
(* What a request shows.                                                    *)
KeptTail(s) == {i \in 1..(s - 2) : history[s - 1].tail # 0 /\ history[s - 1].tail <= i /\ Plain(i)}
Behind(s) == {i \in 1..Len(history) : \E j \in 1..Len(history) : s < j /\ j <= i /\ Plain(j)}
Visible == IF Pairs = {} THEN 1..Len(history) ELSE {0} \cup KeptTail(Max(Pairs)) \cup Behind(Max(Pairs))

\* The pair that the filter goes by.
LEMMA LastPair ==
    ASSUME history \in Seq(HistoryRecord), Pairs # {}
    PROVE  LET s == Max(Pairs)
           IN  /\ s \in Pairs /\ s \in 1..Len(history) /\ s > 1 /\ s - 1 \in 1..Len(history)
               /\ history[s].kind = "summary" /\ history[s - 1].kind = "compaction"
               /\ \A i \in Pairs : i <= s
  <1>1. Len(history) \in Nat /\ DOMAIN history = 1..Len(history)
    OBVIOUS
  <1>2. Pairs \in SUBSET (1..Len(history))
    BY <1>1 DEF Pairs
  <1>3. Max(Pairs) \in Pairs /\ \A i \in Pairs : i <= Max(Pairs)
    BY <1>1, <1>2, Extremes
  <1>4. \A s \in Pairs : /\ s \in 1..Len(history) /\ s > 1 /\ s - 1 \in 1..Len(history)
                         /\ history[s].kind = "summary" /\ history[s - 1].kind = "compaction"
    BY <1>1 DEF Pairs
  <1> QED
    BY <1>3, <1>4

\* The filter lists what is visible, in order.
LEMMA FilterLists ==
    ASSUME history \in Seq(HistoryRecord)
    PROVE  /\ InOrderOf(Filter, Visible)
           /\ \A i \in Visible : i \in Nat /\ SizeOf(i) \in Nat
  <1> DEFINE n == Len(history)
             s == Max(Pairs)
             start == history[s - 1].tail
             tail == IF start = 0 THEN {} ELSE {i \in start..(s - 2) : Plain(i)}
             ends == {i \in DOMAIN history : i > s /\ Plain(i)}
             after == IF ends = {} THEN {} ELSE Min(ends)..Len(history)
  <1>1. n \in Nat /\ DOMAIN history = 1..n
    OBVIOUS
  <1>2. CASE Pairs = {}
    <2>1. Filter = [i \in 1..n |-> i] /\ Visible = 1..n
      BY <1>1, <1>2 DEF Filter, Visible
    <2> DEFINE l == [i \in 1..n |-> i]
    <2>2. l \in Seq(Nat) /\ Len(l) = n /\ (\A i \in 1..n : l[i] = i) /\ DOMAIN l = 1..n
      BY <1>1
    <2> HIDE DEF l, n
    <2>3. ToSet(l) = 1..n
      BY <2>2 DEF ToSet
    <2>4. InOrderOf(l, 1..n)
      BY <2>2, <2>3 DEF InOrderOf
    <2>5. \A i \in 1..n : i \in Nat /\ SizeOf(i) \in Nat
      <3>1. \A i \in 1..n : i # 0 /\ i \in Nat
        BY <1>1
      <3>2. \A i \in 1..n : history[i].size \in Nat
        BY RecordFields DEF n
      <3> QED
        BY <3>1, <3>2 DEF SizeOf
    <2> QED
      BY <2>1, <2>4, <2>5 DEF l
  <1>3. CASE Pairs # {}
    <2>1. s \in 1..n /\ s > 1 /\ s - 1 \in 1..n
      BY <1>3, LastPair
    <2>2. Filter = <<0>> \o InOrder(tail) \o InOrder(after)
      BY <1>3 DEF Filter
    <2>3. Visible = {0} \cup KeptTail(s) \cup Behind(s)
      BY <1>3 DEF Visible
    <2>4. start \in Nat
      BY <2>1, RecordFields
    <2> HIDE DEF n, s
    <2>5. tail = KeptTail(s)
      <3>1. \A i : i \in start..(s - 2) /\ start # 0 <=> i \in 1..(s - 2) /\ start # 0 /\ start <= i
        BY <1>1, <2>1, <2>4
      <3> HIDE DEF start
      <3>2. \A i : i \in tail <=> i \in KeptTail(s)
        BY <3>1 DEF KeptTail, start
      <3> HIDE DEF tail
      <3> QED
        BY <3>2 DEF KeptTail
    <2>6. after = Behind(s)
      <3>1. ends \in SUBSET (1..n)
        BY <1>1
      <3>2. CASE ends = {}
        <4>1. \A j \in 1..n : ~(s < j /\ Plain(j))
          BY <1>1, <2>1, <3>2
        <4> QED
          BY <3>2, <4>1 DEF Behind, n
      <3>3. CASE ends # {}
        <4> DEFINE m == Min(ends)
        <4>1. m \in ends /\ \A x \in ends : m <= x
          <5> HIDE DEF ends
          <5> QED
            BY <1>1, <3>1, <3>3, Extremes
        <4>2. m \in 1..n /\ s < m /\ Plain(m)
          BY <1>1, <2>1, <4>1
        <4> HIDE DEF m
        <4>3. \A i \in m..n : i \in 1..n /\ m <= i
          BY <1>1, <4>2
        <4>4. m..n \subseteq Behind(s)
          BY <4>2, <4>3 DEF Behind, n
        <4>5. ASSUME NEW i \in Behind(s) PROVE i \in m..n
          <5>1. PICK j \in 1..n : s < j /\ j <= i /\ Plain(j)
            BY <4>5 DEF Behind, n
          <5>2. i \in 1..n
            BY <4>5 DEF Behind, n
          <5>3. j \in ends
            BY <1>1, <2>1, <5>1
          <5>4. m <= j
            BY <4>1, <5>3
          <5> QED
            BY <1>1, <4>2, <5>1, <5>2, <5>4
        <4>6. after = m..n
          BY <3>3 DEF m, n
        <4> QED
          BY <4>4, <4>5, <4>6
      <3> QED
        BY <3>2, <3>3
    <2> HIDE DEF tail, after, ends, start
    <2>7. KeptTail(s) \in SUBSET (1..n) /\ \A i \in KeptTail(s) : i <= s - 2 /\ i \in Nat /\ 0 < i
      <3>1. \A i \in 1..(s - 2) : i \in 1..n /\ i <= s - 2 /\ i \in Nat /\ 0 < i
        BY <1>1, <2>1
      <3> QED
        BY <3>1 DEF KeptTail
    <2>8. Behind(s) \in SUBSET (1..n) /\ \A i \in Behind(s) : s < i /\ i \in Nat
      <3>1. \A i, j \in 1..n : s < j /\ j <= i => s < i /\ i \in Nat
        BY <1>1, <2>1
      <3> QED
        BY <3>1 DEF Behind, n
    <2>9. InOrderOf(InOrder(tail), KeptTail(s)) /\ InOrderOf(InOrder(after), Behind(s))
      BY <2>5, <2>6, <2>7, <2>8, InOrderIs DEF n
    <2>10. \A x \in KeptTail(s) : \A y \in Behind(s) : x < y
      <3> TAKE x \in KeptTail(s)
      <3> TAKE y \in Behind(s)
      <3> QED
        BY <1>1, <2>1, <2>7, <2>8
    <2>11. InOrderOf(<<0>>, {0})
      BY InOrderOne
    <2>12. \A x \in {0} : \A y \in KeptTail(s) : x < y
      BY <2>7
    <2>13. InOrderOf(<<0>> \o InOrder(tail), {0} \cup KeptTail(s))
      BY <2>9, <2>11, <2>12, InOrderJoined
    <2>14. \A x \in {0} \cup KeptTail(s) : \A y \in Behind(s) : x < y
      <3>1. \A y \in Behind(s) : 0 < y
        BY <1>1, <2>1, <2>8
      <3> QED
        BY <2>10, <3>1
    <2>15. InOrderOf(Filter, Visible)
      BY <2>2, <2>3, <2>9, <2>13, <2>14, InOrderJoined
    <2>16. ASSUME NEW i \in Visible PROVE i \in Nat /\ SizeOf(i) \in Nat
      <3>1. i = 0 \/ (i \in 1..n /\ i \in Nat)
        BY <2>3, <2>7, <2>8, <2>16
      <3>2. \A j \in 1..n : history[j].size \in Nat
        BY RecordFields DEF n
      <3> QED
        BY <2>1, <3>1, <3>2 DEF SizeOf, s
    <2> QED
      BY <2>15, <2>16
  <1> QED
    BY <1>2, <1>3

\* What is shown is what is visible.
LEMMA ShownIsVisible == ASSUME history \in Seq(HistoryRecord), NEW i PROVE Shown(i) <=> i \in Visible
  BY FilterLists DEF Shown, InOrderOf

\* Between a tool message and the message that called the tool stand tool
\* messages only.
LEMMA AskerBefore ==
    ASSUME history \in Seq(HistoryRecord), RecordsOK(history),
           NEW i \in 1..Len(history), history[i].role = "tool"
    PROVE  /\ Asker(i) \in 1..(i - 1) /\ Plain(Asker(i))
           /\ \A j \in (Asker(i) + 1)..i : history[j].role = "tool"
  <1> DEFINE n == Len(history)
             S == {j \in 1..(i - 1) : Plain(j) /\ history[j].role = "assistant"}
             m == IF S = {} THEN 0 ELSE Max(S)
             G == {d \in 0..(i - m - 1) : history[i - d].role = "tool"}
  <1>1. n \in Nat /\ i \in Nat /\ i - 1 \in Nat /\ i <= n
    OBVIOUS
  <1>2. S # {} => Max(S) \in S /\ \A x \in S : x <= Max(S)
    <2>1. S \in SUBSET (1..(i - 1))
      OBVIOUS
    <2> HIDE DEF S
    <2> QED
      BY <1>1, <2>1, Extremes
  <1>3. m \in 0..(i - 1) /\ \A x \in S : x <= m
    BY <1>1, <1>2
  <1> HIDE DEF m
  <1>4. i - m - 1 \in Nat /\ m \in Nat
    BY <1>1, <1>3
  <1>5. 0 \in G
    BY <1>1, <1>4
  <1>6. ASSUME NEW d \in 1..(i - m - 1), d - 1 \in G PROVE d \in G
    <2>1. history[i - (d - 1)].role = "tool" /\ i - (d - 1) \in 1..n
      BY <1>1, <1>4, <1>6
    <2>2. (i - (d - 1)) - 1 = i - d /\ i - d \in 1..(i - 1) /\ ~(i - d <= m) /\ d \in 0..(i - m - 1)
      BY <1>1, <1>4
    <2>3. Asking(history, i - d)
      BY <2>1, <2>2 DEF RecordsOK, n
    <2>4. i - d \notin S
      BY <1>3, <2>2
    <2>5. history[i - d].role # "assistant"
      BY <2>2, <2>3, <2>4 DEF Asking, Plain
    <2> QED
      BY <2>2, <2>3, <2>5 DEF Asking
  <1> HIDE DEF G
  <1>7. 0..(i - m - 1) \subseteq G
    BY <1>4, <1>5, <1>6, Climb
  <1>8. ASSUME NEW j \in (m + 1)..i PROVE history[j].role = "tool"
    <2>1. i - j \in 0..(i - m - 1) /\ i - (i - j) = j
      BY <1>1, <1>4
    <2> QED
      BY <1>7, <2>1 DEF G
  <1>9. S # {}
    <2> SUFFICES ASSUME S = {} PROVE FALSE
      OBVIOUS
    <2>1. m = 0
      BY DEF m
    <2>2. history[1].role = "tool"
      BY <1>1, <1>8, <2>1
    <2>3. history # <<>>
      BY <1>1, EmptySeq DEF n
    <2>4. history[1].role = "user"
      BY <2>3 DEF RecordsOK, Input
    <2> QED
      BY <2>2, <2>4
  <1>10. Asker(i) = m
    BY <1>9 DEF Asker, m
  <1>11. m \in S
    BY <1>2, <1>9 DEF m
  <1> QED
    BY <1>8, <1>10, <1>11

\* What the filter drops is in the last summary, or lay past the limit of its
\* prompt (apply_compaction_filter of the runtime), for any number of runs,
\* messages and compactions, and any sizes and limits.
THEOREM DroppedIsCovered == HistorySpec => []DroppedIsSummarised
  <1>1. HistoryInv => DroppedIsSummarised
    <2> SUFFICES ASSUME HistoryInv, whole, NEW i \in DOMAIN history, Plain(i)
                 PROVE  Shown(i) \/ i \in Summary \/ Tokens(1..(i - 1)) > PromptLimit
      BY DEF DroppedIsSummarised
    <2> DEFINE n == Len(history)
               s == Max(Pairs)
               start == history[s - 1].tail
    <2>1. history \in Seq(HistoryRecord) /\ CutsOK
      BY DEF HistoryInv, HistoryTypes
    <2>2. n \in Nat /\ DOMAIN history = 1..n /\ i \in 1..n
      BY <2>1
    <2>3. Shown(i) <=> i \in Visible
      BY <2>1, ShownIsVisible
    <2>4. CASE Pairs = {}
      BY <2>2, <2>3, <2>4 DEF Visible
    <2>5. CASE Pairs # {}
      <3>1. /\ s \in Pairs /\ s \in 1..n /\ s > 1 /\ s - 1 \in 1..n
            /\ history[s].kind = "summary" /\ history[s - 1].kind = "compaction"
        BY <2>1, <2>5, LastPair
      <3>2. \A j \in Cut(s - 2, start) : j \in history[s].covers \/ Past(j)
        BY <2>1, <3>1 DEF CutsOK
      <3>3. Visible = {0} \cup KeptTail(s) \cup Behind(s) /\ Summary = history[s].covers
        BY <2>5 DEF Visible, Summary
      <3>4. i # s /\ i # s - 1
        BY <3>1 DEF Plain
      <3>5. start \in Nat
        BY <2>1, <3>1, RecordFields
      <3> HIDE DEF s, start
      <3>6. CASE s < i
        <4>1. i \in Behind(s)
          BY <2>2, <3>6 DEF Behind
        <4> QED
          BY <2>3, <3>3, <4>1
      <3>7. CASE i \in 1..(s - 2)
        <4>1. CASE start # 0 /\ start <= i
          <5>1. i \in KeptTail(s)
            BY <3>7, <4>1 DEF KeptTail, start
          <5> QED
            BY <2>3, <3>3, <5>1
        <4>2. CASE start = 0 \/ ~(start <= i)
          <5>1. start = 0 \/ i < start
            BY <2>2, <3>5, <4>2
          <5>2. i \in Cut(s - 2, start)
            BY <3>7, <5>1 DEF Cut
          <5> QED
            BY <3>2, <3>3, <5>2 DEF Past
        <4> QED
          BY <4>1, <4>2
      <3> QED
        BY <2>2, <3>1, <3>4, <3>6, <3>7
    <2> QED
      BY <2>4, <2>5
  <1> QED
    BY <1>1, HistoryFirst, HistoryStep, HistoryAssumption, PTL DEF HistorySpec

\* A request shows the longest end of the filtered history that fits, in order
\* and with the newest message last, and a tool message only with the message
\* that called it (trim_by_tokens), where a compaction keeps at least a turn.
THEOREM ContextIsKept == ASSUME TailTurns # 0 PROVE HistorySpec => []ContextIsRecent
  <1>1. HistoryInv => ContextIsRecent
    <2> SUFFICES ASSUME HistoryInv PROVE ContextIsRecent
      OBVIOUS
    <2> DEFINE n == Len(history)
               s == Max(Pairs)
               start == history[s - 1].tail
    <2>1. /\ history \in Seq(HistoryRecord) /\ RecordsOK(history) /\ (whole => CutsOK) /\ StageOK
          /\ n \in Nat /\ DOMAIN history = 1..n
      BY DEF HistoryInv, HistoryTypes
    <2>2. InOrderOf(Filter, Visible) /\ \A i \in Visible : i \in Nat /\ SizeOf(i) \in Nat
      BY <2>1, FilterLists
    <2>3. Filter \in Seq(Nat) /\ DOMAIN Filter = 1..Len(Filter) /\ \A i \in 1..Len(Filter) : Filter[i] \in Visible
      <3>1. Filter \in Seq(Nat) /\ ToSet(Filter) = Visible
        BY <2>2 DEF InOrderOf
      <3> HIDE DEF Filter
      <3>2. DOMAIN Filter = 1..Len(Filter)
        BY <3>1
      <3> QED
        BY <3>1, <3>2 DEF ToSet
    <2>4. /\ Context = LongestEnd
          /\ Filter = <<>> => Context = <<>>
          /\ Filter # <<>> => \E k \in 1..Len(Filter) : Context = SubSeq(Filter, k, Len(Filter))
      <3>1. MaxHistory \in Nat
        BY HistoryAssumption DEF HistoryAssumption
      <3> QED
        BY <2>2, <2>3, <3>1, ContextIsLongest
    <2>5. CASE Filter = <<>>
      <3>1. Context = <<>> /\ DOMAIN Context = {}
        BY <2>4, <2>5
      <3>2. Visible = {}
        BY <2>2, <2>5 DEF InOrderOf, ToSet
      <3>3. history = <<>>
        <4>1. Pairs = {} /\ 1..n = {}
          BY <3>2 DEF Visible
        <4>2. n = 0
          <5>1. n # 0 => 1 \in 1..n
            BY <2>1
          <5> HIDE DEF n
          <5> QED
            BY <4>1, <5>1
        <4> QED
          BY <2>1, <4>2, EmptySeq
      <3>4. stage # "call"
        BY <2>1, <3>3 DEF StageOK
      <3>5. DOMAIN history = {}
        BY <3>3
      <3> QED
        BY <2>4, <3>1, <3>4, <3>5 DEF ContextIsRecent
    <2>6. CASE Filter # <<>>
      <3> DEFINE l == Filter
                 m == Len(l)
      <3>1. PICK k \in 1..m : Context = SubSeq(l, k, m)
        BY <2>4, <2>6
      <3>2. l \in Seq(Nat) /\ m \in Nat /\ k \in Nat /\ k <= m /\ m - k + 1 \in Nat \ {0} /\ m - k + 1 \in 1..(m - k + 1)
        BY <2>3
      <3>3. /\ Context \in Seq(Nat) /\ Len(Context) = m - k + 1
            /\ \A i \in 1..(m - k + 1) : Context[i] = l[k + i - 1]
        <4>1. \A i \in k..m : l[i] \in Nat
          BY <3>2
        <4>2. /\ SubSeq(l, k, m) \in Seq(Nat) /\ Len(SubSeq(l, k, m)) = m - k + 1
              /\ \A i \in 1..(m - k + 1) : SubSeq(l, k, m)[i] = l[k + i - 1]
          BY <3>2, <4>1, SubSeqProperties
        <4> QED
          BY <3>1, <4>2
      <3>4. \A i, j \in 1..m : i < j => l[i] < l[j]
        BY <2>2 DEF InOrderOf
      <3> HIDE DEF l, m
      <3>5. \A i, j \in DOMAIN Context : i < j => Context[i] < Context[j]
        <4>1. DOMAIN Context = 1..(m - k + 1)
          BY <3>3
        <4>2. \A i \in 1..(m - k + 1) : k + i - 1 \in 1..m
          BY <3>2
        <4>3. \A i, j \in 1..(m - k + 1) : i < j => k + i - 1 < k + j - 1
          BY <3>2
        <4> QED
          BY <3>3, <3>4, <4>1, <4>2, <4>3
      <3>6. Last(Context) = l[m]
        <4>1. Context[m - k + 1] = l[k + (m - k + 1) - 1] /\ k + (m - k + 1) - 1 = m
          BY <3>2, <3>3
        <4> QED
          BY <3>3, <4>1 DEF Last
      <3>7. \A p \in Visible : (\A q \in Visible : q <= p) => l[m] = p
        <4> SUFFICES ASSUME NEW p \in Visible, \A q \in Visible : q <= p PROVE l[m] = p
          OBVIOUS
        <4>1. PICK i \in 1..m : l[i] = p
          <5>1. p \in ToSet(l) /\ DOMAIN l = 1..m
            BY <2>2, <2>3 DEF InOrderOf, l, m
          <5> QED
            BY <5>1 DEF ToSet
        <4>2. m \in 1..m /\ l[m] \in Visible /\ l[m] \in Nat /\ p \in Nat
          <5>1. m \in 1..m
            BY <3>2
          <5> QED
            BY <2>2, <2>3, <5>1 DEF l, m
        <4>3. i # m => i < m
          BY <3>2
        <4>4. i # m => p < l[m]
          BY <3>4, <4>1, <4>2, <4>3
        <4> QED
          BY <4>1, <4>2, <4>4
      <3>pair. ASSUME Pairs # {}
               PROVE  /\ s \in Pairs /\ s \in 1..n /\ s \in Nat /\ ~Plain(s) /\ ~Plain(s - 1) /\ history[s].kind = "summary"
                      /\ Visible = {0} \cup KeptTail(s) \cup Behind(s)
                      /\ \A i \in Pairs : i <= s
                      /\ whole => CutOK(history, s - 2, start)
        <4>1. /\ s \in Pairs /\ s \in 1..n /\ s > 1 /\ s - 1 \in 1..n
              /\ history[s].kind = "summary" /\ history[s - 1].kind = "compaction"
              /\ \A i \in Pairs : i <= s
          BY <2>1, <3>pair, LastPair
        <4>2. whole => CutOK(history, s - 2, start)
          BY <2>1, <4>1 DEF CutsOK
        <4>3. Visible = {0} \cup KeptTail(s) \cup Behind(s)
          BY <3>pair DEF Visible
        <4> HIDE DEF s, start
        <4> QED
          BY <2>1, <4>1, <4>2, <4>3 DEF Plain
      <3> HIDE DEF s
      <3>8. ASSUME whole, stage = "call" PROVE l[m] = Max({i \in DOMAIN history : Plain(i)})
        <4> DEFINE P == {i \in DOMAIN history : Plain(i)}
        <4>1. n \in 1..n /\ history[n].kind # "compaction" /\ P \in SUBSET (1..n)
          <5>1. history # <<>> /\ history[n].kind # "compaction"
            BY <2>1, <3>8 DEF StageOK
          <5>2. n # 0
            BY <2>1, <5>1, EmptySeq
          <5> QED
            BY <2>1, <5>1, <5>2
        <4>2. SUFFICES \E p \in P : p \in Visible /\ (\A q \in P : q <= p) /\ \A q \in Visible : q <= p
          <5>1. PICK p \in P : p \in Visible /\ (\A q \in P : q <= p) /\ \A q \in Visible : q <= p
            BY <4>2
          <5>2. l[m] = p
            BY <3>7, <5>1
          <5>3. \A q \in P : q \in Nat
            BY <4>1
          <5>4. \A q \in P : (\A r \in P : q >= r) => q = p
            <6> SUFFICES ASSUME NEW q \in P, \A r \in P : q >= r PROVE q = p
              OBVIOUS
            <6>1. q >= p /\ q <= p
              BY <5>1
            <6> QED
              BY <5>1, <5>3, <6>1
          <5>5. \A q \in P : p >= q
            BY <5>1, <5>3
          <5> HIDE DEF P
          <5>6. Max(P) = p
            BY <5>1, <5>4, <5>5 DEF Max
          <5> QED
            BY <5>2, <5>6 DEF P
        <4>3. CASE Plain(n)
          <5>1. n \in P /\ \A q \in P : q <= n
            BY <2>1, <4>1, <4>3
          <5>2. n \in Visible /\ \A q \in Visible : q <= n
            <6>1. CASE Pairs = {}
              <7>1. Visible = 1..n
                BY <6>1 DEF Visible
              <7> QED
                BY <2>1, <4>1, <7>1
            <6>2. CASE Pairs # {}
              <7>1. s < n
                <8>1. s # n
                  BY <3>pair, <4>3, <6>2
                <8> QED
                  BY <2>1, <3>pair, <6>2, <8>1
              <7>2. n \in Behind(s)
                BY <2>1, <4>1, <4>3, <7>1 DEF Behind
              <7>3. \A q \in KeptTail(s) : q <= n
                <8>1. \A q \in 1..(s - 2) : q <= n
                  BY <2>1, <3>pair, <6>2
                <8> QED
                  BY <8>1 DEF KeptTail
              <7>4. \A q \in Behind(s) : q <= n
                BY <2>1 DEF Behind
              <7>5. 0 <= n
                BY <2>1
              <7> QED
                BY <3>pair, <6>2, <7>2, <7>3, <7>4, <7>5
            <6> QED
              BY <6>1, <6>2
          <5> QED
            BY <5>1, <5>2
        <4>4. CASE ~Plain(n)
          <5>1. history[n].kind = "summary"
            BY <2>1, <4>1, <4>4, RecordFields DEF Plain
          <5>2. n > 1 /\ history[n - 1].kind = "compaction"
            BY <4>1, <2>1, <5>1 DEF RecordsOK
          <5>3. n \in Pairs
            BY <2>1, <4>1, <5>1, <5>2 DEF Pairs
          <5>4. s = n
            BY <2>1, <3>pair, <5>3
          <5>5. start \in 1..(n - 2) /\ Plain(start)
            BY <3>8, <3>pair, <5>3, <5>4 DEF CutOK, Input, Plain
          <5> HIDE DEF start
          <5>6. start \in P /\ start # 0
            BY <2>1, <5>5
          <5>7. Max(P) \in P /\ \A q \in P : q <= Max(P)
            <6> HIDE DEF P
            <6> QED
              BY <2>1, <4>1, <5>6, Extremes
          <5> DEFINE p == Max(P)
          <5>8. p \in 1..n /\ Plain(p) /\ start <= p
            BY <4>1, <5>6, <5>7
          <5>9. p \in 1..(n - 2)
            <6>1. p # n /\ p # n - 1
              BY <4>4, <5>2, <5>8 DEF Plain
            <6>2. n \in Nat
              BY <2>1
            <6> HIDE DEF p, n
            <6> QED
              BY <5>8, <6>1, <6>2
          <5> HIDE DEF p
          <5>10. p \in KeptTail(n)
            BY <5>4, <5>6, <5>8, <5>9 DEF KeptTail, start
          <5>11. \A q \in KeptTail(n) : q \in P
            <6>1. \A q \in 1..(n - 2) : q \in 1..n
              BY <2>1
            <6> QED
              BY <2>1, <6>1 DEF KeptTail
          <5>12. Behind(n) = {}
            BY <2>1 DEF Behind
          <5>13. 0 <= p
            BY <5>9
          <5> HIDE DEF P
          <5> QED
            BY <3>pair, <5>3, <5>4, <5>7, <5>10, <5>11, <5>12, <5>13 DEF p
        <4> QED
          BY <4>3, <4>4
      <3>9. ASSUME whole, NEW i \in DOMAIN history, history[i].role = "tool", Shown(i) PROVE Shown(Asker(i))
        <4> DEFINE a == Asker(i)
        <4>1. i \in 1..n /\ i \in Nat
          BY <2>1
        <4>2. a \in 1..(i - 1) /\ Plain(a) /\ \A j \in (a + 1)..i : history[j].role = "tool"
          BY <2>1, <3>9, <4>1, AskerBefore
        <4> HIDE DEF a
        <4>3. i \in Visible
          BY <2>1, <3>9, ShownIsVisible
        <4>4. a \in 1..n /\ a \in Nat /\ a < i
          BY <2>1, <4>1, <4>2
        <4>5. CASE Pairs = {}
          <5>1. a \in Visible
            BY <4>4, <4>5 DEF Visible
          <5> QED
            BY <2>1, <5>1, ShownIsVisible DEF a
        <4>6. CASE Pairs # {}
          <5>1. CASE i \in KeptTail(s)
            <6>1. i \in 1..(s - 2) /\ start # 0 /\ start <= i
              BY <5>1 DEF KeptTail, s
            <6>2. start \in 1..(s - 2) /\ history[start].role = "user"
              BY <3>9, <3>pair, <4>6, <6>1 DEF CutOK, Input
            <6> HIDE DEF start
            <6>3. start <= a
              <7> SUFFICES ASSUME ~(start <= a) PROVE FALSE
                OBVIOUS
              <7>1. start \in (a + 1)..i
                BY <4>1, <4>4, <6>1, <6>2
              <7> QED
                BY <4>2, <6>2, <7>1
            <6>4. a \in 1..(s - 2)
              BY <3>pair, <4>2, <4>4, <4>6, <6>1
            <6>5. a \in KeptTail(s)
              BY <4>2, <6>1, <6>3, <6>4 DEF KeptTail, start, s
            <6> QED
              BY <2>1, <3>pair, <4>6, <6>5, ShownIsVisible DEF a
          <5>2. CASE i \in Behind(s)
            <6>1. s < i
              <7>1. PICK j \in 1..n : s < j /\ j <= i
                BY <5>2 DEF Behind
              <7> QED
                BY <3>pair, <4>1, <4>6, <7>1
            <6>2. history[s].role # "tool"
              BY <2>1, <3>pair, <4>6 DEF RecordsOK
            <6>3. s < a
              <7>1. s \notin (a + 1)..i
                BY <4>2, <6>2
              <7>2. s # a
                BY <3>pair, <4>2, <4>6
              <7> QED
                BY <3>pair, <4>1, <4>4, <4>6, <6>1, <7>1, <7>2
            <6>4. a \in Behind(s)
              BY <4>2, <4>4, <6>3 DEF Behind
            <6> QED
              BY <2>1, <3>pair, <4>6, <6>4, ShownIsVisible DEF a
          <5> QED
            BY <3>pair, <4>1, <4>3, <4>6, <5>1, <5>2
        <4> QED
          BY <4>5, <4>6
      <3> QED
        BY <2>4, <3>5, <3>6, <3>8, <3>9 DEF ContextIsRecent
    <2> QED
      BY <2>5, <2>6
  <1> QED
    BY <1>1, HistoryFirst, HistoryStep, HistoryAssumption, PTL DEF HistorySpec
=============================================================================
