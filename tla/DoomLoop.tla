------------------------------ MODULE DoomLoop ------------------------------
(* The doom loop detector and the run that asks it about every call of a     *)
(* batch before the batch is executed. A resumed run has an empty detector.  *)
EXTENDS Naturals, Sequences, FiniteSets

CONSTANTS
    Fingerprints, \* tool calls: equal name and canonical arguments
    Configs,      \* [consecutive, minCycle, maxCycle, repetitions]
    MaxBatch, MaxRecorded, MaxResumes \* bounds

\* A threshold or a cycle length of 0 makes the first call a loop.
ASSUME DoomAssumption ==
    /\ MaxBatch \in Nat
    /\ \A c \in Configs :
           /\ c.consecutive \in Nat \ {0} /\ c.minCycle \in Nat \ {0}
           /\ c.maxCycle \in Nat /\ c.repetitions \in Nat

VARIABLES
    config,
    recorded, \* the detector's history
    executed, \* the calls whose batch went ahead, over all incarnations
    verdict,  \* "none", "duplicate" or "cycle"
    resumes

doomVars == <<config, recorded, executed, verdict, resumes>>

DoomInit ==
    /\ config \in Configs
    /\ recorded = <<>> /\ executed = <<>> /\ verdict = "none" /\ resumes = 0

\* check_consecutive_duplicate.
Duplicate(h) ==
    LET n == Len(h)
    IN  n >= config.consecutive /\ \A i \in (n - config.consecutive + 1)..n : h[i] = h[n]

\* Mutant: the pattern itself counts as its first repetition.
RepeatsFewer(h, length) ==
    LET start == Len(h) - length * config.repetitions
    IN  /\ start >= 0
        /\ \A rep \in 1..(config.repetitions - 1), i \in 1..length : h[start + rep * length + i] = h[start + i]

\* One round of check_cycle: the history ends with a pattern of the length
\* and `repetitions` more copies of it.
Repeats(h, length) ==
    LET start == Len(h) - length * (config.repetitions + 1)
    IN  /\ start >= 0
        /\ \A rep \in 1..config.repetitions, i \in 1..length : h[start + rep * length + i] = h[start + i]

Cycle(h) == \E length \in config.minCycle..config.maxCycle : Repeats(h, length)

Tripped(h) == Duplicate(h) \/ Cycle(h)

\* The first call of a batch that trips the detector, or its last call.
BatchEnd(batch) ==
    LET trips == {i \in DOMAIN batch : Tripped(recorded \o SubSeq(batch, 1, i))}
    IN  IF trips = {} THEN Len(batch) ELSE CHOOSE i \in trips : \A j \in trips : i <= j

\* The ExecutingTools block: record_and_check per call, then the batch or the
\* failure of the run.
RunBatch(batch) ==
    LET h == recorded \o SubSeq(batch, 1, BatchEnd(batch))
    IN  /\ verdict = "none"
        /\ Len(recorded) + Len(batch) <= MaxRecorded
        /\ recorded' = h
        /\ verdict' = IF Duplicate(h) THEN "duplicate" ELSE IF Cycle(h) THEN "cycle" ELSE "none"
        /\ executed' = IF Tripped(h) THEN executed ELSE executed \o batch
        /\ UNCHANGED <<config, resumes>>

\* The run crashes and is resumed; it may execute its last batch again.
ResumeEmpty ==
    /\ verdict = "none" /\ resumes < MaxResumes /\ recorded # <<>>
    /\ recorded' = <<>>
    /\ resumes' = resumes + 1
    /\ UNCHANGED <<config, executed, verdict>>

DoomNext ==
    \/ \E n \in 1..MaxBatch : \E batch \in [1..n -> Fingerprints] : RunBatch(batch)
    \/ ResumeEmpty
-----------------------------------------------------------------------------
\* The length of the longest stretch of equal calls, and whether the sequence
\* has a stretch of the length that goes on with the period.
Stretches(s) == {r \in (1..Len(s)) \X (1..Len(s)) : r[1] <= r[2]}
Periodic(s, from, to, period) == \A i \in from..(to - period) : s[i] = s[i + period]

\* A run never executes a loop, also not one that goes round over several
\* batches: a call `consecutive` times in a row, a cycle `repetitions` + 1
\* times, or so often in each incarnation of a resumed run. And what stops it
\* is such a loop, whatever came before it.
LoopsAreStopped ==
    /\ \A r \in Stretches(executed) :
        LET length == r[2] - r[1] + 1
        IN  /\ Periodic(executed, r[1], r[2], 1) =>
                   length <= (config.consecutive - 1) * (resumes + 1)
            /\ \A c \in config.minCycle..config.maxCycle :
                   Periodic(executed, r[1], r[2], c) =>
                       length <= (c * (config.repetitions + 1) - 1) * (resumes + 1)
    /\ verdict # "none" =>
        \E r \in Stretches(recorded) :
            /\ r[2] = Len(recorded)
            /\ \E c \in {1} \cup config.minCycle..config.maxCycle :
                /\ Periodic(recorded, r[1], r[2], c)
                /\ r[2] - r[1] + 1 = IF verdict = "duplicate" THEN config.consecutive
                                      ELSE c * (config.repetitions + 1)
=============================================================================
