------------------------------ MODULE ToolProofs ------------------------------
(* Theorems about tool calls: the batches that runs execute, the approval     *)
(* gate they wait at, the limited runtime of the tool crate, and the doom     *)
(* loop detector.                                                             *)
EXTENDS ToolBatch, ApprovalGate, ToolLimits, DoomLoop, WellFoundedInduction, SequenceTheorems, TLAPS

-----------------------------------------------------------------------------
(* Batches that share one semaphore: for any lists of calls, any permits and *)
(* any changes of the registry meanwhile.                                    *)
BatchSpec == BatchInit /\ [][BatchNext]_batchVars

Phases == {"idle", "together", "alone", "returned", "failed", "dropped"}
Statuses == {"waiting", "running", "ok", "error"}
Ends == {"ok", "error"}

\* What one batch is made of.
Made(s, phase, status, results) ==
    [phase |-> phase, calls |-> s.calls, together |-> s.together,
     status |-> status, results |-> results]

WellFormed(s) ==
    /\ s = Made(s, s.phase, s.status, s.results)
    /\ s.phase \in Phases /\ s.calls \in Seq(Tools)
    /\ s.together \subseteq DOMAIN s.calls
    /\ s.status \in [DOMAIN s.calls -> Statuses]
    /\ s.results \in [DOMAIN s.calls -> [call: Nat, out: Ends] \cup {None}]

Given(s, i) == s.results[i] # None

\* Results are those of the calls at their places. An exclusive call is not begun
\* before the results of all concurrent calls and of the exclusive ones before it
\* are there, and none stands behind an error that ends the batch.
InOrder(s) ==
    /\ \A i \in DOMAIN s.calls : Given(s, i) =>
           /\ s.results[i] = [call |-> i, out |-> s.status[i]]
           /\ s.status[i] \in Ends /\ (s.status[i] = "ok" \/ lenient)
    /\ \A i \in DOMAIN s.calls \ s.together : s.status[i] # "waiting" =>
           \A j \in DOMAIN s.calls : j \in s.together \/ j < i => Given(s, j)
    /\ s.phase \in {"idle", "together"} =>
           \A i \in DOMAIN s.calls \ s.together : s.status[i] = "waiting"
    /\ s.phase = "alone" =>
           /\ \A i \in s.together : Given(s, i)
           /\ \A i \in DOMAIN s.calls \ s.together : s.status[i] = "error" => lenient
    /\ s.phase = "returned" => \A i \in DOMAIN s.calls : Given(s, i)

\* Unless a store failed, a result is given only when it is recorded, and a batch
\* that failed lacks records only behind the concurrent call that failed it.
Stored(s, b, failures, records) ==
    /\ s.phase = "dropped" => failures # 0
    /\ failures = 0 => \A i \in DOMAIN s.calls : s.status[i] = "ok" =>
           /\ Given(s, i) => [batch |-> b, call |-> i, out |-> "ok"] \in records
           /\ s.phase = "failed" =>
                  \/ [batch |-> b, call |-> i, out |-> "ok"] \in records
                  \/ ~lenient /\ \E j \in s.together : j < i /\ s.status[j] = "error"

BatchInv ==
    /\ lenient \in BOOLEAN /\ faults \in Nat /\ DOMAIN batch = Batches
    /\ \A b \in Batches :
           WellFormed(batch[b]) /\ InOrder(batch[b]) /\ Stored(batch[b], b, faults, executions)

\* Every non-empty set of numbers has a least one.
LEMMA LeastExists ==
  ASSUME NEW S \in SUBSET Nat, S # {}
  PROVE  \E i \in S : \A j \in S : i <= j
PROOF
  <1>1. IsWellFoundedOn(OpToRel(<, Nat), Nat)
    BY NatLessThanWellFounded
  <1>2. PICK i \in S : \A j \in S : ~ (<<j, i>> \in OpToRel(<, Nat))
    BY <1>1, WFMin
  <1>3. \A j \in S : ~ (j < i)
    BY <1>2 DEF OpToRel
  <1> QED
    BY <1>3

\* What a batch is after one write, as a record.
LEMMA Written ==
  ASSUME NEW s, WellFormed(s)
  PROVE  /\ \A p : [s EXCEPT !.phase = p] = Made(s, p, s.status, s.results)
         /\ \A st : [s EXCEPT !.status = st] = Made(s, s.phase, st, s.results)
         /\ \A res : [s EXCEPT !.results = res] = Made(s, s.phase, s.status, res)
         /\ \A p, st : [s EXCEPT !.status = st, !.phase = p] = Made(s, p, st, s.results)
         /\ \A p, st : [s EXCEPT !.phase = p, !.status = st] = Made(s, p, st, s.results)
         /\ \A p, res : [s EXCEPT !.phase = p, !.results = res] = Made(s, p, s.status, res)
PROOF
  <1>1. s = Made(s, s.phase, s.status, s.results)
    BY DEF WellFormed
  <1>2. /\ \A p : [s EXCEPT !.phase = p] = Made(s, p, s.status, s.results)
        /\ \A st : [s EXCEPT !.status = st] = Made(s, s.phase, st, s.results)
        /\ \A res : [s EXCEPT !.results = res] = Made(s, s.phase, s.status, res)
    BY <1>1 DEF Made
  <1>3. ASSUME NEW p, NEW v PROVE [s EXCEPT !.status = v, !.phase = p] = Made(s, p, v, s.results)
    <2> DEFINE r == [s EXCEPT !.status = v]
    <2>1. [s EXCEPT !.status = v, !.phase = p] = [r EXCEPT !.phase = p]
      OBVIOUS
    <2>2. r = Made(s, s.phase, v, s.results)
      BY <1>1 DEF Made
    <2> HIDE DEF r
    <2>3. [r EXCEPT !.phase = p] = Made(s, p, v, s.results)
      BY <2>2 DEF Made
    <2> QED
      BY <2>1, <2>3
  <1>4. ASSUME NEW p, NEW v PROVE [s EXCEPT !.phase = p, !.status = v] = Made(s, p, v, s.results)
    <2> DEFINE r == [s EXCEPT !.phase = p]
    <2>1. [s EXCEPT !.phase = p, !.status = v] = [r EXCEPT !.status = v]
      OBVIOUS
    <2>2. r = Made(s, p, s.status, s.results)
      BY <1>1 DEF Made
    <2> HIDE DEF r
    <2>3. [r EXCEPT !.status = v] = Made(s, p, v, s.results)
      BY <2>2 DEF Made
    <2> QED
      BY <2>1, <2>3
  <1>5. ASSUME NEW p, NEW v PROVE [s EXCEPT !.phase = p, !.results = v] = Made(s, p, s.status, v)
    <2> DEFINE r == [s EXCEPT !.phase = p]
    <2>1. [s EXCEPT !.phase = p, !.results = v] = [r EXCEPT !.results = v]
      OBVIOUS
    <2>2. r = Made(s, p, s.status, s.results)
      BY <1>1 DEF Made
    <2> HIDE DEF r
    <2>3. [r EXCEPT !.results = v] = Made(s, p, s.status, v)
      BY <2>2 DEF Made
    <2> QED
      BY <2>1, <2>3
  <1> QED
    BY <1>2, <1>3, <1>4, <1>5

\* What is made of a well-formed batch is well-formed.
LEMMA MadeWell ==
  ASSUME NEW s, WellFormed(s), NEW p \in Phases,
         NEW st \in [DOMAIN s.calls -> Statuses],
         NEW res \in [DOMAIN s.calls -> [call: Nat, out: Ends] \cup {None}]
  PROVE  /\ WellFormed(Made(s, p, st, res))
         /\ Made(s, p, st, res).phase = p /\ Made(s, p, st, res).status = st
         /\ Made(s, p, st, res).results = res
         /\ Made(s, p, st, res).calls = s.calls /\ Made(s, p, st, res).together = s.together
BY DEF WellFormed, Made

\* What a step does to one batch is all that matters.
LEMMA OneBatch ==
  ASSUME BatchInv, NEW b \in Batches, NEW s,
         batch' = [batch EXCEPT ![b] = s],
         lenient' = lenient, executions \subseteq executions',
         faults' \in Nat, faults' >= faults,
         WellFormed(s), InOrder(s), Stored(s, b, faults', executions')
  PROVE  BatchInv'
PROOF
  <1>1. DOMAIN batch' = Batches /\ batch'[b] = s /\ \A c \in Batches \ {b} : batch'[c] = batch[c]
    BY DEF BatchInv
  <1>2. \A r : WellFormed(r)' <=> WellFormed(r)
    BY DEF WellFormed, Made
  <1>3. \A r : InOrder(r)' <=> InOrder(r)
    BY DEF InOrder, Given
  <1>4. ASSUME NEW c \in Batches \ {b}
        PROVE  Stored(batch[c], c, faults', executions')
    BY DEF BatchInv, Stored, Given
  <1>6. \A c \in Batches : Stored(batch'[c], c, faults', executions')
    BY <1>1, <1>4
  <1>7. ASSUME NEW c \in Batches PROVE WellFormed(batch'[c]) /\ InOrder(batch'[c])
    BY <1>1 DEF BatchInv
  <1>8. ASSUME NEW c \in Batches PROVE (WellFormed(batch[c]) /\ InOrder(batch[c]))'
    <2>1. lenient' = lenient
      OBVIOUS
    <2> QED
      BY <1>7, <2>1 DEF InOrder, Given, WellFormed, Made
  <1>9. ASSUME NEW c \in Batches PROVE Stored(batch[c], c, faults, executions)'
    BY <1>6 DEF Stored, Given
  <1>10. lenient' \in BOOLEAN
    BY DEF BatchInv
  <1> QED
    BY <1>1, <1>8, <1>9, <1>10 DEF BatchInv

\* Until an exclusive call has a result, none behind it is begun.
LEMMA NoneBehind ==
  ASSUME NEW s, WellFormed(s), InOrder(s), NEW i \in DOMAIN s.calls \ s.together, ~Given(s, i)
  PROVE  \A j \in DOMAIN s.calls \ s.together : i < j => s.status[j] = "waiting"
BY DEF InOrder, WellFormed

\* An exclusive call may be started when all before it have their results.
LEMMA MayStartInOrder ==
  ASSUME NEW b \in Batches, NEW i, WellFormed(batch[b]), InOrder(batch[b]),
         i \in Calls(b), MayStart(b, i)
  PROVE  /\ ~Given(batch[b], i) /\ batch[b].phase \in {"together", "alone"}
         /\ batch[b].phase = "together" => i \in batch[b].together
         /\ i \notin batch[b].together =>
                \A j \in Calls(b) : j \in batch[b].together \/ j < i => Given(batch[b], j)
PROOF
  <1> DEFINE s == batch[b]
  <1>1. ~Given(s, i)
    BY DEF MayStart, Status, InOrder, Calls, Ends
  <1>2. CASE s.phase = "together"
    BY <1>1, <1>2 DEF MayStart, Together, Status
  <1>3. CASE s.phase = "alone"
    <2>1. i \in Alone(b) => i = Next1(b)
      BY <1>3 DEF MayStart, Together, Alone
    <2>2. ASSUME i \in Alone(b)
          PROVE  \A j \in Alone(b) : j < i => Answered(b, j)
      <3> DEFINE open == {j \in Alone(b) : ~Answered(b, j)}
      <3>1. open \in SUBSET Nat /\ open # {}
        BY <1>1, <2>2 DEF Alone, Calls, Answered, Given, WellFormed
      <3>2. PICK k \in open : \A j \in open : k <= j
        BY <3>1, LeastExists
      <3>3. \A j \in Alone(b) : j < k => Answered(b, j)
        BY <3>1, <3>2 DEF Alone, Calls, WellFormed
      <3>4. \E k1 \in Alone(b) : ~Answered(b, k1) /\ \A j \in Alone(b) : j < k1 => Answered(b, j)
        BY <3>2, <3>3
      <3> QED
        BY <2>1, <2>2, <3>4 DEF Next1
    <2> QED
      BY <1>1, <1>3, <2>2 DEF Alone, Calls, Together, Answered, Given, InOrder
  <1> QED
    BY <1>2, <1>3 DEF MayStart

\* A call that ends is a call of the batch that was begun in its turn; if its
\* error ends the batch, only concurrent calls and those before it have run.
LEMMA EndKeeps ==
  ASSUME BatchInv, NEW b \in Batches, NEW i \in Calls(b), NEW out \in Ends, NEW permits,
         batch[b].phase \in {"together", "alone"}, ~Given(batch[b], i),
         batch[b].phase = "together" => i \in batch[b].together,
         i \notin batch[b].together =>
             \A j \in Calls(b) : j \in batch[b].together \/ j < i => Given(batch[b], j),
         EndWith(b, i, out, permits), UNCHANGED <<kind, lenient, executions, changes, faults>>
  PROVE  BatchInv'
PROOF
  <1> DEFINE s == batch[b]
             p == IF i \in Alone(b) /\ out = "error" /\ ~lenient THEN "failed" ELSE s.phase
             st == [s.status EXCEPT ![i] = out]
             n == Made(s, p, st, s.results)
  <1>1. WellFormed(s) /\ InOrder(s) /\ Stored(s, b, faults, executions) /\ lenient \in BOOLEAN /\ faults \in Nat
    BY DEF BatchInv
  <1>2. batch' = [batch EXCEPT ![b] = n]
    <2>a. \A q, v : [s EXCEPT !.status = v, !.phase = q] = Made(s, q, v, s.results)
      BY <1>1, Written
    <2>1. n = [s EXCEPT !.status = st, !.phase = p]
      BY <2>a, Zenon
    <2>2. batch' = [batch EXCEPT ![b] = [s EXCEPT !.status = st, !.phase = p]]
      BY DEF EndWith, BatchInv
    <2> QED
      BY <2>1, <2>2
  <1>3. p \in Phases /\ st \in [DOMAIN s.calls -> Statuses]
        /\ s.results \in [DOMAIN s.calls -> [call: Nat, out: Ends] \cup {None}]
        /\ i \in DOMAIN s.calls
    BY <1>1 DEF WellFormed, Phases, Statuses, Ends, Calls
  <1>4. /\ WellFormed(n) /\ n.phase = p /\ n.status = st /\ n.results = s.results
        /\ n.calls = s.calls /\ n.together = s.together
    BY <1>1, <1>3, MadeWell
  <1>5. /\ st[i] = out /\ \A j \in DOMAIN s.calls \ {i} : st[j] = s.status[j]
        /\ \A j : Given(n, j) <=> Given(s, j)
    BY <1>1, <1>3, <1>4 DEF WellFormed, Given
  <1>6. /\ p \in {"together", "alone", "failed"} /\ p \in {s.phase, "failed"}
        /\ p = "failed" => i \notin s.together /\ out = "error" /\ ~lenient
        /\ p # "failed" /\ i \notin s.together => out = "ok" \/ lenient
    BY DEF Alone, Together, Ends, Calls
  <1> HIDE DEF p, st, n
  <1>7. InOrder(n)
    BY <1>1, <1>3, <1>4, <1>5, <1>6 DEF InOrder, Calls
  <1>8. Stored(n, b, faults', executions')
    <2> SUFFICES ASSUME faults = 0, NEW k \in DOMAIN s.calls, st[k] = "ok"
                 PROVE  /\ Given(s, k) => [batch |-> b, call |-> k, out |-> "ok"] \in executions
                        /\ p = "failed" => [batch |-> b, call |-> k, out |-> "ok"] \in executions
      BY <1>4, <1>5, <1>6 DEF Stored
    <2>1. Given(s, k) => [batch |-> b, call |-> k, out |-> "ok"] \in executions
      BY <1>1, <1>5 DEF Stored, InOrder, Ends
    <2>2. ASSUME p = "failed"
          PROVE  Given(s, k)
      <3>1. k # i /\ s.status[k] = "ok" /\ i \in DOMAIN s.calls \ s.together
        BY <1>3, <1>5, <1>6, <2>2
      <3>2. CASE k \in s.together \/ k < i
        BY <1>6, <2>2, <3>2 DEF Calls
      <3>3. CASE k \notin s.together /\ i < k
        BY <1>1, <3>1, <3>3, NoneBehind
      <3> QED
        BY <1>1, <3>1, <3>2, <3>3 DEF WellFormed
    <2> QED
      BY <2>1, <2>2
  <1>9. /\ executions \subseteq executions' /\ faults' \in Nat /\ faults' >= faults /\ lenient' = lenient
    BY <1>1
  <1> QED
    BY <1>2, <1>4, <1>7, <1>8, <1>9, OneBatch

\* A result is given to a call that has ended, and recorded.
LEMMA AnswerKeeps ==
  ASSUME BatchInv, NEW b \in Batches, NEW i \in Calls(b),
         batch[b].phase \in {"together", "alone"},
         Ended(b, i), Status(b, i) = "ok" \/ lenient,
         batch' = Answer(b, i), Recorded(b, i), UNCHANGED <<kind, lenient, changes>>
  PROVE  BatchInv'
PROOF
  <1> DEFINE s == batch[b]
             r == [call |-> i, out |-> s.status[i]]
             res == [s.results EXCEPT ![i] = r]
             n == Made(s, s.phase, s.status, res)
  <1>1. WellFormed(s) /\ InOrder(s) /\ Stored(s, b, faults, executions) /\ lenient \in BOOLEAN /\ faults \in Nat
    BY DEF BatchInv
  <1>2. batch' = [batch EXCEPT ![b] = n]
    <2>1. n = [s EXCEPT !.results = res]
      BY <1>1, Written
    <2>2. batch' = [batch EXCEPT ![b] = [s EXCEPT !.results = res]]
      BY DEF Answer, Status, BatchInv
    <2> QED
      BY <2>1, <2>2
  <1>3. /\ i \in DOMAIN s.calls /\ i \in Nat /\ s.status[i] \in Ends
        /\ s.status \in [DOMAIN s.calls -> Statuses] /\ s.phase \in Phases
    BY <1>1 DEF WellFormed, Calls, Ended, Status, Ends
  <1>4. r \in [call: Nat, out: Ends] /\ r # None
    BY <1>3, BatchAssumption DEF Ends
  <1>5. res \in [DOMAIN s.calls -> [call: Nat, out: Ends] \cup {None}]
    BY <1>1, <1>4 DEF WellFormed
  <1>6. /\ WellFormed(n) /\ n.phase = s.phase /\ n.status = s.status /\ n.results = res
        /\ n.calls = s.calls /\ n.together = s.together
    BY <1>1, <1>3, <1>5, MadeWell
  <1>7. /\ res[i] = r /\ Given(n, i)
        /\ \A j \in DOMAIN s.calls \ {i} : res[j] = s.results[j] /\ (Given(n, j) <=> Given(s, j))
    BY <1>1, <1>3, <1>4, <1>6 DEF WellFormed, Given
  <1>8. s.status[i] = "ok" \/ lenient
    BY DEF Status
  <1>9. r = [call |-> i, out |-> s.status[i]]
    OBVIOUS
  <1> HIDE DEF res, n, r
  <1>10. InOrder(n)
    BY <1>1, <1>3, <1>6, <1>7, <1>8, <1>9 DEF InOrder, WellFormed
  <1>11. /\ executions \subseteq executions' /\ faults' \in Nat /\ faults' >= faults
         /\ faults' = 0 => faults = 0 /\ [batch |-> b, call |-> i, out |-> s.status[i]] \in executions'
    BY <1>1 DEF Recorded, Status
  <1>12. Stored(n, b, faults', executions')
    BY <1>1, <1>3, <1>6, <1>7, <1>11 DEF Stored, Ends
  <1> QED
    BY <1>1, <1>2, <1>6, <1>10, <1>11, <1>12, OneBatch

\* Every step of the batches keeps the order and the records.
LEMMA BatchStepKeeps == BatchInv /\ [BatchNext]_batchVars => BatchInv'
PROOF
  <1> SUFFICES ASSUME BatchInv, [BatchNext]_batchVars PROVE BatchInv'
    OBVIOUS
  <1>a. \A b \in Batches : WellFormed(batch[b]) /\ InOrder(batch[b]) /\ Stored(batch[b], b, faults, executions)
    BY DEF BatchInv
  <1>f. faults \in Nat /\ lenient \in BOOLEAN
    BY DEF BatchInv
  <1>1. ASSUME NEW b \in Batches, NEW calls \in CallLists, ExecuteBatch(b, calls)
        PROVE  BatchInv'
    <2> DEFINE s == [phase    |-> "together",
                     calls    |-> calls,
                     together |-> {i \in DOMAIN calls : kind[calls[i]] = "safe"},
                     status   |-> [i \in DOMAIN calls |-> "waiting"],
                     results  |-> [i \in DOMAIN calls |-> None]]
    <2>1. WellFormed(s)
      BY BatchAssumption DEF WellFormed, Made, Phases, Statuses
    <2>2. InOrder(s) /\ Stored(s, b, faults', executions')
      BY DEF InOrder, Stored, Given
    <2> QED
      BY <1>1, <1>f, <2>1, <2>2, OneBatch DEF ExecuteBatch
  <1>2. ASSUME NEW b \in Batches, NEW i \in Calls(b), Start(b, i)
        PROVE  BatchInv'
    <2> DEFINE s == batch[b]
               st == [s.status EXCEPT ![i] = "running"]
               n == Made(s, s.phase, st, s.results)
    <2>1. batch' = [batch EXCEPT ![b] = n]
      <3>1. n = [s EXCEPT !.status = st]
        BY <1>a, Written
      <3>2. batch' = [batch EXCEPT ![b] = [s EXCEPT !.status = st]]
        BY <1>2 DEF Start, BatchInv
      <3> QED
        BY <3>1, <3>2
    <2>2. /\ i \in DOMAIN s.calls /\ s.phase \in Phases
          /\ st \in [DOMAIN s.calls -> Statuses]
          /\ s.results \in [DOMAIN s.calls -> [call: Nat, out: Ends] \cup {None}]
      BY <1>a DEF WellFormed, Statuses, Calls
    <2>3. /\ WellFormed(n) /\ n.phase = s.phase /\ n.status = st /\ n.results = s.results
          /\ n.calls = s.calls /\ n.together = s.together
      BY <1>a, <2>2, MadeWell
    <2>4. /\ st[i] = "running" /\ \A j \in DOMAIN s.calls \ {i} : st[j] = s.status[j]
          /\ \A j : Given(n, j) <=> Given(s, j)
      BY <1>a, <2>2, <2>3 DEF WellFormed, Given
    <2>5. /\ ~Given(s, i) /\ s.phase \in {"together", "alone"}
          /\ s.phase = "together" => i \in s.together
          /\ i \notin s.together =>
                \A j \in DOMAIN s.calls : j \in s.together \/ j < i => Given(s, j)
      BY <1>a, <1>2, MayStartInOrder DEF Start, Calls
    <2> HIDE DEF st, n
    <2>6. InOrder(n)
      BY <1>a, <2>2, <2>3, <2>4, <2>5 DEF InOrder
    <2>7. Stored(n, b, faults', executions')
      BY <1>a, <1>2, <2>2, <2>3, <2>4, <2>5 DEF Stored, Start
    <2>8. /\ executions \subseteq executions' /\ faults' \in Nat /\ faults' >= faults /\ lenient' = lenient
      BY <1>f, <1>2 DEF Start
    <2> QED
      BY <2>1, <2>3, <2>6, <2>7, <2>8, OneBatch
  <1>3. ASSUME NEW b \in Batches, NEW i \in Calls(b), Refuse(b, i)
        PROVE  BatchInv'
    BY <1>a, <1>3, MayStartInOrder, EndKeeps DEF Refuse, Ends
  <1>4. ASSUME NEW b \in Batches, NEW i \in Calls(b), NEW out \in {"ok", "error"}, Finish(b, i, out)
        PROVE  BatchInv'
    <2>1. ~Given(batch[b], i) /\ batch[b].phase \in {"together", "alone"}
      BY <1>a, <1>4 DEF Finish, Status, InOrder, Calls, Ends
    <2>2. batch[b].phase = "together" => i \in batch[b].together
      BY <1>a, <1>4 DEF Finish, Status, InOrder, Calls
    <2>3. i \notin batch[b].together =>
              \A j \in Calls(b) : j \in batch[b].together \/ j < i => Given(batch[b], j)
      BY <1>a, <1>4 DEF Finish, Status, InOrder, Calls
    <2> QED
      BY <1>4, <2>1, <2>2, <2>3, EndKeeps DEF Finish, Ends
  <1>5. ASSUME NEW b \in Batches, Gather(b)
        PROVE  BatchInv'
    <2>1. PICK i \in Pending(b) :
              \/ /\ lenient \/ Status(b, i) = "ok"
                 /\ batch' = Answer(b, i)
                 /\ Recorded(b, i)
              \/ /\ ~lenient /\ Status(b, i) = "error"
                 /\ batch' = [batch EXCEPT ![b].phase = "failed"]
                 /\ UNCHANGED <<executions, faults>>
      BY <1>5 DEF Gather
    <2>2. /\ i \in Calls(b) /\ Ended(b, i) /\ i \in Together(b) /\ batch[b].phase = "together"
          /\ UNCHANGED <<kind, lenient, changes>>
      BY <1>5, <1>a, <2>1 DEF Gather, Pending, Together, Calls, WellFormed
    <2>3. CASE batch' = Answer(b, i) /\ Recorded(b, i) /\ (lenient \/ Status(b, i) = "ok")
      BY <2>2, <2>3, AnswerKeeps
    <2>4. CASE /\ ~lenient /\ Status(b, i) = "error"
               /\ batch' = [batch EXCEPT ![b].phase = "failed"]
               /\ UNCHANGED <<executions, faults>>
      <3> DEFINE s == batch[b]
                 n == Made(s, "failed", s.status, s.results)
      <3>1. batch' = [batch EXCEPT ![b] = n]
        <4>1. n = [s EXCEPT !.phase = "failed"]
          BY <1>a, Written
        <4> QED
          BY <2>4, <4>1 DEF BatchInv
      <3>2. /\ s.status \in [DOMAIN s.calls -> Statuses] /\ "failed" \in Phases
            /\ s.results \in [DOMAIN s.calls -> [call: Nat, out: Ends] \cup {None}]
        BY <1>a DEF WellFormed, Phases
      <3>3. /\ WellFormed(n) /\ n.phase = "failed" /\ n.status = s.status /\ n.results = s.results
            /\ n.calls = s.calls /\ n.together = s.together
        BY <1>a, <3>2, MadeWell
      <3> HIDE DEF n
      <3>4. InOrder(n)
        BY <1>a, <3>3 DEF InOrder, Given
      <3>5. ASSUME faults = 0, NEW k \in DOMAIN s.calls, s.status[k] = "ok"
            PROVE  \/ [batch |-> b, call |-> k, out |-> "ok"] \in executions
                   \/ ~lenient /\ \E j \in s.together : j < k /\ s.status[j] = "error"
        <4>1. k \in s.together /\ k # i
          BY <1>a, <2>2, <2>4, <3>5 DEF InOrder, Status
        <4>2. CASE k < i
          <5>1. Given(s, k)
            BY <2>1, <4>1, <4>2 DEF Pending, Together, Answered, Given
          <5> QED
            BY <1>a, <3>5, <5>1 DEF Stored
        <4>3. CASE i < k
          BY <2>2, <2>4, <4>3 DEF Together, Status
        <4> QED
          BY <1>a, <2>2, <4>1, <4>2, <4>3 DEF WellFormed, Calls
      <3>6. Stored(n, b, faults', executions')
        BY <1>a, <2>2, <2>4, <3>3, <3>5 DEF Stored, Given
      <3> QED
        <4>1. /\ executions \subseteq executions' /\ faults' \in Nat /\ faults' >= faults /\ lenient' = lenient
          BY <1>f, <2>2, <2>4
        <4> QED
          BY <3>1, <3>3, <3>4, <3>6, <4>1, OneBatch
    <2> QED
      BY <2>1, <2>3, <2>4
  <1>6. ASSUME NEW b \in Batches, NEW p \in {"alone", "returned"},
               batch' = [batch EXCEPT ![b] = Made(batch[b], p, batch[b].status, batch[b].results)],
               UNCHANGED <<lenient, executions, faults>>,
               \A i \in batch[b].together : Given(batch[b], i),
               \A i \in DOMAIN batch[b].calls \ batch[b].together :
                   batch[b].status[i] = "error" => lenient,
               p = "returned" => \A i \in DOMAIN batch[b].calls : Given(batch[b], i)
        PROVE  BatchInv'
    <2> DEFINE s == batch[b]
               n == Made(s, p, s.status, s.results)
    <2>1. /\ s.status \in [DOMAIN s.calls -> Statuses] /\ p \in Phases
          /\ s.results \in [DOMAIN s.calls -> [call: Nat, out: Ends] \cup {None}]
      BY <1>a, <1>6 DEF WellFormed, Phases
    <2>2. /\ WellFormed(n) /\ n.phase = p /\ n.status = s.status /\ n.results = s.results
          /\ n.calls = s.calls /\ n.together = s.together
      BY <1>a, <2>1, MadeWell
    <2> HIDE DEF n
    <2>3. InOrder(n)
      BY <1>a, <1>6, <2>2 DEF InOrder, Given
    <2>4. Stored(n, b, faults', executions')
      BY <1>a, <1>6, <2>2 DEF Stored, Given
    <2>5. batch' = [batch EXCEPT ![b] = n]
      BY <1>6 DEF n
    <2>6. /\ executions \subseteq executions' /\ faults' \in Nat /\ faults' >= faults /\ lenient' = lenient
      BY <1>f, <1>6
    <2> QED
      BY <2>2, <2>3, <2>4, <2>5, <2>6, OneBatch
  <1>7. ASSUME NEW b \in Batches, StartAlone(b)
        PROVE  BatchInv'
    <2>1. [batch[b] EXCEPT !.phase = "alone"] =
              Made(batch[b], "alone", batch[b].status, batch[b].results)
      BY <1>a, Written
    <2>2. batch' = [batch EXCEPT ![b] = [batch[b] EXCEPT !.phase = "alone"]]
      BY <1>7 DEF StartAlone, BatchInv
    <2>3. \A i \in batch[b].together : Given(batch[b], i)
      BY <1>7 DEF StartAlone, Together, Answered, Given
    <2>4. \A i \in DOMAIN batch[b].calls \ batch[b].together : batch[b].status[i] = "waiting"
      BY <1>7, <1>a DEF StartAlone, InOrder
    <2> QED
      BY <1>6, <1>7, <2>1, <2>2, <2>3, <2>4 DEF StartAlone
  <1>8. ASSUME NEW b \in Batches, RecordAlone(b)
        PROVE  BatchInv'
    <2>1. PICK i \in Alone(b) : /\ Ended(b, i) /\ ~Answered(b, i)
                                /\ batch' = Answer(b, i)
                                /\ Recorded(b, i)
      BY <1>8 DEF RecordAlone
    <2>2. batch[b].phase = "alone" /\ UNCHANGED <<kind, lenient, changes>> /\ i \in Calls(b)
      BY <1>8, <2>1 DEF RecordAlone, Alone
    <2>3. Status(b, i) = "ok" \/ lenient
      BY <1>a, <2>1, <2>2 DEF InOrder, Alone, Calls, Together, Ended, Status
    <2> QED
      BY <2>1, <2>2, <2>3, AnswerKeeps
  <1>9. ASSUME NEW b \in Batches, Return(b)
        PROVE  BatchInv'
    <2> DEFINE s == batch[b]
    <2>a. \A p, v : [s EXCEPT !.phase = p, !.results = v] = Made(s, p, s.status, v)
      BY <1>a, Written
    <2>1. [s EXCEPT !.phase = "returned", !.results = s.results] =
              Made(s, "returned", s.status, s.results)
      BY <2>a, Zenon
    <2>2. batch' = [batch EXCEPT ![b] = [s EXCEPT !.phase = "returned", !.results = s.results]]
      BY <1>9 DEF Return, Merged, BatchInv
    <2>3. \A i \in DOMAIN s.calls : Given(s, i)
      BY <1>9 DEF Return, Calls, Answered, Given
    <2>4. \A i \in s.together : i \in DOMAIN s.calls
      BY <1>a DEF WellFormed
    <2>5. \A i \in DOMAIN s.calls \ s.together : s.status[i] = "error" => lenient
      BY <1>a, <2>3 DEF InOrder
    <2> QED
      BY <1>6, <1>9, <2>1, <2>2, <2>3, <2>4, <2>5 DEF Return
  <1>10. ASSUME NEW b \in Batches, Drop(b)
         PROVE  BatchInv'
    <2> DEFINE s == batch[b]
               st == [i \in Calls(b) |-> IF s.status[i] = "running" THEN "waiting" ELSE s.status[i]]
               n == Made(s, "dropped", st, s.results)
    <2>1. batch' = [batch EXCEPT ![b] = n]
      <3>1. n = [s EXCEPT !.phase = "dropped", !.status = st]
        BY <1>a, Written
      <3>2. batch' = [batch EXCEPT ![b] = [s EXCEPT !.phase = "dropped", !.status = st]]
        BY <1>10 DEF Drop, BatchInv
      <3> QED
        BY <3>1, <3>2
    <2>2. /\ st \in [DOMAIN s.calls -> Statuses] /\ "dropped" \in Phases
          /\ s.results \in [DOMAIN s.calls -> [call: Nat, out: Ends] \cup {None}]
      BY <1>a DEF WellFormed, Phases, Statuses, Calls
    <2>3. /\ WellFormed(n) /\ n.phase = "dropped" /\ n.status = st /\ n.results = s.results
          /\ n.calls = s.calls /\ n.together = s.together
      BY <1>a, <2>2, MadeWell
    <2>4. /\ \A j \in DOMAIN s.calls :
                /\ s.status[j] # "running" => st[j] = s.status[j]
                /\ st[j] # "waiting" => s.status[j] = st[j]
          /\ \A j : Given(n, j) <=> Given(s, j)
      BY <2>3 DEF Calls, Given
    <2> HIDE DEF st, n
    <2>5. InOrder(n)
      <3>1. ASSUME NEW j \in DOMAIN s.calls, Given(s, j)
            PROVE  /\ s.results[j] = [call |-> j, out |-> st[j]]
                   /\ st[j] \in Ends /\ (st[j] = "ok" \/ lenient)
        <4>1. /\ s.results[j] = [call |-> j, out |-> s.status[j]]
              /\ s.status[j] \in Ends /\ (s.status[j] = "ok" \/ lenient)
          BY <1>a, <3>1 DEF InOrder
        <4>2. st[j] = s.status[j]
          BY <2>4, <4>1 DEF Ends
        <4> QED
          BY <4>1, <4>2
      <3>2. \A j \in DOMAIN s.calls \ s.together : st[j] # "waiting" =>
               \A k \in DOMAIN s.calls : k \in s.together \/ k < j => Given(s, k)
        BY <1>a, <2>4 DEF InOrder
      <3> QED
        BY <2>3, <2>4, <3>1, <3>2 DEF InOrder
    <2>6. lenient' = lenient /\ executions' = executions /\ faults' = faults + 1
      BY <1>10 DEF Drop
    <2>7. Stored(n, b, faults', executions')
      BY <1>f, <2>3, <2>6 DEF Stored
    <2>8. /\ executions \subseteq executions' /\ faults' \in Nat /\ faults' >= faults /\ lenient' = lenient
      BY <1>f, <2>6
    <2> QED
      BY <2>1, <2>3, <2>5, <2>7, <2>8, OneBatch
  <1>11. ASSUME NEW t \in Tools, NEW k, RegisterTool(t, k)
         PROVE  BatchInv'
    BY <1>11 DEF RegisterTool, BatchInv, WellFormed, Made, InOrder, Given, Stored
  <1>12. CASE UNCHANGED batchVars
    BY <1>12 DEF batchVars, BatchInv, WellFormed, Made, InOrder, Given, Stored
  <1> QED
    BY <1>1, <1>2, <1>3, <1>4, <1>5, <1>7, <1>8, <1>9, <1>10, <1>11, <1>12 DEF BatchNext, BatchStep

\* In every reachable state the batches keep their order and their records.
THEOREM BatchesOrdered == BatchSpec => []BatchInv
PROOF
  <1>1. BatchInit => BatchInv
    <2> SUFFICES ASSUME BatchInit PROVE BatchInv
      OBVIOUS
    <2>1. WellFormed(Idle)
      BY DEF WellFormed, Made, Idle, Phases
    <2>2. InOrder(Idle) /\ \A b, f, x : Stored(Idle, b, f, x)
      BY DEF InOrder, Stored, Idle
    <2> QED
      BY <2>1, <2>2 DEF BatchInit, BatchInv
  <1> QED
    BY <1>1, BatchStepKeeps, PTL DEF BatchSpec

\* execute_batch, for any lists of calls, permits and batches that share them:
\* one result per call at the call's own place, and a record of every tool that
\* was executed unless a store failed, the run was dropped or a call before it
\* failed the batch.
THEOREM ResultsOrdered == BatchSpec => []ResultsInCallOrder
PROOF
  <1>1. BatchInv => ResultsInCallOrder
    <2> SUFFICES ASSUME BatchInv, NEW b \in Batches
                 PROVE  /\ batch[b].phase = "returned" =>
                            \A i \in Calls(b) :
                                /\ batch[b].results[i] = [call |-> i, out |-> Status(b, i)]
                                /\ Ended(b, i)
                                /\ Status(b, i) = "ok" \/ lenient
                        /\ faults = 0 /\ batch[b].phase \in Over =>
                            \A i \in Calls(b) : Status(b, i) = "ok" =>
                                \/ [batch |-> b, call |-> i, out |-> "ok"] \in executions
                                \/ ~lenient /\ \E j \in Together(b) : j < i /\ Status(b, j) = "error"
      BY DEF ResultsInCallOrder
    <2> QED
      BY DEF BatchInv, InOrder, Stored, Calls, Together, Status, Ended, Ends, Over
  <1> QED
    BY <1>1, BatchesOrdered, PTL

\* An exclusive tool runs while no other call of its batch does, and none is
\* started behind an error that ends the batch.
THEOREM ExclusiveRunsAlone == BatchSpec => []ExclusiveAlone
PROOF
  <1>1. BatchInv => ExclusiveAlone
    <2> SUFFICES ASSUME BatchInv, NEW b \in Batches, NEW i \in Alone(b), Status(b, i) # "waiting",
                        NEW j \in Calls(b) \ {i}
                 PROVE  /\ Status(b, i) = "running" => Status(b, j) # "running"
                        /\ j \in Together(b) \/ j < i => Ended(b, j) /\ (lenient \/ Status(b, j) = "ok")
      BY DEF ExclusiveAlone
    <2> DEFINE s == batch[b]
    <2>1. WellFormed(s) /\ InOrder(s) /\ i \in DOMAIN s.calls \ s.together /\ j \in DOMAIN s.calls
      BY DEF BatchInv, Alone, Calls, Together
    <2>2. j \in s.together \/ j < i => Given(s, j)
      BY <2>1 DEF InOrder, Status
    <2>3. s.status[i] = "running" => ~Given(s, i)
      BY <2>1 DEF InOrder, Ends
    <2>4. j \notin s.together /\ i < j /\ s.status[i] = "running" => s.status[j] = "waiting"
      BY <2>1, <2>3, NoneBehind
    <2>5. j < i \/ i < j
      BY <2>1 DEF WellFormed
    <2>6. Given(s, j) => s.status[j] \in Ends /\ (s.status[j] = "ok" \/ lenient)
      BY <2>1 DEF InOrder
    <2> QED
      BY <2>2, <2>4, <2>5, <2>6 DEF Together, Status, Ended, Ends
  <1> QED
    BY <1>1, BatchesOrdered, PTL

-----------------------------------------------------------------------------
(* The gate, for any set of call ids and any number of requests. *)
GateSpec == GateInit /\ [][GateNext]_gateVars

Answers == [call : CallIds, number : Nat, decision : {"approve", "reject"}]

GateTypes ==
    /\ pending \subseteq CallIds
    /\ decisions \in [CallIds -> {"approve", "reject", Undecided}]
    /\ requested \in [CallIds -> Nat]
    /\ settled \subseteq Answers
    /\ DOMAIN deciding = Interfaces
    /\ \A i \in Interfaces : deciding[i] # Undecided => deciding[i] \in Answers

\* Only one interface is between the two locks.
OneBetween ==
    \A i, j \in Interfaces : deciding[i] # Undecided /\ deciding[j] # Undecided => i = j

\* A decision on its way is for the newest request of its call, which waits no
\* more and was not answered before.
OnItsWay ==
    \A i \in Interfaces : deciding[i] # Undecided =>
        /\ deciding[i].call \notin pending
        /\ deciding[i].number = requested[deciding[i].call]
        /\ \A r \in settled : r.call = deciding[i].call => r.number < deciding[i].number

\* No answer is for a request to come, or for the one that waits.
AnswersBehind ==
    \A r \in settled :
        /\ r.number <= requested[r.call]
        /\ r.call \in pending => r.number < requested[r.call]

GateInv == GateTypes /\ OneBetween /\ OnItsWay /\ AnswersBehind /\ NewestDecisionStands

\* request, the two steps of decide, its end between them, and the timeouts.
LEMMA GateStep == GateInv /\ [GateNext]_gateVars => GateInv'
<1> SUFFICES ASSUME GateInv, [GateNext]_gateVars
             PROVE  GateInv'
  OBVIOUS
<1>t. GateTypes /\ OneBetween /\ OnItsWay /\ AnswersBehind /\ NewestDecisionStands
  BY DEF GateInv
<1>1. ASSUME NEW c \in CallIds, Request(c)
      PROVE  GateInv'
  <2>1. /\ \A i \in Interfaces : deciding[i] = Undecided
        /\ c \notin pending /\ pending' = pending \cup {c}
        /\ requested' = [requested EXCEPT ![c] = @ + 1]
        /\ UNCHANGED <<deciding, decisions, settled>>
    BY <1>1 DEF Request, PendingFree
  <2>2. GateTypes' /\ OneBetween' /\ OnItsWay'
    BY <1>t, <2>1 DEF GateTypes, OneBetween, OnItsWay
  <2>3. AnswersBehind'
    BY <1>t, <2>1 DEF GateTypes, AnswersBehind, Answers
  <2>4. NewestDecisionStands'
    BY <1>t, <2>1 DEF NewestDecisionStands
  <2> QED
    BY <2>2, <2>3, <2>4 DEF GateInv
<1>2. ASSUME NEW c \in CallIds, NEW i \in Interfaces, NEW d \in {"approve", "reject"}, TakeRequest(i, c, d)
      PROVE  GateInv'
  <2> DEFINE n == [call |-> c, number |-> requested[c], decision |-> d]
  <2>1. /\ \A j \in Interfaces : deciding[j] = Undecided
        /\ c \in pending /\ pending' = pending \ {c} /\ deciding' = [deciding EXCEPT ![i] = n]
        /\ UNCHANGED <<decisions, requested, settled>>
    BY <1>2 DEF TakeRequest, PendingFree
  <2>2. /\ n \in Answers /\ n.call = c /\ n.number = requested[c]
    BY <1>t DEF GateTypes, Answers
  <2> HIDE DEF n
  <2>3. GateTypes' /\ OneBetween'
    BY <1>t, <2>1, <2>2 DEF GateTypes, OneBetween
  <2>4. OnItsWay'
    BY <1>t, <2>1, <2>2 DEF GateTypes, OnItsWay, AnswersBehind
  <2>5. AnswersBehind' /\ NewestDecisionStands'
    BY <1>t, <2>1 DEF AnswersBehind, NewestDecisionStands
  <2> QED
    BY <2>3, <2>4, <2>5 DEF GateInv
<1>3. ASSUME NEW i \in Interfaces, RecordDecision(i)
      PROVE  GateInv'
  <2> DEFINE n == deciding[i]
  <2>1. /\ n # Undecided /\ decisions' = [decisions EXCEPT ![n.call] = n.decision]
        /\ settled' = settled \cup {n} /\ deciding' = [deciding EXCEPT ![i] = Undecided]
        /\ UNCHANGED <<pending, requested>>
    BY <1>3 DEF RecordDecision
  <2>2. /\ n \in Answers /\ n.call \in CallIds /\ n.number \in Nat /\ n.decision \in {"approve", "reject"}
        /\ n.call \notin pending /\ n.number = requested[n.call]
        /\ \A r \in settled : r.call = n.call => r.number < n.number
    BY <1>t, <2>1 DEF GateTypes, OnItsWay, Answers
  <2>3. \A j \in Interfaces : deciding'[j] = Undecided
    BY <1>t, <2>1 DEF GateTypes, OneBetween
  <2>4. GateTypes' /\ OneBetween' /\ OnItsWay'
    BY <1>t, <2>1, <2>2, <2>3 DEF GateTypes, OneBetween, OnItsWay
  <2>5. AnswersBehind'
    BY <1>t, <2>1, <2>2 DEF GateTypes, AnswersBehind
  <2>6. \A r \in settled : r.call \in CallIds /\ r.number \in Nat
    BY <1>t DEF GateTypes, Answers
  <2>7. NewestDecisionStands'
    <3>1. ASSUME NEW r \in settled', NEW q \in settled', r.call = q.call, r.number = q.number
          PROVE  r = q
      BY <1>t, <2>1, <2>2, <2>6, <3>1 DEF NewestDecisionStands
    <3>2. ASSUME NEW r \in settled', \A q \in settled' : q.call = r.call => q.number <= r.number
          PROVE  decisions'[r.call] = r.decision
      <4>1. CASE r.call = n.call
        <5>1. n.number <= r.number
          BY <2>1, <3>2, <4>1
        <5>2. r = n
          BY <2>1, <2>2, <2>6, <4>1, <5>1
        <5> QED
          BY <1>t, <2>1, <2>2, <5>2 DEF GateTypes
      <4>2. CASE r.call # n.call
        <5>1. r \in settled /\ decisions'[r.call] = decisions[r.call]
          BY <1>t, <2>1, <2>6, <4>2 DEF GateTypes
        <5> QED
          BY <1>t, <2>1, <3>2, <5>1 DEF NewestDecisionStands
      <4> QED
        BY <4>1, <4>2
    <3> QED
      BY <3>1, <3>2 DEF NewestDecisionStands
  <2> QED
    BY <2>4, <2>5, <2>7 DEF GateInv
<1>4. ASSUME NEW i \in Interfaces, DropDecide(i)
      PROVE  GateInv'
  BY <1>4, <1>t DEF DropDecide, GateInv, GateTypes, OneBetween, OnItsWay, AnswersBehind, NewestDecisionStands
<1>5. CASE ExpireTimedOut
  <2>1. pending' \subseteq pending /\ UNCHANGED <<deciding, decisions, requested, settled>>
    BY <1>5 DEF ExpireTimedOut
  <2> QED
    BY <1>t, <2>1 DEF GateInv, GateTypes, OneBetween, OnItsWay, AnswersBehind, NewestDecisionStands
<1>6. ASSUME UNCHANGED <<pending, deciding, decisions, requested, settled>>
      PROVE  GateInv'
  BY <1>6, <1>t DEF GateInv, GateTypes, OneBetween, OnItsWay, AnswersBehind, NewestDecisionStands
<1>7. ASSUME NEW c \in CallIds, Elapse(c)
      PROVE  GateInv'
  BY <1>6, <1>7 DEF Elapse
<1>8. CASE UNCHANGED gateVars
  BY <1>6, <1>8 DEF gateVars
<1> QED
  BY <1>1, <1>2, <1>3, <1>4, <1>5, <1>7, <1>8 DEF GateNext

\* ApprovalGate's request, decide and expire_timed_out: whatever interfaces,
\* timeouts, repeated and dropped calls interleave between the two locks of
\* decide, a request has one answer and the newest answer is the one that stands.
THEOREM NewestAnswerStands == GateSpec => []NewestDecisionStands
<1>1. GateInit => GateInv
  BY DEF GateInit, GateInv, GateTypes, OneBetween, OnItsWay, AnswersBehind, NewestDecisionStands
<1>2. GateInv => NewestDecisionStands
  BY DEF GateInv
<1> QED
  BY <1>1, <1>2, GateStep, PTL DEF GateSpec

-----------------------------------------------------------------------------
(* The limits, for every batch, filter, set of limits and any outputs. *)
Counters ==
    /\ limits \in LimitConfigs
    /\ cumulative \in Nat /\ delivered \in Nat
    /\ delivered <= cumulative

\* Only calls that the filter and the length of the batch let through are
\* without an answer, and nothing else is ever begun.
OpenCalls ==
    \A i \in DOMAIN asked :
        Unanswered(i) => Allows(asked[i].tool) /\ Within(Cardinality(Allowed), limits.calls)

LimitsInv == Counters /\ DOMAIN answers = DOMAIN asked /\ OpenCalls /\ LimitsEnforced

\* Answering a call keeps the sum of the values within its limit, and leaves no
\* call open that was not.
LEMMA ResponseKeeps ==
    ASSUME LimitsInv, NEW i \in DOMAIN asked, NEW result, result.size \in Nat,
           result # Error("none"), Respond(i, result)
    PROVE  /\ Counters' /\ DOMAIN answers' = DOMAIN asked' /\ OpenCalls'
           /\ Within(delivered, limits.cumulative)'
<1> USE ToolLimitsAssumption
<1>1. /\ UNCHANGED <<asked, filter, limits, hooks>>
      /\ cumulative \in Nat /\ delivered \in Nat /\ delivered <= cumulative
      /\ limits \in LimitConfigs /\ \A l \in limits.cumulative : l \in Nat
  BY DEF Respond, LimitsInv, Counters
<1>2. cumulative' = cumulative + result.size
  BY DEF Respond
<1>3. CASE Within(cumulative', limits.cumulative)
  <2>1. delivered' = delivered + result.size /\ answers' = [answers EXCEPT ![i] = result]
    BY <1>3 DEF Respond
  <2>2. Counters' /\ Within(delivered, limits.cumulative)'
    BY <1>1, <1>2, <1>3, <2>1 DEF Counters, Within
  <2>3. DOMAIN answers' = DOMAIN asked' /\ \A j \in DOMAIN asked : Unanswered(j)' => Unanswered(j)
    BY <1>1, <2>1 DEF LimitsInv, Unanswered
  <2> QED
    BY <1>1, <2>2, <2>3 DEF LimitsInv, OpenCalls, Allowed, Allows, Within
<1>4. CASE ~Within(cumulative', limits.cumulative)
  <2>1. delivered' = delivered /\ answers' = [answers EXCEPT ![i] = Error("overrun")]
    BY <1>4 DEF Respond
  <2>2. Counters' /\ Within(delivered, limits.cumulative)'
    BY <1>1, <1>2, <2>1 DEF Counters, Within, LimitsInv, LimitsEnforced
  <2>3. DOMAIN answers' = DOMAIN asked' /\ \A j \in DOMAIN asked : Unanswered(j)' => Unanswered(j)
    BY <1>1, <2>1 DEF LimitsInv, Unanswered, Error
  <2> QED
    BY <1>1, <2>2, <2>3 DEF LimitsInv, OpenCalls, Allowed, Allows, Within
<1> QED
  BY <1>3, <1>4

\* Nothing is begun or delivered before the first call.
LEMMA LimitsInvInit == LimitsInit => LimitsInv
<1> SUFFICES ASSUME LimitsInit PROVE LimitsInv
  OBVIOUS
<1> USE DEF LimitsInit
<1>1. Counters /\ DOMAIN answers = DOMAIN asked
  BY DEF Counters
<1>2. OpenCalls
  BY DEF OpenCalls, Unanswered, Error, Allowed
<1>3. LimitsEnforced
  BY ToolLimitsAssumption DEF LimitsEnforced, Within
<1> QED
  BY <1>1, <1>2, <1>3 DEF LimitsInv

\* A refusal begins nothing; an execution begins a call that was open and passed.
LEMMA LimitsInvStep == LimitsInv /\ [LimitsNext]_limitVars => LimitsInv'
<1> SUFFICES ASSUME LimitsInv, [LimitsNext]_limitVars PROVE LimitsInv'
  OBVIOUS
<1> DEFINE Begun == \A i \in begun : /\ Allows(asked[i].tool) /\ Passes(i)
                                     /\ Within(Cardinality(Allowed), limits.calls)
<1>1. Begun /\ Within(delivered, limits.cumulative)
  BY DEF LimitsInv, LimitsEnforced
<1>2. ASSUME UNCHANGED <<asked, filter, limits>>, begun' = begun PROVE Begun'
  BY <1>1, <1>2 DEF Allows, Allowed, Passes, Within
<1>3. ASSUME NEW i \in DOMAIN asked, TurnDown(i) PROVE LimitsInv'
  <2>1. Respond(i, Error("refused")) /\ begun' = begun /\ UNCHANGED <<asked, filter, limits>>
    BY <1>3 DEF TurnDown, Respond
  <2>2. Error("refused").size \in Nat /\ Error("refused") # Error("none")
    BY DEF Error
  <2> QED
    BY <1>2, <2>1, <2>2, ResponseKeeps DEF LimitsInv, LimitsEnforced
<1>4. ASSUME NEW i \in DOMAIN asked, NEW result, result.size \in Nat, result # Error("none"),
             InTurn(i), Passes(i), Respond(i, result), begun' = begun \cup {i}
      PROVE  LimitsInv'
  <2>1. UNCHANGED <<asked, filter, limits>>
    BY <1>4 DEF Respond
  <2>2. Allows(asked[i].tool) /\ Within(Cardinality(Allowed), limits.calls)
    BY <1>4 DEF LimitsInv, OpenCalls, InTurn
  <2>3. Begun'
    BY <1>1, <1>4, <2>1, <2>2 DEF Allows, Allowed, Passes, Within
  <2> QED
    BY <1>4, <2>3, ResponseKeeps DEF LimitsInv, LimitsEnforced
<1>5. ASSUME NEW i \in DOMAIN asked, ExecuteFails(i) PROVE LimitsInv'
  <2>1. Error("failed").size \in Nat /\ Error("failed") # Error("none")
    BY DEF Error
  <2> QED
    BY <1>4, <1>5, <2>1 DEF ExecuteFails
<1>6. ASSUME NEW i \in DOMAIN asked, Execute(i) PROVE LimitsInv'
  <2>1. PICK size \in OutputSizes : Respond(i, Value(size))
    BY <1>6 DEF Execute
  <2>2. Value(size).size \in Nat /\ Value(size) # Error("none")
    BY ToolLimitsAssumption DEF Value, Error
  <2> QED
    BY <1>4, <1>6, <2>1, <2>2 DEF Execute
<1>7. CASE UNCHANGED limitVars
  BY <1>7 DEF limitVars, LimitsInv, Counters, OpenCalls, Unanswered, LimitsEnforced, Allowed, Allows, Passes, Within
<1> QED
  BY <1>3, <1>5, <1>6, <1>7 DEF LimitsNext

\* ToolRuntime::execute_batch behind a ScopedFilter keeps its limits.
THEOREM LimitsHoldInBatches == LimitsSpec => []LimitsEnforced
<1>1. LimitsInit => LimitsInv
  BY LimitsInvInit
<1>2. LimitsInv /\ [LimitsNext]_limitVars => LimitsInv'
  BY LimitsInvStep
<1>3. LimitsInv => LimitsEnforced
  BY DEF LimitsInv
<1> QED
  BY <1>1, <1>2, <1>3, PTL DEF LimitsSpec
-----------------------------------------------------------------------------
(* The doom loop detector: for any configuration, any batches and any number *)
(* of incarnations of a run.                                                 *)
DoomSpec == DoomInit /\ [][DoomNext]_doomVars

\* What a run may do: a stretch with the period is at most so long.
Limits ==
    {<<1, config.consecutive - 1>>}
    \cup {<<c, c * (config.repetitions + 1) - 1>> : c \in config.minCycle..config.maxCycle}

\* The first n calls have no longer stretch than the limits allow, so many
\* times over.
Bounded(s, n, times) ==
    \A p \in Limits, from, to \in 1..n :
        from <= to /\ Periodic(s, from, to, p[1]) => to - from + 1 <= p[2] * times

NeverTripped(h) == \A n \in 1..Len(h) : ~Tripped(SubSeq(h, 1, n))

EndsWith(s, t) ==
    /\ Len(t) <= Len(s)
    /\ \A i \in 1..Len(t) : s[Len(s) - Len(t) + i] = t[i]

\* The last calls are a loop that trips the detector just now.
LoopAtEnd(h, v) ==
    \E r \in Stretches(h) :
        /\ r[2] = Len(h)
        /\ \E c \in {1} \cup config.minCycle..config.maxCycle :
            /\ Periodic(h, r[1], r[2], c)
            /\ r[2] - r[1] + 1 = IF v = "duplicate" THEN config.consecutive
                                  ELSE c * (config.repetitions + 1)

\* While no loop has been found, what was executed ends with what this
\* incarnation recorded, which never tripped the detector; and the stretches
\* of the incarnations before it are bounded.
RunOK(h, done, v, n) ==
    /\ h \in Seq(Fingerprints) /\ done \in Seq(Fingerprints) /\ n \in Nat
    /\ v \in {"none", "duplicate", "cycle"}
    /\ v = "none" => /\ EndsWith(done, h) /\ NeverTripped(h)
                     /\ Bounded(done, Len(done) - Len(h), n)
    /\ v # "none" => LoopAtEnd(h, v)
    /\ Bounded(done, Len(done), n + 1)

DoomInv == config \in Configs /\ RunOK(recorded, executed, verdict, resumes)

\* Numbers: division with remainder, and a product that grows with a factor.
LEMMA Remainder ==
    ASSUME NEW m \in Nat, NEW c \in Nat \ {0}
    PROVE  \E q \in Nat, j \in 1..c : m = q * c + (j - 1)
<1> DEFINE S == {d \in Nat : \E q \in Nat : m = q * c + d}
<1>1. m \in S
  <2>1. m = 0 * c + m
    OBVIOUS
  <2> QED
    BY <2>1
<1>2. PICK d \in S : \A e \in S : d <= e
  <2> HIDE DEF S
  <2>1. S \in SUBSET Nat /\ S # {}
    BY <1>1 DEF S
  <2> QED
    BY <2>1, LeastExists
<1>3. PICK q \in Nat : m = q * c + d
  BY <1>2
<1>4. d < c
  <2> SUFFICES ASSUME ~(d < c) PROVE FALSE
    OBVIOUS
  <2>1. d - c \in Nat /\ q + 1 \in Nat
    BY <1>2
  <2>2. m = (q + 1) * c + (d - c)
    BY <1>2, <1>3
  <2>3. d - c \in S
    BY <2>1, <2>2
  <2> QED
    BY <1>2, <2>1, <2>3
<1>5. d + 1 \in 1..c /\ m = q * c + ((d + 1) - 1)
  BY <1>2, <1>3, <1>4
<1> QED
  BY <1>5

LEMMA ProductGrows ==
    ASSUME NEW a \in Nat, NEW b \in Nat, NEW c \in Nat, a <= b
    PROVE  a * c \in Nat /\ b * c \in Nat /\ a * c <= b * c
<1>1. PICK d \in Nat : b = a + d
  <2>1. b - a \in Nat /\ b = a + (b - a)
    OBVIOUS
  <2> QED
    BY <2>1
<1>2. d * c \in Nat /\ a * c \in Nat
  OBVIOUS
<1>3. b * c = a * c + d * c
  BY <1>1
<1> QED
  BY <1>2, <1>3

\* A stretch of period 1 is one call, over and over.
LEMMA StretchOfEquals ==
    ASSUME NEW h, NEW a \in Int, NEW b \in Int, Periodic(h, a, b, 1)
    PROVE  \A i \in a..b : h[i] = h[b]
<1> SUFFICES ASSUME NEW k \in a..b, h[k] # h[b]
             PROVE  FALSE
  OBVIOUS
<1> DEFINE S == {d \in Nat : a <= b - d /\ h[b - d] # h[b]}
<1>1. b - k \in S
  <2>1. b - k \in Nat /\ b - (b - k) = k
    OBVIOUS
  <2> QED
    BY <2>1
<1>2. PICK d \in S : \A e \in S : d <= e
  <2> HIDE DEF S
  <2>1. S \in SUBSET Nat /\ S # {}
    BY <1>1 DEF S
  <2> QED
    BY <2>1, LeastExists
<1>3. d # 0
  <2>1. b - 0 = b
    OBVIOUS
  <2> QED
    BY <1>2, <2>1
<1>4. d - 1 \in Nat /\ d - 1 \notin S
  BY <1>2, <1>3
<1>5. h[b - (d - 1)] = h[b]
  BY <1>2, <1>4
<1>6. b - d \in a..(b - 1) /\ (b - d) + 1 = b - (d - 1)
  BY <1>2, <1>3
<1>7. h[b - d] = h[(b - d) + 1]
  BY <1>6 DEF Periodic
<1> QED
  BY <1>2, <1>5, <1>6, <1>7

\* A stretch with a period holds copies of its first calls.
LEMMA PeriodicCopies ==
    ASSUME NEW h, NEW c \in Nat, NEW k \in Nat, NEW a \in Int, NEW b \in Int,
           b - a + 1 >= c * (k + 1), Periodic(h, a, b, c)
    PROVE  \A rep \in 0..k, i \in 1..c : h[a - 1 + rep * c + i] = h[a - 1 + i]
<1> SUFFICES ASSUME NEW i \in 1..c, NEW r \in 0..k, h[a - 1 + r * c + i] # h[a - 1 + i]
             PROVE  FALSE
  OBVIOUS
<1> DEFINE S == {d \in Nat : d <= k /\ h[a - 1 + d * c + i] # h[a - 1 + i]}
<1>1. r \in S
  OBVIOUS
<1>2. PICK d \in S : \A e \in S : d <= e
  <2> HIDE DEF S
  <2>1. S \in SUBSET Nat /\ S # {}
    BY <1>1 DEF S
  <2> QED
    BY <2>1, LeastExists
<1>3. d # 0
  <2>1. a - 1 + 0 * c + i = a - 1 + i
    OBVIOUS
  <2> QED
    BY <1>2, <2>1
<1>4. d - 1 \in Nat /\ d - 1 <= k /\ d - 1 \notin S
  BY <1>2, <1>3
<1>5. h[a - 1 + (d - 1) * c + i] = h[a - 1 + i]
  BY <1>4
<1> DEFINE at == a - 1 + (d - 1) * c + i
<1>6. at + c = a - 1 + d * c + i
  BY <1>2
<1>7. at \in a..(b - c)
  <2>1. (d - 1) * c \in Nat /\ (d + 1) * c <= (k + 1) * c
    BY <1>2, <1>4, ProductGrows
  <2>2. (d + 1) * c = d * c + c /\ (k + 1) * c = c * (k + 1) /\ d * c \in Nat
    BY <1>2
  <2>3. d * c + c <= b - a + 1
    BY <1>2, <2>1, <2>2
  <2>4. at \in Int /\ a <= at
    BY <2>1
  <2>5. at <= b - c
    BY <1>6, <2>2, <2>3, <2>4
  <2> QED
    BY <2>4, <2>5
<1>8. h[at] = h[at + c]
  BY <1>7 DEF Periodic
<1> QED
  BY <1>2, <1>5, <1>6, <1>8

\* And copies of one pattern, one behind the other, are such a stretch.
LEMMA CopiesArePeriodic ==
    ASSUME NEW h, NEW c \in Nat \ {0}, NEW k \in Nat, NEW start \in Int,
           \A rep \in 1..k, i \in 1..c : h[start + rep * c + i] = h[start + i]
    PROVE  Periodic(h, start + 1, start + c * (k + 1), c)
<1>1. \A rep \in 0..k, i \in 1..c : h[start + rep * c + i] = h[start + i]
  <2>1. ASSUME NEW i \in 1..c
        PROVE  h[start + 0 * c + i] = h[start + i]
    <3>1. start + 0 * c + i = start + i
      OBVIOUS
    <3> QED
      BY <3>1
  <2>2. \A rep \in 0..k : rep = 0 \/ rep \in 1..k
    OBVIOUS
  <2> QED
    BY <2>1, <2>2
<1> SUFFICES ASSUME NEW i \in (start + 1)..(start + c * (k + 1) - c)
             PROVE  h[i] = h[i + c]
  BY DEF Periodic
<1>2. i - start - 1 \in Nat
  OBVIOUS
<1>3. PICK q \in Nat, j \in 1..c : i - start - 1 = q * c + (j - 1)
  BY <1>2, Remainder
<1>4. q < k
  <2> SUFFICES ASSUME k <= q PROVE FALSE
    OBVIOUS
  <2>1. k * c <= q * c /\ k * c \in Nat /\ q * c \in Nat
    BY ProductGrows
  <2>2. c * (k + 1) - c = k * c
    OBVIOUS
  <2>3. i <= start + k * c
    BY <2>1, <2>2
  <2> QED
    BY <1>3, <2>1, <2>3
<1>5. i = start + q * c + j /\ i + c = start + (q + 1) * c + j
  <2>1. q * c \in Nat /\ (q + 1) * c = q * c + c
    OBVIOUS
  <2> QED
    BY <1>3, <2>1
<1>6. q \in 0..k /\ q + 1 \in 0..k
  BY <1>4
<1> QED
  BY <1>1, <1>5, <1>6
\* What the assumption says of the configuration of the run.
LEMMA ConfigNumbers ==
    ASSUME config \in Configs
    PROVE  /\ config.consecutive \in Nat \ {0} /\ config.repetitions \in Nat
           /\ \A c \in config.minCycle..config.maxCycle :
                  c \in Nat \ {0} /\ c * (config.repetitions + 1) \in Nat \ {0}
<1>1. /\ config.consecutive \in Nat \ {0} /\ config.repetitions \in Nat
      /\ config.minCycle \in Nat \ {0} /\ config.maxCycle \in Nat
  BY DoomAssumption
<1>2. ASSUME NEW c \in config.minCycle..config.maxCycle
      PROVE  c \in Nat \ {0} /\ c * (config.repetitions + 1) \in Nat \ {0}
  <2>1. c \in Nat \ {0}
    BY <1>1
  <2>2. c * config.repetitions \in Nat /\ c * (config.repetitions + 1) = c * config.repetitions + c
    BY <1>1, <2>1
  <2> QED
    BY <2>1, <2>2
<1> QED
  BY <1>1, <1>2

\* check_consecutive_duplicate and check_cycle, asked after every call, let no
\* longer stretch come about.
LEMMA UntrippedIsBounded ==
    ASSUME config \in Configs, NEW F, NEW h \in Seq(F), NeverTripped(h)
    PROVE  Bounded(h, Len(h), 1)
<1> SUFFICES ASSUME NEW p \in Limits, NEW a \in 1..Len(h), NEW b \in 1..Len(h),
                    a <= b, Periodic(h, a, b, p[1]), b - a + 1 > p[2]
             PROVE  FALSE
  <2>1. \A p \in Limits : p[2] \in Int
    BY ConfigNumbers DEF Limits
  <2>2. ASSUME NEW p \in Limits, NEW a \in 1..Len(h), NEW b \in 1..Len(h),
               a <= b, Periodic(h, a, b, p[1])
        PROVE  b - a + 1 <= p[2] * 1
    <3>1. p[2] \in Int /\ p[2] * 1 = p[2]
      BY <2>1
    <3>2. CASE b - a + 1 <= p[2]
      BY <3>1, <3>2
    <3>3. CASE b - a + 1 > p[2]
      BY <2>2, <3>3
    <3> QED
      BY <3>1, <3>2, <3>3
  <2> QED
    BY <2>2 DEF Bounded
<1>1. ASSUME NEW n \in 1..Len(h)
      PROVE  /\ Len(SubSeq(h, 1, n)) = n /\ \A i \in 1..n : SubSeq(h, 1, n)[i] = h[i]
             /\ ~Tripped(SubSeq(h, 1, n))
  BY DEF NeverTripped
<1>2. CASE p = <<1, config.consecutive - 1>>
  <2> DEFINE n == a + config.consecutive - 1
             g == SubSeq(h, 1, n)
  <2>1. n \in 1..Len(h) /\ n <= b /\ n - config.consecutive + 1 = a
    <3>1. p[2] = config.consecutive - 1 /\ config.consecutive \in Nat \ {0}
      BY <1>2, ConfigNumbers
    <3>2. PICK x \in Nat \ {0} : x = config.consecutive
      BY <3>1
    <3>3. Len(h) \in Nat /\ a \in 1..Len(h) /\ b \in 1..Len(h) /\ b - a + 1 > x - 1
      BY <3>1, <3>2
    <3>4. n = a + x - 1
      BY <3>2
    <3> HIDE DEF n
    <3>5. n \in 1..Len(h) /\ n <= b /\ n - x + 1 = a
      BY <3>3, <3>4
    <3> QED
      BY <3>2, <3>5
  <2>2. Periodic(h, a, n, 1)
    BY <1>2, <2>1 DEF Periodic
  <2>3. \A i \in a..n : h[i] = h[n]
    BY <2>1, <2>2, StretchOfEquals
  <2> HIDE DEF n
  <2>4. Len(g) = n /\ \A i \in a..n : g[i] = g[n]
    BY <1>1, <2>1, <2>3
  <2>5. n >= config.consecutive
    BY <2>1, ConfigNumbers DEF n
  <2>6. Duplicate(g)
    BY <2>1, <2>4, <2>5 DEF Duplicate
  <2> QED
    BY <1>1, <2>1, <2>6 DEF Tripped
<1>3. ASSUME NEW c \in config.minCycle..config.maxCycle,
             p = <<c, c * (config.repetitions + 1) - 1>>
      PROVE  FALSE
  <2>0. PICK k \in Nat : k = config.repetitions
    BY ConfigNumbers
  <2>1. c \in Nat \ {0} /\ c * (k + 1) \in Nat \ {0}
    BY <2>0, ConfigNumbers
  <2> DEFINE n == a + c * (k + 1) - 1
             g == SubSeq(h, 1, n)
  <2>2. n \in 1..Len(h) /\ n <= b /\ n - c * (k + 1) = a - 1
    <3>1. PICK x \in Nat \ {0} : x = c * (k + 1)
      BY <2>1
    <3>2. p[2] = x - 1
      BY <1>3, <2>0, <3>1
    <3>3. Len(h) \in Nat /\ a \in 1..Len(h) /\ b \in 1..Len(h) /\ b - a + 1 > x - 1
      BY <3>2
    <3>4. n = a + x - 1
      BY <3>1
    <3> HIDE DEF n
    <3>5. n \in 1..Len(h) /\ n <= b /\ n - x = a - 1
      BY <3>3, <3>4
    <3> QED
      BY <3>1, <3>5
  <2>3. Periodic(h, a, n, c)
    <3>1. \A i \in a..(n - c) : i \in a..(b - c)
      BY <2>1, <2>2
    <3> QED
      BY <1>3, <3>1 DEF Periodic
  <2>4. \A rep \in 0..k, i \in 1..c : h[a - 1 + rep * c + i] = h[a - 1 + i]
    <3>1. n - a + 1 >= c * (k + 1)
      BY <2>1, <2>2
    <3>2. c \in Nat /\ k \in Nat /\ a \in Int /\ n \in Int
      BY <2>1, <2>2
    <3> HIDE DEF n
    <3> QED
      BY <2>3, <3>1, <3>2, PeriodicCopies
  <2>5. ASSUME NEW rep \in 0..k, NEW i \in 1..c
        PROVE  a - 1 + rep * c + i \in 1..n
    <3>1. rep * c <= k * c /\ rep * c \in Nat /\ k * c \in Nat
      BY <2>1, ProductGrows
    <3>2. n = a - 1 + k * c + c
      BY <2>1
    <3> QED
      BY <2>1, <3>1, <3>2
  <2> HIDE DEF n
  <2>6. ASSUME NEW rep \in 1..k, NEW i \in 1..c
        PROVE  g[a - 1 + rep * c + i] = g[a - 1 + i]
    <3>1. rep \in 0..k /\ 0 \in 0..k /\ a - 1 + 0 * c + i = a - 1 + i
      BY <2>1
    <3>2. a - 1 + rep * c + i \in 1..n /\ a - 1 + i \in 1..n
      BY <2>5, <3>1
    <3> QED
      BY <1>1, <2>2, <2>4, <3>1, <3>2
  <2>7. Len(g) = n /\ a - 1 >= 0
    BY <1>1, <2>2
  <2>8. Repeats(g, c)
    <3>1. Len(g) - c * (config.repetitions + 1) = a - 1
      BY <2>0, <2>2, <2>7
    <3> QED
      BY <2>0, <2>6, <2>7, <3>1 DEF Repeats
  <2> QED
    BY <1>1, <2>2, <2>8 DEF Tripped, Cycle
<1> QED
  BY <1>2, <1>3 DEF Limits

\* One more incarnation adds at most one limit to a stretch.
LEMMA OneMoreIncarnation ==
    ASSUME config \in Configs, NEW s \in Seq(Fingerprints), NEW t \in Seq(Fingerprints), NEW times \in Nat,
           EndsWith(s, t), NeverTripped(t), Bounded(s, Len(s) - Len(t), times)
    PROVE  Bounded(s, Len(s), times + 1)
<1> DEFINE k == Len(s) - Len(t)
<1>1. Bounded(t, Len(t), 1)
  BY UntrippedIsBounded
<1>2. k \in Nat /\ Len(s) \in Nat /\ Len(t) \in Nat /\ Len(s) = k + Len(t)
  BY DEF EndsWith
<1>3. \A i \in 1..Len(t) : s[k + i] = t[i]
  BY DEF EndsWith
<1> HIDE DEF k
<1> SUFFICES ASSUME NEW p \in Limits, NEW a \in 1..Len(s), NEW b \in 1..Len(s),
                    a <= b, Periodic(s, a, b, p[1])
             PROVE  b - a + 1 <= p[2] * (times + 1)
  BY DEF Bounded
<1>4. p[2] \in Nat /\ p[1] \in Nat
  <2>1. CASE p = <<1, config.consecutive - 1>>
    BY <2>1, ConfigNumbers
  <2>2. ASSUME NEW c \in config.minCycle..config.maxCycle, p = <<c, c * (config.repetitions + 1) - 1>>
        PROVE  p[2] \in Nat /\ p[1] \in Nat
    <3>1. PICK x \in Nat \ {0} : x = c * (config.repetitions + 1)
      BY ConfigNumbers
    <3>2. p[1] = c /\ p[2] = x - 1 /\ c \in Nat
      BY <2>2, <3>1, ConfigNumbers
    <3> QED
      BY <3>1, <3>2
  <2> QED
    BY <2>1, <2>2 DEF Limits
<1>5. PICK c \in Nat, m \in Nat : p[1] = c /\ p[2] = m
  BY <1>4
<1>6. m * (times + 1) = m * times + m /\ m * times \in Nat
  BY <1>5
\* The part before the incarnation, and the part of it.
<1>7. ASSUME NEW e \in 1..k, a <= e, e <= b
      PROVE  e - a + 1 <= m * times
  <2>1. Periodic(s, a, e, c)
    BY <1>2, <1>5, <1>7 DEF Periodic
  <2>2. Bounded(s, k, times)
    BY DEF k
  <2>3. a \in 1..k
    BY <1>2, <1>7
  <2>4. e - a + 1 <= p[2] * times
    BY <1>5, <1>7, <2>1, <2>2, <2>3 DEF Bounded
  <2> QED
    BY <1>5, <2>4
<1>8. ASSUME NEW f \in 1..Len(s), k < f, a <= f, f <= b
      PROVE  b - f + 1 <= m
  <2>1. f - k \in 1..Len(t) /\ b - k \in 1..Len(t) /\ f - k <= b - k
    BY <1>2, <1>8
  <2>2. ASSUME NEW i \in (f - k)..(b - k - c)
        PROVE  t[i] = t[i + c]
    <3>1. i \in 1..Len(t) /\ i + c \in 1..Len(t) /\ k + i \in a..(b - c) /\ k + (i + c) = (k + i) + c
      BY <1>2, <1>8, <2>1
    <3>2. s[k + i] = s[(k + i) + c]
      BY <1>5, <3>1 DEF Periodic
    <3>3. s[k + i] = t[i] /\ s[k + (i + c)] = t[i + c]
      BY <1>3, <3>1
    <3> QED
      BY <3>1, <3>2, <3>3
  <2>3. Periodic(t, f - k, b - k, c)
    BY <2>2 DEF Periodic
  <2>4. (b - k) - (f - k) + 1 <= p[2] * 1
    BY <1>1, <1>5, <2>1, <2>3 DEF Bounded
  <2> QED
    BY <1>2, <1>5, <2>4
<1>9. CASE b <= k
  <2>1. b - a + 1 <= m * times
    BY <1>2, <1>7, <1>9
  <2> QED
    BY <1>5, <1>6, <2>1
<1>10. CASE k < a
  <2>1. b - a + 1 <= m
    BY <1>8, <1>10
  <2> QED
    BY <1>5, <1>6, <2>1
<1>11. CASE a <= k /\ k < b
  <2>1. k - a + 1 <= m * times
    BY <1>2, <1>7, <1>11
  <2>2. b - (k + 1) + 1 <= m
    <3>1. k + 1 \in 1..Len(s)
      BY <1>2, <1>11
    <3> QED
      BY <1>2, <1>8, <1>11, <3>1
  <2> QED
    BY <1>2, <1>5, <1>6, <2>1, <2>2
<1> QED
  BY <1>2, <1>9, <1>10, <1>11

\* The bound on what was executed, as the property states it.
LEMMA BoundedStretches ==
    ASSUME config \in Configs, executed \in Seq(Fingerprints), resumes \in Nat
    PROVE  Bounded(executed, Len(executed), resumes + 1) <=>
           \A r \in Stretches(executed) :
               LET length == r[2] - r[1] + 1
               IN  /\ Periodic(executed, r[1], r[2], 1) =>
                          length <= (config.consecutive - 1) * (resumes + 1)
                   /\ \A c \in config.minCycle..config.maxCycle :
                          Periodic(executed, r[1], r[2], c) =>
                              length <= (c * (config.repetitions + 1) - 1) * (resumes + 1)
<1> DEFINE Short(a, b) ==
             /\ Periodic(executed, a, b, 1) => b - a + 1 <= (config.consecutive - 1) * (resumes + 1)
             /\ \A c \in config.minCycle..config.maxCycle :
                    Periodic(executed, a, b, c) =>
                        b - a + 1 <= (c * (config.repetitions + 1) - 1) * (resumes + 1)
<1>1. ASSUME NEW a, NEW b
      PROVE  Short(a, b) <=>
             \A p \in Limits : Periodic(executed, a, b, p[1]) => b - a + 1 <= p[2] * (resumes + 1)
  <2> DEFINE Under(c, l) == Periodic(executed, a, b, c) => b - a + 1 <= l * (resumes + 1)
  <2>1. (\A p \in Limits : Under(p[1], p[2])) <=>
        /\ Under(1, config.consecutive - 1)
        /\ \A c \in config.minCycle..config.maxCycle : Under(c, c * (config.repetitions + 1) - 1)
    <3> HIDE DEF Under
    <3>1. ASSUME \A p \in Limits : Under(p[1], p[2])
          PROVE  Under(1, config.consecutive - 1)
      <4>1. <<1, config.consecutive - 1>> \in Limits
        BY DEF Limits
      <4> QED
        BY <3>1, <4>1
    <3>2. ASSUME \A p \in Limits : Under(p[1], p[2]), NEW c \in config.minCycle..config.maxCycle
          PROVE  Under(c, c * (config.repetitions + 1) - 1)
      <4> DEFINE l == c * (config.repetitions + 1) - 1
      <4>1. <<c, l>> \in Limits
        BY DEF Limits
      <4> HIDE DEF l
      <4>2. Under(c, l)
        BY <3>2, <4>1
      <4> QED
        BY <4>2 DEF l
    <3>3. ASSUME Under(1, config.consecutive - 1),
                 \A c \in config.minCycle..config.maxCycle : Under(c, c * (config.repetitions + 1) - 1),
                 NEW p \in Limits
          PROVE  Under(p[1], p[2])
      <4>1. CASE p = <<1, config.consecutive - 1>>
        BY <3>3, <4>1
      <4>2. ASSUME NEW c \in config.minCycle..config.maxCycle, p = <<c, c * (config.repetitions + 1) - 1>>
            PROVE  Under(p[1], p[2])
        BY <3>3, <4>2
      <4> QED
        BY <4>1, <4>2 DEF Limits
    <3> QED
      BY <3>1, <3>2, <3>3
  <2> QED
    BY <2>1
<1>2. Bounded(executed, Len(executed), resumes + 1) <=>
      \A a, b \in 1..Len(executed) : a <= b => Short(a, b)
  <2> HIDE DEF Short
  <2> QED
    BY <1>1 DEF Bounded
<1>3. (\A r \in Stretches(executed) : Short(r[1], r[2])) <=>
      \A a, b \in 1..Len(executed) : a <= b => Short(a, b)
  <2> HIDE DEF Short
  <2>1. ASSUME NEW a \in 1..Len(executed), NEW b \in 1..Len(executed), a <= b
        PROVE  <<a, b>> \in Stretches(executed)
    BY <2>1 DEF Stretches
  <2>2. ASSUME NEW r \in Stretches(executed)
        PROVE  r[1] \in 1..Len(executed) /\ r[2] \in 1..Len(executed) /\ r[1] <= r[2]
    BY <2>2 DEF Stretches
  <2>3. ASSUME \A r \in Stretches(executed) : Short(r[1], r[2]),
               NEW a \in 1..Len(executed), NEW b \in 1..Len(executed), a <= b
        PROVE  Short(a, b)
    <3>1. Short(<<a, b>>[1], <<a, b>>[2])
      BY <2>1, <2>3
    <3> QED
      BY <3>1
  <2> QED
    BY <2>2, <2>3
<1> QED
  BY <1>2, <1>3

\* What trips the detector ends with a stretch that is one limit and one call.
LEMMA TripIsLoop ==
    ASSUME config \in Configs, NEW h \in Seq(Fingerprints), NEW v \in {"duplicate", "cycle"},
           IF v = "duplicate" THEN Duplicate(h) ELSE Cycle(h)
    PROVE  LoopAtEnd(h, v)
<1>1. CASE v = "duplicate"
  <2> DEFINE a == Len(h) - config.consecutive + 1
  <2>1. config.consecutive \in Nat \ {0} /\ Len(h) \in Nat
    BY ConfigNumbers
  <2>2. a \in 1..Len(h) /\ Len(h) \in 1..Len(h) /\ Len(h) - a + 1 = config.consecutive /\ a <= Len(h)
    BY <1>1, <2>1 DEF Duplicate
  <2>3. \A i \in a..Len(h) : h[i] = h[Len(h)]
    BY <1>1 DEF Duplicate
  <2> HIDE DEF a
  <2>4. Periodic(h, a, Len(h), 1)
    BY <2>2, <2>3 DEF Periodic
  <2>5. <<a, Len(h)>> \in Stretches(h)
    BY <2>2 DEF Stretches
  <2> QED
    BY <1>1, <2>2, <2>4, <2>5 DEF LoopAtEnd
<1>2. CASE v = "cycle"
  <2>1. PICK c \in config.minCycle..config.maxCycle : Repeats(h, c)
    BY <1>2 DEF Cycle
  <2>2. PICK k \in Nat : k = config.repetitions
    BY ConfigNumbers
  <2>3. PICK n \in Nat : n = Len(h)
    OBVIOUS
  <2> DEFINE start == n - c * (k + 1)
  <2>4. c \in Nat \ {0} /\ c * (k + 1) \in Nat \ {0}
    BY <2>2, ConfigNumbers
  <2>5. start \in Nat /\ \A rep \in 1..k, i \in 1..c : h[start + rep * c + i] = h[start + i]
    BY <2>1, <2>2, <2>3, <2>4 DEF Repeats
  <2>6. start + c * (k + 1) = n /\ start + 1 \in 1..n /\ n \in 1..n
    BY <2>4, <2>5
  <2> HIDE DEF start
  <2>7. Periodic(h, start + 1, start + c * (k + 1), c)
    <3>1. start \in Int /\ c \in Nat \ {0} /\ k \in Nat
      BY <2>4, <2>5
    <3>2. \A rep \in 1..k, i \in 1..c : h[start + rep * c + i] = h[start + i]
      BY <2>5
    <3> QED
      BY <3>1, <3>2, CopiesArePeriodic
  <2>8. Periodic(h, start + 1, n, c) /\ n - (start + 1) + 1 = c * (k + 1)
    BY <2>4, <2>5, <2>6, <2>7
  <2>9. <<start + 1, n>> \in Stretches(h)
    BY <2>3, <2>6 DEF Stretches
  <2> QED
    BY <1>2, <2>2, <2>3, <2>8, <2>9 DEF LoopAtEnd
<1> QED
  BY <1>1, <1>2
\* The calls of a batch in which the detector finds nothing are all recorded,
\* and it found nothing after any of them.
LEMMA QuietBatch ==
    ASSUME recorded \in Seq(Fingerprints), NeverTripped(recorded),
           NEW added \in Seq(Fingerprints), Len(added) # 0,
           ~Tripped(recorded \o SubSeq(added, 1, BatchEnd(added)))
    PROVE  /\ recorded \o SubSeq(added, 1, BatchEnd(added)) = recorded \o added
           /\ NeverTripped(recorded \o added)
<1> DEFINE H(i) == recorded \o SubSeq(added, 1, i)
           trips == {i \in DOMAIN added : Tripped(H(i))}
<1>1. BatchEnd(added) = IF trips = {} THEN Len(added) ELSE CHOOSE i \in trips : \A j \in trips : i <= j
  BY DEF BatchEnd
<1>2. DOMAIN added = 1..Len(added) /\ Len(added) \in Nat
  OBVIOUS
<1>3. trips = {}
  <2> SUFFICES ASSUME trips # {} PROVE FALSE
    OBVIOUS
  <2>1. trips \in SUBSET Nat
    BY <1>2
  <2> HIDE DEF trips
  <2>2. \E i \in trips : \A j \in trips : i <= j
    BY <2>1, LeastExists
  <2>3. BatchEnd(added) \in trips
    BY <1>1, <2>2
  <2> QED
    BY <2>3 DEF trips
<1>4. BatchEnd(added) = Len(added)
  BY <1>1, <1>3
<1>5. SubSeq(added, 1, Len(added)) = added
  BY SubSeqFull
<1>6. ASSUME NEW n \in 1..Len(recorded \o added)
      PROVE  ~Tripped(SubSeq(recorded \o added, 1, n))
  <2> DEFINE all == recorded \o added
             g == SubSeq(all, 1, n)
  <2>1. /\ all \in Seq(Fingerprints) /\ Len(all) = Len(recorded) + Len(added)
        /\ \A i \in 1..Len(all) : all[i] = IF i <= Len(recorded) THEN recorded[i]
                                           ELSE added[i - Len(recorded)]
    BY ConcatProperties
  <2>2. g \in Seq(Fingerprints) /\ Len(g) = n /\ \A i \in 1..n : g[i] = all[i]
    <3>1. 1 \in Int /\ n \in Int /\ \A i \in 1..n : all[i] \in Fingerprints
      BY <2>1
    <3> HIDE DEF all
    <3>2. /\ g \in Seq(Fingerprints) /\ Len(g) = IF 1 <= n THEN n - 1 + 1 ELSE 0
          /\ \A i \in 1..(n - 1 + 1) : g[i] = all[1 + i - 1]
      BY <3>1, SubSeqProperties
    <3> QED
      BY <2>1, <3>2
  <2>3. n \in 1..Len(all)
    OBVIOUS
  <2> HIDE DEF all, g
  <2>4. CASE n <= Len(recorded)
    <3> DEFINE r == SubSeq(recorded, 1, n)
    <3>1. r \in Seq(Fingerprints) /\ Len(r) = n /\ \A i \in 1..n : r[i] = recorded[i]
      BY <2>3, <2>4
    <3> HIDE DEF r
    <3>2. g = r
      <4>1. \A i \in 1..Len(g) : g[i] = r[i]
        BY <2>1, <2>2, <2>3, <2>4, <3>1
      <4> QED
        BY <2>2, <3>1, <4>1, SeqEqual
    <3>3. ~Tripped(r)
      <4>1. n \in 1..Len(recorded)
        BY <2>1, <2>3, <2>4
      <4> QED
        BY <4>1 DEF NeverTripped, r
    <3> QED
      BY <3>2, <3>3 DEF g, all
  <2>5. CASE n > Len(recorded)
    <3> DEFINE m == n - Len(recorded)
               b == SubSeq(added, 1, m)
               r == recorded \o b
    <3>1. m \in 1..Len(added) /\ n = Len(recorded) + m
      BY <2>1, <2>3, <2>5
    <3> HIDE DEF m
    <3>2. b \in Seq(Fingerprints) /\ Len(b) = m /\ \A i \in 1..m : b[i] = added[i]
      BY <3>1
    <3> HIDE DEF b
    <3>3. /\ r \in Seq(Fingerprints) /\ Len(r) = Len(recorded) + Len(b)
          /\ \A i \in 1..Len(recorded) + Len(b) :
                 r[i] = IF i <= Len(recorded) THEN recorded[i] ELSE b[i - Len(recorded)]
      BY <3>2, ConcatProperties
    <3> HIDE DEF r
    <3>4. g = r
      <4>1. Len(r) = n
        BY <3>1, <3>2, <3>3
      <4>2. \A i \in 1..Len(g) : g[i] = r[i]
        <5>1. ASSUME NEW i \in 1..n
              PROVE  g[i] = r[i]
          <6>1. g[i] = IF i <= Len(recorded) THEN recorded[i] ELSE added[i - Len(recorded)]
            BY <2>1, <2>2, <2>3
          <6>2. i \in 1..Len(recorded) + Len(b) /\ Len(recorded) \in Nat
            BY <3>1, <3>2
          <6>3. r[i] = IF i <= Len(recorded) THEN recorded[i] ELSE b[i - Len(recorded)]
            BY <3>3, <6>2
          <6>4. CASE i <= Len(recorded)
            BY <6>1, <6>3, <6>4
          <6>5. CASE ~(i <= Len(recorded))
            <7>1. i - Len(recorded) \in 1..m
              BY <3>1, <6>2, <6>5
            <7> QED
              BY <3>2, <6>1, <6>3, <6>5, <7>1
          <6> QED
            BY <6>4, <6>5
        <5> QED
          BY <2>2, <5>1
      <4> QED
        BY <2>2, <3>3, <4>1, <4>2, SeqEqual
    <3>5. ~Tripped(r)
      BY <1>2, <1>3, <3>1 DEF r, b
    <3> QED
      BY <3>4, <3>5 DEF g, all
  <2>6. n \in Int /\ Len(recorded) \in Int
    BY <2>1, <2>3
  <2> QED
    BY <2>4, <2>5, <2>6
<1> QED
  BY <1>4, <1>5, <1>6 DEF NeverTripped

LEMMA SameConfig ==
    ASSUME config' = config
    PROVE  \A h, done, v, n : RunOK(h, done, v, n)' <=> RunOK(h, done, v, n)
<1>1. Limits' = Limits
  BY DEF Limits
<1>2. \A s, n, times : Bounded(s, n, times)' <=> Bounded(s, n, times)
  BY <1>1 DEF Bounded
<1>3. \A h : Tripped(h)' <=> Tripped(h)
  <2>1. \A h : Duplicate(h)' <=> Duplicate(h)
    BY DEF Duplicate
  <2>2. \A h, c : Repeats(h, c)' <=> Repeats(h, c)
    BY DEF Repeats
  <2> QED
    BY <2>1, <2>2 DEF Tripped, Cycle
<1>4. \A h : NeverTripped(h)' <=> NeverTripped(h)
  BY <1>3 DEF NeverTripped
<1>5. \A h, v : LoopAtEnd(h, v)' <=> LoopAtEnd(h, v)
  BY DEF LoopAtEnd
<1> QED
  BY <1>2, <1>4, <1>5 DEF RunOK

\* The detector in the run: a batch in which it finds nothing, one in which it
\* finds a loop, and a new incarnation.
LEMMA DoomStep == DoomInv /\ [DoomNext]_doomVars => DoomInv'
<1> SUFFICES ASSUME DoomInv, [DoomNext]_doomVars
             PROVE  DoomInv'
  OBVIOUS
<1>1. /\ config \in Configs /\ resumes \in Nat
      /\ recorded \in Seq(Fingerprints) /\ executed \in Seq(Fingerprints)
      /\ Bounded(executed, Len(executed), resumes + 1)
      /\ verdict = "none" =>
             /\ EndsWith(executed, recorded) /\ NeverTripped(recorded)
             /\ Bounded(executed, Len(executed) - Len(recorded), resumes)
  BY DEF DoomInv, RunOK
<1>2. ASSUME config' = config, RunOK(recorded', executed', verdict', resumes')
      PROVE  DoomInv'
  <2>1. PICK h, done, v, n : h = recorded' /\ done = executed' /\ v = verdict' /\ n = resumes'
    OBVIOUS
  <2>2. RunOK(h, done, v, n)'
    <3>1. RunOK(h, done, v, n)
      BY <1>2, <2>1
    <3> QED
      BY <1>2, <3>1, SameConfig
  <2> QED
    BY <1>1, <1>2, <2>1, <2>2 DEF DoomInv
<1>3. ASSUME NEW n \in 1..MaxBatch, NEW added \in [1..n -> Fingerprints], RunBatch(added)
      PROVE  config' = config /\ RunOK(recorded', executed', verdict', resumes')
  <2>0. PICK h : h = recorded \o SubSeq(added, 1, BatchEnd(added))
    OBVIOUS
  <2>1. /\ verdict = "none" /\ recorded' = h /\ config' = config /\ resumes' = resumes
        /\ verdict' = IF Duplicate(h) THEN "duplicate" ELSE IF Cycle(h) THEN "cycle" ELSE "none"
        /\ executed' = IF Tripped(h) THEN executed ELSE executed \o added
    BY <1>3, <2>0 DEF RunBatch
  <2>2. added \in Seq(Fingerprints) /\ Len(added) = n /\ n \in Nat \ {0} /\ DOMAIN added = 1..n
    BY <1>3, DoomAssumption
  <2>3. /\ EndsWith(executed, recorded) /\ NeverTripped(recorded)
        /\ Bounded(executed, Len(executed) - Len(recorded), resumes)
    BY <1>1, <2>1
  <2>4. h \in Seq(Fingerprints)
    <3> DEFINE trips == {i \in DOMAIN added : Tripped(recorded \o SubSeq(added, 1, i))}
    <3>1. BatchEnd(added) = IF trips = {} THEN Len(added) ELSE CHOOSE i \in trips : \A j \in trips : i <= j
      BY DEF BatchEnd
    <3>2. trips \in SUBSET Nat /\ trips \subseteq 1..n
      BY <2>2
    <3> HIDE DEF trips
    <3>3. trips # {} => BatchEnd(added) \in trips
      <4>1. ASSUME trips # {}
            PROVE  \E i \in trips : \A j \in trips : i <= j
        BY <3>2, <4>1, LeastExists
      <4> QED
        BY <3>1, <4>1
    <3>4. BatchEnd(added) \in 1..Len(added)
      <4>1. CASE trips = {}
        <5>1. BatchEnd(added) = Len(added)
          BY <3>1, <4>1
        <5> QED
          BY <2>2, <5>1
      <4>2. CASE trips # {}
        BY <2>2, <3>2, <3>3, <4>2
      <4> QED
        BY <4>1, <4>2
    <3>5. SubSeq(added, 1, BatchEnd(added)) \in Seq(Fingerprints)
      BY <2>2, <3>4
    <3> QED
      BY <1>1, <2>0, <3>5, ConcatProperties
  <2>5. CASE Tripped(h)
    <3>1. verdict' \in {"duplicate", "cycle"} /\ executed' = executed
          /\ IF verdict' = "duplicate" THEN Duplicate(h) ELSE Cycle(h)
      BY <2>1, <2>5 DEF Tripped
    <3>2. PICK v : v = verdict'
      OBVIOUS
    <3>3. LoopAtEnd(h, v)
      BY <1>1, <2>4, <3>1, <3>2, TripIsLoop
    <3>4. RunOK(h, executed, v, resumes)
      BY <1>1, <2>4, <3>1, <3>2, <3>3 DEF RunOK
    <3> QED
      BY <2>1, <3>1, <3>2, <3>4
  <2>6. CASE ~Tripped(h)
    <3>0. PICK done : done = executed \o added
      OBVIOUS
    <3>1. verdict' = "none" /\ executed' = done
      BY <2>1, <2>6, <3>0 DEF Tripped
    <3>2. h = recorded \o added /\ NeverTripped(h)
      <4>1. h = recorded \o added /\ NeverTripped(recorded \o added)
        BY <1>1, <2>0, <2>2, <2>3, <2>6, QuietBatch
      <4> QED
        BY <4>1
    <3>3. /\ done \in Seq(Fingerprints) /\ Len(done) = Len(executed) + n
          /\ \A i \in 1..Len(executed) + n :
                 done[i] = IF i <= Len(executed) THEN executed[i] ELSE added[i - Len(executed)]
      BY <1>1, <2>2, <3>0, ConcatProperties
    <3>4. /\ Len(h) = Len(recorded) + n
          /\ \A i \in 1..Len(recorded) + n :
                 h[i] = IF i <= Len(recorded) THEN recorded[i] ELSE added[i - Len(recorded)]
      BY <1>1, <2>2, <3>2, ConcatProperties
    <3>6. Len(recorded) \in Nat /\ Len(executed) \in Nat /\ Len(recorded) <= Len(executed)
      BY <1>1, <2>3 DEF EndsWith
    <3>5. PICK k \in Nat : Len(executed) = Len(recorded) + k
      <4>1. Len(executed) - Len(recorded) \in Nat /\ Len(executed) = Len(recorded) + (Len(executed) - Len(recorded))
        BY <3>6
      <4> QED
        BY <4>1
    <3>7. EndsWith(done, h)
      <4>1. ASSUME NEW i \in 1..Len(h)
            PROVE  done[Len(done) - Len(h) + i] = h[i]
        <5>1. Len(done) - Len(h) + i = k + i /\ k + i \in 1..Len(executed) + n /\ i \in 1..Len(recorded) + n
          BY <2>2, <3>3, <3>4, <3>5, <3>6, <4>1
        <5>2. CASE i <= Len(recorded)
          <6>1. k + i <= Len(executed) /\ executed[Len(executed) - Len(recorded) + i] = recorded[i]
            BY <2>3, <3>4, <3>5, <3>6, <4>1, <5>2 DEF EndsWith
          <6>2. Len(executed) - Len(recorded) + i = k + i
            BY <3>5, <3>6, <4>1
          <6> QED
            BY <3>3, <3>4, <4>1, <5>1, <5>2, <6>1, <6>2
        <5>3. CASE ~(i <= Len(recorded))
          <6>1. ~(k + i <= Len(executed)) /\ k + i - Len(executed) = i - Len(recorded)
            BY <3>5, <3>6, <4>1, <5>3
          <6>2. done[k + i] = added[k + i - Len(executed)]
            BY <3>3, <5>1, <6>1
          <6>3. h[i] = added[i - Len(recorded)]
            BY <3>4, <5>1, <5>3
          <6> QED
            BY <5>1, <6>1, <6>2, <6>3
        <5> QED
          BY <5>2, <5>3
      <4>2. Len(h) <= Len(done)
        BY <2>2, <3>3, <3>4, <3>5, <3>6
      <4> QED
        BY <4>1, <4>2 DEF EndsWith
    <3>8. Len(done) - Len(h) = k /\ Len(executed) - Len(recorded) = k
      BY <2>2, <3>3, <3>4, <3>5, <3>6
    <3>9. Bounded(done, Len(done) - Len(h), resumes)
      <4>1. ASSUME NEW p \in Limits, NEW from \in 1..k, NEW to \in 1..k, from <= to,
                   Periodic(done, from, to, p[1])
            PROVE  to - from + 1 <= p[2] * resumes
        <5>1. p[1] \in Nat
          BY <1>1, ConfigNumbers DEF Limits
        <5>2. \A i \in 1..k : done[i] = executed[i]
          BY <3>3, <3>5, <3>6
        <5>3. Periodic(executed, from, to, p[1])
          <6>1. ASSUME NEW i \in from..(to - p[1])
                PROVE  executed[i] = executed[i + p[1]]
            <7>1. i \in 1..k /\ i + p[1] \in 1..k
              BY <4>1, <5>1, <6>1
            <7>2. done[i] = done[i + p[1]]
              BY <4>1, <6>1 DEF Periodic
            <7> QED
              BY <5>2, <7>1, <7>2
          <6> QED
            BY <6>1 DEF Periodic
        <5>4. Bounded(executed, k, resumes)
          BY <2>3, <3>8
        <5> QED
          BY <4>1, <5>3, <5>4 DEF Bounded
      <4>2. Bounded(done, k, resumes)
        BY <4>1 DEF Bounded
      <4> QED
        BY <3>8, <4>2
    <3>10. Bounded(done, Len(done), resumes + 1)
      BY <1>1, <2>4, <3>2, <3>3, <3>7, <3>9, OneMoreIncarnation
    <3>11. RunOK(h, done, "none", resumes)
      BY <1>1, <2>4, <3>2, <3>3, <3>7, <3>9, <3>10 DEF RunOK
    <3> QED
      BY <2>1, <3>1, <3>11
  <2> QED
    BY <2>5, <2>6
<1>4. CASE ResumeEmpty
  <2>1. /\ verdict = "none" /\ recorded' = <<>> /\ resumes' = resumes + 1
        /\ config' = config /\ executed' = executed /\ verdict' = verdict
    BY <1>4 DEF ResumeEmpty
  <2>2. /\ <<>> \in Seq(Fingerprints) /\ Len(<<>>) = 0 /\ Len(executed) \in Nat
        /\ Len(executed) - Len(<<>>) = Len(executed) /\ resumes + 1 \in Nat
    BY <1>1
  <2>3. EndsWith(executed, <<>>) /\ NeverTripped(<<>>)
    BY <2>2 DEF EndsWith, NeverTripped
  <2>4. Bounded(executed, Len(executed), (resumes + 1) + 1)
    <3>1. Bounded(executed, Len(executed) - Len(<<>>), resumes + 1)
      BY <1>1, <2>2
    <3> QED
      BY <1>1, <2>2, <2>3, <3>1, OneMoreIncarnation
  <2>5. RunOK(<<>>, executed, "none", resumes + 1)
    BY <1>1, <2>2, <2>3, <2>4 DEF RunOK
  <2> QED
    BY <1>2, <2>1, <2>5
<1>5. CASE UNCHANGED doomVars
  <2>1. RunOK(recorded, executed, verdict, resumes)
    BY DEF DoomInv
  <2> QED
    BY <1>2, <1>5, <2>1 DEF doomVars
<1> QED
  BY <1>2, <1>3, <1>4, <1>5 DEF DoomNext

\* DoomLoopDetector in run_loop_inner: whatever the configuration, the batches
\* and the crashes, no run executes a loop, and no run is failed for less.
THEOREM LoopsAreFound == DoomSpec => []LoopsAreStopped
<1>1. DoomInit => DoomInv
  <2> SUFFICES ASSUME DoomInit PROVE DoomInv
    OBVIOUS
  <2>1. /\ config \in Configs /\ recorded = <<>> /\ executed = <<>> /\ verdict = "none" /\ resumes = 0
    BY DEF DoomInit
  <2>2. <<>> \in Seq(Fingerprints) /\ Len(<<>>) = 0 /\ 0 - 0 = 0
    OBVIOUS
  <2>3. EndsWith(<<>>, <<>>) /\ NeverTripped(<<>>)
    BY <2>2 DEF EndsWith, NeverTripped
  <2>4. \A times : Bounded(<<>>, 0, times)
    BY DEF Bounded
  <2>5. RunOK(<<>>, <<>>, "none", 0)
    BY <2>2, <2>3, <2>4 DEF RunOK
  <2> QED
    BY <2>1, <2>5 DEF DoomInv
<1>2. DoomInv => LoopsAreStopped
  <2> SUFFICES ASSUME DoomInv PROVE LoopsAreStopped
    OBVIOUS
  <2>1. /\ config \in Configs /\ executed \in Seq(Fingerprints) /\ resumes \in Nat
        /\ Bounded(executed, Len(executed), resumes + 1) /\ (verdict # "none" => LoopAtEnd(recorded, verdict))
    BY DEF DoomInv, RunOK
  <2> QED
    BY <2>1, BoundedStretches DEF LoopsAreStopped, LoopAtEnd
<1> QED
  BY <1>1, <1>2, DoomStep, PTL DEF DoomSpec
=============================================================================
