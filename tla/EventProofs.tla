---------------------------- MODULE EventProofs ----------------------------
(* The observers of a runtime's events: the pipeline from the broadcast     *)
(* channel to a subscriber, and the listeners of a RuntimeInvocation.       *)
EXTENDS EventPipeline, Invocation, FunctionTheorems, FiniteSetTheorems,
        WellFoundedInduction, TLAPS

\* Every non-empty set of numbers has a least one.
LEMMA LeastExists ==
  ASSUME NEW S \in SUBSET Nat, S # {}
  PROVE  \E i \in S : \A j \in S : i <= j
PROOF
  <1>1. IsWellFoundedOn(OpToRel(<, Nat), Nat)
    BY NatLessThanWellFounded
  <1>2. PICK i \in S : \A j \in S : ~ (<<j, i>> \in OpToRel(<, Nat))
    BY <1>1, WFMin
  <1>3. \A j \in S : ~ (j < i)
    BY <1>2 DEF OpToRel
  <1> QED
    BY <1>3
-----------------------------------------------------------------------------
(* The pipeline, for each of the three stores and adapters, and any number   *)
(* of runs, readers, events and failures.                                    *)
PipelineSpec ==
    /\ EventsInit /\ PipelineInit
    /\ wiring.store \in {"memory", "redis", "postgres"} /\ wiring.readers \subseteq Readers
    /\ [][PipelineNext]_<<eventVars, pipelineVars>>

Event == [run : Runs, kind : Kinds, n : Nat]
Unstored == {"session", "seq", "insert"}
Appending ==
    [at : Unstored \cup {"publish", "publishSession"}, ev : Event, known : BOOLEAN, seq : Nat]
Works == {Idle, [at |-> "off"]} \cup Appending
EntryFields == [n : Nat, kind : Kinds, by : Appenders, known : BOOLEAN, seq : Nat]
ReaderFields ==
    [run : Runs, pc : {"off", "opened", "live"}, cursor : Nat, inbox : Seq(Nat), after : Nat,
     seen : SUBSET Nat, full : BOOLEAN, lagged : BOOLEAN, joined : BOOLEAN]

PipelineTypeOK ==
    /\ wiring.store \in {"memory", "redis", "postgres"} /\ wiring.readers \subseteq Readers
    /\ emitted \in Seq(Event)
    /\ log \in [Runs -> Seq(EntryFields)] /\ counter \in [Runs -> Nat]
    /\ work \in [Appenders -> Works]
    /\ cursor \in Nat /\ cursor <= Len(emitted)
    /\ room \in [Runs -> Seq(Nat)] /\ sessionRoom \in [Runs -> SUBSET Nat]
    /\ consumer \in [Runs -> Nat \cup {None}] /\ unpublished \in [Runs -> SUBSET Nat]
    /\ reader \in [Readers -> ReaderFields]
    /\ \A u \in Readers : IsFiniteSet(reader[u].seen)

\* The place of an append is that of a record of an append.
LEMMA AppendingWork ==
    ASSUME PipelineTypeOK, NEW p \in Appenders
    PROVE  /\ work[p] \in Works
           /\ work[p].at \in Unstored \cup {"publish", "publishSession"} => work[p] \in Appending
           /\ work[p] \in Appending =>
                  /\ work[p].at \in Unstored \cup {"publish", "publishSession"}
                  /\ work[p].ev \in Event /\ work[p].ev.run \in Runs /\ work[p].ev.n \in Nat
                  /\ work[p].ev.kind \in Kinds /\ work[p].seq \in Nat /\ work[p].known \in BOOLEAN
<1>1. work[p] \in Works
  BY DEF PipelineTypeOK
<1>2. work[p] = Idle => work[p].at = "idle"
  BY DEF Idle
<1>3. work[p] = [at |-> "off"] => work[p].at = "off"
  OBVIOUS
<1> QED
  BY <1>1, <1>2, <1>3 DEF Works, Appending, Event, Unstored

\* Numbers drawn for the entries of a run are numbers.
LEMMA StoredAreNumbers ==
    ASSUME PipelineTypeOK, NEW run \in Runs
    PROVE  /\ Stored(run) \subseteq Nat /\ DOMAIN log[run] = 1..Len(log[run]) /\ Len(log[run]) \in Nat
           /\ \A i \in DOMAIN log[run] : log[run][i] \in EntryFields
<1>1. log[run] \in Seq(EntryFields)
  BY DEF PipelineTypeOK
<1>2. \A i \in DOMAIN log[run] : log[run][i] \in EntryFields
  BY <1>1
<1> QED
  BY <1>1, <1>2 DEF Stored, EntryFields

\* A store that draws a number and stores the entry in one step, or rejects
\* a number that is taken, numbers the entries 1, 2, 3...
Contiguous ==
    wiring.store # "redis" => \A run \in Runs : \A i \in DOMAIN log[run] : log[run][i].seq = i

LEMMA LastSeqIsLen ==
    ASSUME PipelineTypeOK, Contiguous, wiring.store = "postgres", NEW run \in Runs
    PROVE  LastSeq(run) = Len(log[run]) /\ Stored(run) = 1..Len(log[run])
<1>1. PICK n \in Nat : n = Len(log[run]) /\ DOMAIN log[run] = 1..n
  BY StoredAreNumbers
<1>2. Stored(run) = 1..n
  BY <1>1 DEF Stored, Contiguous
<1>3. n \in Stored(run) \cup {0} /\ \A k \in Stored(run) : k <= n
  BY <1>2
<1>4. \A m \in Stored(run) \cup {0} : (\A k \in Stored(run) : k <= m) => m = n
  <2>1. CASE n = 0
    BY <1>2, <2>1
  <2>2. CASE n # 0
    <3>1. n \in Stored(run) /\ \A m \in Stored(run) \cup {0} : m \in Nat /\ m <= n
      BY <1>2, <2>2
    <3> QED
      BY <1>1, <3>1
  <2> QED
    BY <2>1, <2>2
<1> QED
  BY <1>1, <1>2, <1>3, <1>4 DEF LastSeq

\* An append that is stored keeps types.
LEMMA CommitTypes ==
    ASSUME PipelineTypeOK, NEW p \in Appenders, work[p] \in Appending, NEW known \in BOOLEAN, NEW seq \in Nat,
           NEW replied \in BOOLEAN, Commit(p, Entry(p, known, seq), replied)
    PROVE  /\ log' \in [Runs -> Seq(EntryFields)] /\ work' \in [Appenders -> Works]
           /\ unpublished' \in [Runs -> SUBSET Nat]
<1>1. PICK run \in Runs : run = work[p].ev.run
  BY AppendingWork
<1>2. PICK e : e = Entry(p, known, seq)
  OBVIOUS
<1>3. e \in EntryFields /\ e.seq \in Nat /\ e.known \in BOOLEAN
  BY <1>2, AppendingWork DEF Entry, EntryFields
<1>4. /\ log' = [log EXCEPT ![run] = Append(@, e)]
      /\ work' = [work EXCEPT ![p] = IF p = Bridge /\ replied
                                   THEN [@ EXCEPT !.at = "publish", !.known = e.known, !.seq = e.seq]
                                   ELSE Idle]
      /\ unpublished' = IF p = Bridge /\ replied THEN unpublished
                      ELSE [unpublished EXCEPT ![run] = @ \cup {e.seq}]
  BY <1>1, <1>2 DEF Commit
<1>5. log' \in [Runs -> Seq(EntryFields)]
  <2>1. log[run] \in Seq(EntryFields)
    BY DEF PipelineTypeOK
  <2>2. Append(log[run], e) \in Seq(EntryFields)
    BY <1>3, <2>1
  <2> QED
    BY <1>4, <2>2 DEF PipelineTypeOK
<1>6. work' \in [Appenders -> Works]
  <2>1. [work[p] EXCEPT !.at = "publish", !.known = e.known, !.seq = e.seq] \in Appending
    BY <1>3 DEF Appending
  <2>2. Idle \in Works
    BY DEF Works
  <2>3. PICK w \in Works : work' = [work EXCEPT ![p] = w]
    BY <1>4, <2>1, <2>2 DEF Works
  <2> QED
    BY <2>3 DEF PipelineTypeOK
<1>7. unpublished' \in [Runs -> SUBSET Nat]
  BY <1>3, <1>4 DEF PipelineTypeOK
<1> QED
  BY <1>5, <1>6, <1>7

\* An appender moves on, and nothing else but the counter changes type.
LEMMA WorkTypes ==
    ASSUME PipelineTypeOK, NEW p \in Appenders, NEW w \in Works, work' = [work EXCEPT ![p] = w]
    PROVE  work' \in [Appenders -> Works]
BY DEF PipelineTypeOK

LEMMA AppendTypes ==
    ASSUME PipelineTypeOK, NEW p \in Appenders, Contiguous,
           \/ AppendMemory(p) \/ CacheSession(p) \/ ReadSession(p) \/ IncrSeq(p)
           \/ XAdd(p) \/ SubquerySeq(p) \/ InsertRow(p) \/ RoundTripFails(p) \/ ReplyLost(p)
    PROVE  PipelineTypeOK'
<1>1. /\ work[p].at \in Unstored
      /\ wiring' = wiring /\ emitted' = emitted /\ cursor' = cursor /\ room' = room
      /\ sessionRoom' = sessionRoom /\ consumer' = consumer /\ reader' = reader
  BY DEF AppendMemory, CacheSession, ReadSession, IncrSeq, XAdd, SubquerySeq, InsertRow, RoundTripFails, ReplyLost,
         eventVars, Unstored
<1>2. work[p] \in Appending /\ work[p].ev.run \in Runs /\ work[p].seq \in Nat /\ work[p].known \in BOOLEAN
  BY <1>1, AppendingWork
<1>3. SUFFICES /\ log' \in [Runs -> Seq(EntryFields)] /\ counter' \in [Runs -> Nat]
               /\ work' \in [Appenders -> Works] /\ unpublished' \in [Runs -> SUBSET Nat]
  BY <1>1 DEF PipelineTypeOK
<1>4. Idle \in Works
  BY DEF Works
<1>5. ASSUME NEW w \in Appending
      PROVE  w \in Works
  BY DEF Works
<1>6. CASE AppendMemory(p)
  <2>1. PICK known \in BOOLEAN, seq \in Nat :
           /\ counter' = [counter EXCEPT ![work[p].ev.run] = @ + 1]
           /\ Commit(p, Entry(p, known, seq), TRUE)
    <3>1. counter[work[p].ev.run] + 1 \in Nat
      BY <1>2 DEF PipelineTypeOK
    <3>2. (work[p].ev.kind = "RunStarted" \/ work[p].ev.run \in sessions) \in BOOLEAN
      OBVIOUS
    <3> QED
      BY <1>6, <3>1, <3>2 DEF AppendMemory
  <2>2. counter' \in [Runs -> Nat]
    <3>1. counter[work[p].ev.run] + 1 \in Nat
      BY <1>2 DEF PipelineTypeOK
    <3> QED
      BY <2>1, <3>1 DEF PipelineTypeOK
  <2> QED
    BY <1>2, <2>1, <2>2, CommitTypes
<1>7. CASE CacheSession(p)
  <2>1. [work[p] EXCEPT !.at = "seq", !.known = TRUE] \in Appending
    BY <1>2 DEF Appending, Unstored
  <2>2. work' = [work EXCEPT ![p] = [work[p] EXCEPT !.at = "seq", !.known = TRUE]]
    BY <1>7 DEF CacheSession
  <2> QED
    BY <1>5, <1>7, <2>1, <2>2, WorkTypes DEF CacheSession, PipelineTypeOK
<1>8. CASE ReadSession(p)
  <2>1. [work[p] EXCEPT !.at = "seq", !.known = work[p].ev.run \in sessions] \in Appending
    <3>1. (work[p].ev.run \in sessions) \in BOOLEAN
      OBVIOUS
    <3> QED
      BY <1>2, <3>1 DEF Appending, Unstored
  <2>2. work' = [work EXCEPT ![p] = [work[p] EXCEPT !.at = "seq", !.known = work[p].ev.run \in sessions]]
    BY <1>8 DEF ReadSession
  <2> QED
    BY <1>5, <1>8, <2>1, <2>2, WorkTypes DEF ReadSession, PipelineTypeOK
<1>9. CASE IncrSeq(p)
  <2>0. counter[work[p].ev.run] + 1 \in Nat
    BY <1>2 DEF PipelineTypeOK
  <2>1. [work[p] EXCEPT !.at = "insert", !.seq = counter[work[p].ev.run] + 1] \in Appending
    BY <1>2, <2>0 DEF Appending, Unstored
  <2>2. /\ work' = [work EXCEPT ![p] = [work[p] EXCEPT !.at = "insert", !.seq = counter[work[p].ev.run] + 1]]
        /\ counter' = [counter EXCEPT ![work[p].ev.run] = @ + 1]
    BY <1>9 DEF IncrSeq
  <2>3. counter' \in [Runs -> Nat]
    BY <2>0, <2>2 DEF PipelineTypeOK
  <2> QED
    BY <1>5, <1>9, <2>1, <2>2, <2>3, WorkTypes DEF IncrSeq, PipelineTypeOK
<1>10. CASE XAdd(p)
  BY <1>2, <1>10, CommitTypes DEF XAdd, PipelineTypeOK
<1>11. CASE SubquerySeq(p)
  <2>0. LastSeq(work[p].ev.run) + 1 \in Nat
    BY <1>2, <1>11, LastSeqIsLen, StoredAreNumbers DEF SubquerySeq
  <2>1. [work[p] EXCEPT !.at = "insert", !.seq = LastSeq(work[p].ev.run) + 1] \in Appending
    BY <1>2, <2>0 DEF Appending, Unstored
  <2>2. work' = [work EXCEPT ![p] = [work[p] EXCEPT !.at = "insert", !.seq = LastSeq(work[p].ev.run) + 1]]
    BY <1>11 DEF SubquerySeq
  <2> QED
    BY <1>5, <1>11, <2>1, <2>2, WorkTypes DEF SubquerySeq, PipelineTypeOK
<1>12. CASE InsertRow(p)
  <2>1. CASE work[p].seq \in Stored(work[p].ev.run)
    BY <1>4, <1>12, <2>1, WorkTypes DEF InsertRow, AppendFailed, PipelineTypeOK
  <2>2. CASE work[p].seq \notin Stored(work[p].ev.run)
    BY <1>2, <1>12, <2>2, CommitTypes DEF InsertRow, PipelineTypeOK
  <2> QED
    BY <2>1, <2>2
<1>13. CASE RoundTripFails(p)
  BY <1>4, <1>13, WorkTypes DEF RoundTripFails, AppendFailed, PipelineTypeOK
<1>14. CASE ReplyLost(p)
  <2>1. CASE /\ work' = [work EXCEPT ![p] = Idle] /\ log' = log /\ unpublished' = unpublished
             /\ counter' = counter \/ counter' = [counter EXCEPT ![work[p].ev.run] = @ + 1]
    <3>1. counter[work[p].ev.run] + 1 \in Nat
      BY <1>2 DEF PipelineTypeOK
    <3>2. counter' \in [Runs -> Nat]
      BY <2>1, <3>1 DEF PipelineTypeOK
    <3> QED
      BY <1>4, <2>1, <3>2, WorkTypes DEF PipelineTypeOK
  <2>2. CASE Commit(p, Entry(p, work[p].known, work[p].seq), FALSE) /\ counter' = counter
    BY <1>2, <2>2, CommitTypes DEF PipelineTypeOK
  <2> QED
    BY <1>14, <2>1, <2>2 DEF ReplyLost, AppendFailed
<1> QED
  BY <1>6, <1>7, <1>8, <1>9, <1>10, <1>11, <1>12, <1>13, <1>14
\* A reader asks for what follows the longest prefix it has seen whole.
LEMMA CompletePrefix ==
    ASSUME NEW seen \in SUBSET Nat, IsFiniteSet(seen)
    PROVE  Complete(seen) \in Nat /\ 1..Complete(seen) \subseteq seen
<1> DEFINE S == {k \in Nat : k + 1 \notin seen}
<1>1. S # {}
  <2> SUFFICES ASSUME S = {} PROVE FALSE
    OBVIOUS
  <2>1. PICK c \in Nat : c = Cardinality(seen)
    BY FS_CardinalityType
  <2>2. 1..(c + 1) \in SUBSET seen
    <3>1. ASSUME NEW i \in 1..(c + 1)
          PROVE  i \in seen
      <4>1. i - 1 \in Nat /\ (i - 1) + 1 = i
        OBVIOUS
      <4> QED
        BY <4>1
    <3> QED
      BY <3>1
  <2>3. Cardinality(1..(c + 1)) <= c
    BY <2>1, <2>2, FS_Subset
  <2>4. Cardinality(1..(c + 1)) = c + 1
    <3>1. 1 \in Int /\ c + 1 \in Int /\ ~(1 > c + 1) /\ (c + 1) - 1 + 1 = c + 1
      OBVIOUS
    <3>2. Cardinality(1..(c + 1)) = IF 1 > c + 1 THEN 0 ELSE (c + 1) - 1 + 1
      BY <3>1, FS_Interval
    <3> QED
      BY <3>1, <3>2
  <2> QED
    BY <2>3, <2>4
<1>2. PICK k \in S : \A j \in S : k <= j
  <2> HIDE DEF S
  <2>1. S \in SUBSET Nat
    BY DEF S
  <2> QED
    BY <1>1, <2>1, LeastExists
<1>3. 1..k \subseteq seen
  <2>1. ASSUME NEW i \in 1..k
        PROVE  i \in seen
    <3>1. i - 1 \in Nat /\ ~(k <= i - 1) /\ (i - 1) + 1 = i
      BY <1>2
    <3> QED
      BY <1>2, <3>1
  <2> QED
    BY <2>1
<1>4. k \in {0} \cup seen /\ k + 1 \notin seen
  <2>1. k = 0 \/ k \in 1..k
    BY <1>2
  <2> QED
    BY <1>2, <1>3, <2>1
<1>5. PICK c : c = Complete(seen)
  OBVIOUS
<1>6. c \in {0} \cup seen /\ 1..c \subseteq seen
  BY <1>3, <1>4, <1>5 DEF Complete
<1> QED
  BY <1>5, <1>6

\* A page is made of places in the log; what it holds is finite.
LEMMA PagePlaces ==
    ASSUME PipelineTypeOK, NEW run \in Runs, NEW after
    PROVE  /\ ListAfter(run, after) \subseteq DOMAIN log[run]
           /\ {log[run][i].seq : i \in ListAfter(run, after)} \in SUBSET Nat
           /\ IsFiniteSet({log[run][i].seq : i \in ListAfter(run, after)})
<1>1. ListAfter(run, after) \subseteq DOMAIN log[run]
  BY DEF PipelineTypeOK, ListAfter, ListMemory, ListPostgres, ListRedis, FirstStored, FirstNumbered, After
<1> DEFINE page == ListAfter(run, after)
           T == {log[run][i].seq : i \in page}
<1>2. T \in SUBSET Nat
  BY <1>1, StoredAreNumbers DEF EntryFields
<1>3. IsFiniteSet(page)
  <2>1. PICK n \in Nat : DOMAIN log[run] = 1..n
    BY StoredAreNumbers
  <2>2. IsFiniteSet(1..n)
    <3>1. 1 \in Int /\ n \in Int
      BY <2>1
    <3> QED
      BY <3>1, FS_Interval
  <2> HIDE DEF page
  <2>3. page \in SUBSET (1..n)
    BY <1>1, <2>1 DEF page
  <2> QED
    BY <2>2, <2>3, FS_Subset
<1> HIDE DEF page
<1>4. IsFiniteSet(T)
  <2> DEFINE f == [i \in page |-> log[run][i].seq]
  <2>1. f \in Surjection(page, T)
    BY DEF Surjection
  <2> HIDE DEF f, T
  <2> QED
    BY <1>3, <2>1, FS_Surjection
<1> QED
  BY <1>1, <1>2, <1>4 DEF page

\* The reader's side keeps types.
LEMMA ReaderTypes ==
    ASSUME PipelineTypeOK, NEW u \in wiring.readers,
           Subscribe(u) \/ Replay(u) \/ Forward(u) \/ Read(u) \/ Close(u)
    PROVE  PipelineTypeOK'
<1>1. /\ wiring' = wiring /\ emitted' = emitted /\ log' = log /\ counter' = counter /\ work' = work
      /\ cursor' = cursor /\ room' = room /\ sessionRoom' = sessionRoom /\ unpublished' = unpublished
  BY DEF Subscribe, Replay, Forward, ForwardMemory, ForwardRedis, ForwardNats, Take, Read, Close, eventVars
<1>2. PICK r \in ReaderFields : r = reader[u] /\ IsFiniteSet(r.seen)
  BY DEF PipelineTypeOK
<1>3. /\ r.run \in Runs /\ r.inbox \in Seq(Nat) /\ r.cursor \in Nat /\ r.after \in Nat /\ r.seen \in SUBSET Nat
      /\ room[r.run] \in Seq(Nat) /\ Len(room[r.run]) \in Nat /\ u \in Readers /\ <<>> \in Seq(Nat)
  BY <1>2 DEF ReaderFields, PipelineTypeOK
<1>4. SUFFICES /\ consumer' \in [Runs -> Nat \cup {None}]
               /\ \E s \in ReaderFields : IsFiniteSet(s.seen) /\ reader' = [reader EXCEPT ![u] = s]
  BY <1>1 DEF PipelineTypeOK
<1>5. CASE Subscribe(u)
  <2> DEFINE s == [r EXCEPT !.pc = "opened", !.cursor = Len(room[r.run]), !.inbox = <<>>,
                            !.after = Complete(r.seen), !.lagged = FALSE, !.full = FALSE, !.joined = TRUE]
  <2>1. Complete(r.seen) \in Nat
    BY <1>2, <1>3, CompletePrefix
  <2>2. s \in ReaderFields /\ s.seen = r.seen
    BY <1>3, <2>1 DEF ReaderFields
  <2>3. reader' = [reader EXCEPT ![u] = s]
    BY <1>2, <1>3, <1>5 DEF Subscribe, PipelineTypeOK
  <2>4. consumer' \in [Runs -> Nat \cup {None}]
    BY <1>2, <1>3, <1>5 DEF Subscribe, JoinConsumer, PipelineTypeOK
  <2> HIDE DEF s
  <2> QED
    BY <1>2, <2>2, <2>3, <2>4
<1>6. CASE Replay(u)
  <2>0. consumer' = consumer
    BY <1>6 DEF Replay
  <2>1. CASE reader' = [reader EXCEPT
                  ![u].pc = "live", ![u].full = CutOff(r.run, reader[u].after),
                  ![u].seen = @ \cup {log[r.run][i].seq : i \in ListAfter(r.run, reader[u].after)}]
    <3> DEFINE T == {log[r.run][i].seq : i \in ListAfter(r.run, r.after)}
               s == [r EXCEPT !.pc = "live", !.full = CutOff(r.run, r.after), !.seen = @ \cup T]
    <3>1. T \in SUBSET Nat /\ IsFiniteSet(T)
      BY <1>3, PagePlaces
    <3>2. CutOff(r.run, r.after) \in BOOLEAN
      BY DEF CutOff
    <3> HIDE DEF T
    <3>3. s \in ReaderFields /\ s.seen = r.seen \cup T
      BY <1>3, <3>1, <3>2 DEF ReaderFields
    <3>4. IsFiniteSet(s.seen)
      <4>1. IsFiniteSet(r.seen \cup T)
        BY <1>2, <3>1, FS_Union
      <4> HIDE DEF s
      <4> QED
        BY <3>3, <4>1
    <3>5. reader' = [reader EXCEPT ![u] = s]
      BY <1>2, <1>3, <2>1 DEF PipelineTypeOK, T
    <3> HIDE DEF s
    <3> QED
      BY <2>0, <3>3, <3>4, <3>5 DEF PipelineTypeOK
  <2>2. CASE reader' = [reader EXCEPT ![u].pc = "off", ![u].inbox = <<>>]
    <3> DEFINE s == [r EXCEPT !.pc = "off", !.inbox = <<>>]
    <3>1. s \in ReaderFields /\ s.seen = r.seen
      BY <1>3 DEF ReaderFields
    <3>2. reader' = [reader EXCEPT ![u] = s]
      BY <1>2, <1>3, <2>2 DEF PipelineTypeOK
    <3> HIDE DEF s
    <3> QED
      BY <1>2, <2>0, <3>1, <3>2 DEF PipelineTypeOK
  <2> QED
    BY <1>2, <1>6, <2>1, <2>2 DEF Replay
<1>7. ASSUME NEW item \in Nat, NEW at \in Nat, Take(u, item, at), consumer' \in [Runs -> Nat \cup {None}]
      PROVE  /\ consumer' \in [Runs -> Nat \cup {None}]
             /\ \E s \in ReaderFields : IsFiniteSet(s.seen) /\ reader' = [reader EXCEPT ![u] = s]
  <2> DEFINE s == [r EXCEPT !.inbox = Append(@, item), !.cursor = at]
  <2>0. Append(r.inbox, item) \in Seq(Nat)
    BY <1>3, <1>7
  <2>1. s \in ReaderFields /\ s.seen = r.seen
    BY <1>3, <1>7, <2>0 DEF ReaderFields
  <2>2. reader' = [reader EXCEPT ![u] = s]
    BY <1>2, <1>3, <1>7 DEF PipelineTypeOK, Take
  <2> HIDE DEF s
  <2> QED
    BY <1>2, <1>7, <2>1, <2>2
<1>8. CASE Forward(u)
  <2>1. PICK item \in Nat, at \in Nat : Take(u, item, at) /\ consumer' \in [Runs -> Nat \cup {None}]
    <3>1. CASE ForwardMemory(u)
      <4>0. PICK entries \in Seq(Nat), a \in Nat : entries = room[reader[u].run] /\ a = reader[u].cursor
        BY <1>2, <1>3
      <4>1. Len(entries) \in Nat
        BY <4>0
      <4>2. /\ a < Len(entries) /\ consumer' = consumer
            /\ IF Lagging(entries, a) THEN Take(u, Lagged, CatchUp(entries, a)) ELSE Take(u, entries[a + 1], a + 1)
        BY <3>1, <4>0 DEF ForwardMemory
      <4>3. Lagging(entries, a) => CatchUp(entries, a) \in Nat
        BY <4>0, <4>1, EventsAssumption DEF Lagging, CatchUp
      <4>4. Lagged \in Nat /\ entries[a + 1] \in Nat /\ a + 1 \in Nat
        <5>1. a + 1 \in 1..Len(entries)
          BY <4>0, <4>1, <4>2
        <5> QED
          BY <4>0, <5>1 DEF Lagged
      <4> QED
        BY <4>2, <4>3, <4>4 DEF PipelineTypeOK
    <3>2. CASE ForwardRedis(u)
      <4>1. /\ reader[u].cursor < Len(room[r.run]) /\ consumer' = consumer
            /\ Take(u, room[r.run][r.cursor + 1], r.cursor + 1)
        BY <1>2, <3>2 DEF ForwardRedis
      <4>2. room[r.run][r.cursor + 1] \in Nat /\ r.cursor + 1 \in Nat
        <5>1. r.cursor + 1 \in 1..Len(room[r.run])
          BY <1>2, <1>3, <4>1
        <5> QED
          BY <1>3, <5>1
      <4> QED
        BY <4>1, <4>2 DEF PipelineTypeOK
    <3>3. CASE ForwardNats(u)
      <4>1. PICK at : at = consumer[r.run]
        OBVIOUS
      <4>2. /\ at # None /\ at < Len(room[r.run]) /\ Take(u, room[r.run][at + 1], at + 1)
            /\ consumer' = [consumer EXCEPT ![r.run] = at + 1]
        BY <1>2, <3>3, <4>1 DEF ForwardNats
      <4>3. at \in Nat
        BY <1>3, <4>1, <4>2 DEF PipelineTypeOK
      <4>4. room[r.run][at + 1] \in Nat /\ at + 1 \in Nat
        BY <1>3, <4>2, <4>3
      <4> QED
        BY <4>2, <4>4 DEF PipelineTypeOK
    <3> QED
      BY <1>8, <3>1, <3>2, <3>3 DEF Forward
  <2> QED
    BY <1>7, <2>1
<1>9. CASE Read(u)
  <2>1. PICK item : item = Head(r.inbox)
    OBVIOUS
  <2>2. /\ r.inbox # <<>> /\ consumer' = consumer
        /\ reader' = [reader EXCEPT ![u].inbox = Tail(@), ![u].lagged = @ \/ item = Lagged,
                                    ![u].seen = IF item = Lagged THEN @ ELSE @ \cup {item}]
    BY <1>2, <1>9, <2>1 DEF Read
  <2>3. item \in Nat /\ Tail(r.inbox) \in Seq(Nat)
    BY <1>3, <2>1, <2>2
  <2>4. PICK seen \in SUBSET Nat : seen = IF item = Lagged THEN r.seen ELSE r.seen \cup {item}
    BY <1>3, <2>3
  <2>5. IsFiniteSet(seen)
    BY <1>2, <2>4, FS_AddElement
  <2>6. PICK lagged \in BOOLEAN : lagged = (r.lagged \/ item = Lagged)
    OBVIOUS
  <2> DEFINE s == [r EXCEPT !.inbox = Tail(@), !.lagged = lagged, !.seen = seen]
  <2>7. s \in ReaderFields /\ s.seen = seen
    BY <1>3, <2>3 DEF ReaderFields
  <2>8. reader' = [reader EXCEPT ![u] = s]
    BY <1>2, <1>3, <2>2, <2>4, <2>6 DEF PipelineTypeOK
  <2> HIDE DEF s
  <2> QED
    BY <2>2, <2>5, <2>7, <2>8 DEF PipelineTypeOK
<1>10. CASE Close(u)
  <2> DEFINE s == [r EXCEPT !.pc = "off", !.inbox = <<>>]
  <2>1. s \in ReaderFields /\ s.seen = r.seen
    BY <1>3 DEF ReaderFields
  <2>2. reader' = [reader EXCEPT ![u] = s] /\ consumer' = consumer
    BY <1>2, <1>3, <1>10 DEF PipelineTypeOK, Close
  <2> HIDE DEF s
  <2> QED
    BY <1>2, <2>1, <2>2 DEF PipelineTypeOK
<1> QED
  BY <1>5, <1>6, <1>8, <1>9, <1>10
\* emit and the bridge keep types.
LEMMA BridgeTypes ==
    ASSUME PipelineTypeOK,
           \/ \E run \in Runs, kind \in Kinds : RunEmits(run, kind)
           \/ BridgeReceives \/ PublishToRun \/ PublishToSession \/ Abort \/ Spawn
    PROVE  PipelineTypeOK'
<1>0. Bridge \in Appenders /\ Idle \in Works /\ [at |-> "off"] \in Works /\ Runs \subseteq Appenders
  BY DEF Appenders, Works
<1>1. \A e \in Event : [at |-> "session", ev |-> e, known |-> FALSE, seq |-> 0] \in Works
  BY DEF Appending, Works, Unstored
<1>2. Len(emitted) \in Nat
  BY DEF PipelineTypeOK
<1>3. ASSUME NEW run \in Runs, NEW kind \in Kinds, RunEmits(run, kind)
      PROVE  PipelineTypeOK'
  <2>1. PICK e : e = [run |-> run, kind |-> kind, n |-> Len(emitted) + 1]
    OBVIOUS
  <2>2. e \in Event
    BY <1>2, <2>1 DEF Event
  <2>3. emitted' = Append(emitted, e) /\ wiring' = wiring
    BY <1>3, <2>1 DEF RunEmits, Emit
  <2>4. emitted' \in Seq(Event) /\ Len(emitted') = Len(emitted) + 1
    BY <2>2, <2>3 DEF PipelineTypeOK
  <2>5. work' \in [Appenders -> Works]
    <3>1. CASE kind = "CacheMetrics"
      <4>1. work' = [work EXCEPT ![run] = [at |-> "session", ev |-> e, known |-> FALSE, seq |-> 0]]
        BY <1>3, <2>1, <3>1 DEF RunEmits, StartAppend
      <4> QED
        BY <1>0, <1>1, <2>2, <4>1, WorkTypes
    <3>2. CASE kind # "CacheMetrics"
      BY <1>3, <3>2 DEF RunEmits, PipelineTypeOK
    <3> QED
      BY <3>1, <3>2
  <2>6. cursor <= Len(emitted')
    BY <1>2, <2>4 DEF PipelineTypeOK
  <2> QED
    BY <1>3, <2>3, <2>4, <2>5, <2>6 DEF RunEmits, PipelineTypeOK
<1>4. CASE BridgeReceives
  <2>1. /\ cursor < Len(emitted) /\ wiring' = wiring /\ emitted' = emitted
        /\ log' = log /\ counter' = counter /\ room' = room /\ sessionRoom' = sessionRoom
        /\ consumer' = consumer /\ unpublished' = unpublished /\ reader' = reader
    BY <1>4 DEF BridgeReceives, eventVars
  <2>2. CASE Lagging(emitted, cursor)
    <3>1. cursor' = Len(emitted) - Capacity /\ work' = work
      BY <1>4, <2>2 DEF BridgeReceives, CatchUp
    <3>2. cursor' \in Nat /\ cursor' <= Len(emitted)
      BY <1>2, <2>2, <3>1, EventsAssumption DEF Lagging, PipelineTypeOK
    <3> QED
      BY <2>1, <3>1, <3>2 DEF PipelineTypeOK
  <2>3. CASE ~Lagging(emitted, cursor)
    <3>1. PICK e : e = emitted[cursor + 1]
      OBVIOUS
    <3>2. cursor' = cursor + 1 /\ work' = [work EXCEPT ![Bridge] = [at |-> "session", ev |-> e, known |-> FALSE, seq |-> 0]]
      BY <1>4, <2>3, <3>1 DEF BridgeReceives, StartAppend
    <3>3. cursor + 1 \in 1..Len(emitted)
      BY <1>2, <2>1 DEF PipelineTypeOK
    <3>4. e \in Event
      BY <3>1, <3>3 DEF PipelineTypeOK
    <3>5. work' \in [Appenders -> Works]
      BY <1>0, <1>1, <3>2, <3>4, WorkTypes
    <3>6. cursor' \in Nat /\ cursor' <= Len(emitted)
      BY <3>2, <3>3
    <3> QED
      BY <2>1, <3>5, <3>6 DEF PipelineTypeOK
  <2> QED
    BY <2>2, <2>3
<1>5. CASE PublishToRun
  <2>1. PICK run, w : w = work[Bridge] /\ run = w.ev.run
    OBVIOUS
  <2>2. w.at = "publish"
    BY <1>5, <2>1 DEF PublishToRun
  <2>3. w \in Appending /\ run \in Runs /\ w.seq \in Nat
    BY <1>0, <2>1, <2>2, AppendingWork
  <2>4. room' \in [Runs -> Seq(Nat)] /\ unpublished' \in [Runs -> SUBSET Nat]
    <3>1. CASE room' = [room EXCEPT ![run] = Append(@, w.seq)] /\ unpublished' = unpublished
      <4>1. room[run] \in Seq(Nat)
        BY <2>3 DEF PipelineTypeOK
      <4>2. Append(room[run], w.seq) \in Seq(Nat)
        BY <2>3, <4>1
      <4> QED
        BY <3>1, <4>2 DEF PipelineTypeOK
    <3>2. CASE room' = room /\ unpublished' = [unpublished EXCEPT ![run] = @ \cup {w.seq}]
      BY <2>3, <3>2 DEF PipelineTypeOK
    <3> QED
      BY <1>5, <2>1, <3>1, <3>2 DEF PublishToRun, Send
  <2>5. work' \in [Appenders -> Works]
    <3>1. [w EXCEPT !.at = "publishSession"] \in Works
      <4>1. [w EXCEPT !.at = "publishSession"] \in Appending
        BY <2>3 DEF Appending
      <4> QED
        BY <4>1 DEF Works
    <3>2. PICK x \in Works : work' = [work EXCEPT ![Bridge] = x]
      BY <1>0, <1>5, <2>1, <3>1 DEF PublishToRun
    <3> QED
      BY <1>0, <3>2, WorkTypes
  <2> QED
    BY <1>5, <2>4, <2>5 DEF PublishToRun, PipelineTypeOK
<1>6. CASE PublishToSession
  <2>1. PICK w : w = work[Bridge]
    OBVIOUS
  <2>2. w.at = "publishSession"
    BY <1>6, <2>1 DEF PublishToSession
  <2>3. w \in Appending /\ w.ev.run \in Runs /\ w.seq \in Nat
    BY <1>0, <2>1, <2>2, AppendingWork
  <2>4. sessionRoom' \in [Runs -> SUBSET Nat]
    <3>1. CASE sessionRoom' = [sessionRoom EXCEPT ![w.ev.run] = @ \cup {w.seq}]
      BY <2>3, <3>1 DEF PipelineTypeOK
    <3> QED
      BY <1>6, <2>1, <3>1 DEF PublishToSession, PipelineTypeOK
  <2>5. work' \in [Appenders -> Works]
    BY <1>0, <1>6, WorkTypes DEF PublishToSession
  <2> QED
    BY <1>6, <2>4, <2>5 DEF PublishToSession, PipelineTypeOK
<1>7. CASE Abort
  <2>1. PICK w : w = work[Bridge]
    OBVIOUS
  <2>2. work' \in [Appenders -> Works]
    BY <1>0, <1>7, WorkTypes DEF Abort
  <2>3. unpublished' \in [Runs -> SUBSET Nat]
    <3>1. CASE w.at = "publish"
      <4>1. w.ev.run \in Runs /\ w.seq \in Nat
        BY <1>0, <2>1, <3>1, AppendingWork
      <4>2. unpublished' = [unpublished EXCEPT ![w.ev.run] = @ \cup {w.seq}]
        BY <1>7, <2>1, <3>1 DEF Abort
      <4> QED
        BY <4>1, <4>2 DEF PipelineTypeOK
    <3>2. CASE w.at # "publish"
      BY <1>7, <2>1, <3>2 DEF Abort, PipelineTypeOK
    <3> QED
      BY <3>1, <3>2
  <2> QED
    BY <1>7, <2>2, <2>3 DEF Abort, PipelineTypeOK
<1>8. CASE Spawn
  <2>1. work' \in [Appenders -> Works]
    BY <1>0, <1>8, WorkTypes DEF Spawn
  <2> QED
    BY <1>2, <1>8, <2>1 DEF Spawn, eventVars, PipelineTypeOK
<1> QED
  BY <1>3, <1>4, <1>5, <1>6, <1>7, <1>8

\* What the store holds of a run: each number once, those of the bridge in
\* the order of the events, and no number that was not drawn.
EntriesOK(run) ==
    LET es == log[run] IN
    /\ \A i \in DOMAIN es : es[i].seq >= 1 /\ (es[i].by = Bridge => es[i].n <= cursor)
    /\ \A i, j \in DOMAIN es : i < j =>
           /\ es[i].seq # es[j].seq
           /\ es[i].by = Bridge /\ es[j].by = Bridge => es[i].seq < es[j].seq /\ es[i].n < es[j].n
    /\ wiring.store = "memory" => counter[run] = Len(es)
    /\ wiring.store = "redis" => \A i \in DOMAIN es : es[i].seq <= counter[run]

\* An append at its place: the bridge's event is new to the store, a number
\* drawn in Redis is its own, and what is published is stored.
WorkFits(p, w) ==
    LET es == log[w.ev.run] IN
    /\ p # Bridge => w.ev.run = p /\ w.at \in Unstored
    /\ p = Bridge => w.ev.n <= cursor
    /\ p = Bridge /\ w.at \in Unstored => \A i \in DOMAIN es : es[i].by = Bridge => es[i].n < w.ev.n
    /\ w.at = "insert" =>
           /\ w.seq >= 1 /\ wiring.store # "memory"
           /\ wiring.store = "postgres" => w.seq <= Len(es) + 1
           /\ wiring.store = "redis" =>
                  /\ w.seq <= counter[w.ev.run] /\ w.seq \notin Stored(w.ev.run)
                  /\ p = Bridge => \A i \in DOMAIN es : es[i].by = Bridge => es[i].seq < w.seq
    /\ w.at \in {"publish", "publishSession"} => w.seq \in Stored(w.ev.run)

\* No two appends have drawn the same number of Redis.
OwnNumber(p, w) ==
    wiring.store = "redis" /\ w.at = "insert" =>
        \A q \in Appenders \ {p} :
            work[q] \in Appending /\ work[q].at = "insert" /\ work[q].ev.run = w.ev.run
            => work[q].seq # w.seq

EventsNumbered == \A i \in DOMAIN emitted : emitted[i].n = i

RoomsOK == \A run \in Runs : sessionRoom[run] \cup Range(room[run]) \subseteq Stored(run)

PipelineInv ==
    /\ PipelineTypeOK /\ Contiguous /\ EventsNumbered /\ RoomsOK
    /\ \A run \in Runs : EntriesOK(run)
    /\ \A p \in Appenders : work[p] \in Appending => WorkFits(p, work[p]) /\ OwnNumber(p, work[p])

\* An appender moves on without storing anything.
LEMMA MovesOn ==
    ASSUME PipelineInv, PipelineTypeOK', NEW p \in Appenders, NEW w \in Works,
           work' = [work EXCEPT ![p] = w], log' = log, wiring' = wiring,
           EventsNumbered', RoomsOK', cursor' >= cursor,
           counter' = counter \/ (wiring.store = "redis" /\ \A run \in Runs : counter'[run] >= counter[run]),
           w \in Appending => WorkFits(p, w)' /\ OwnNumber(p, w)
    PROVE  PipelineInv'
<1>0. /\ cursor \in Nat /\ cursor' \in Nat
      /\ \A run \in Runs : counter[run] \in Nat /\ counter'[run] \in Nat
  BY DEF PipelineInv, PipelineTypeOK
<1>1. Contiguous'
  BY DEF PipelineInv, Contiguous
<1>2. \A run \in Runs : Stored(run)' = Stored(run)
  BY DEF Stored
<1>3. ASSUME NEW run \in Runs
      PROVE  EntriesOK(run)'
  <2>0. EntriesOK(run) /\ \A i \in DOMAIN log[run] : log[run][i] \in EntryFields
    BY StoredAreNumbers DEF PipelineInv
  <2>1. \A i \in DOMAIN log[run] : log[run][i].by = Bridge => log[run][i].n <= cursor'
    BY <1>0, <2>0 DEF EntriesOK, EntryFields
  <2>2. wiring.store = "redis" => \A i \in DOMAIN log[run] : log[run][i].seq <= counter'[run]
    BY <1>0, <2>0 DEF EntriesOK, EntryFields
  <2> QED
    BY <2>0, <2>1, <2>2 DEF EntriesOK
<1>4. ASSUME NEW q \in Appenders, q # p, work[q] \in Appending
      PROVE  WorkFits(q, work[q])'
  <2>1. PICK x : x = work[q]
    OBVIOUS
  <2>2. x \in Appending /\ x.ev.run \in Runs /\ x.ev.n \in Nat /\ x.seq \in Nat
    BY <1>4, <2>1, AppendingWork DEF PipelineInv
  <2>3. WorkFits(q, x)
    BY <1>4, <2>1 DEF PipelineInv
  <2>4. WorkFits(q, x)'
    BY <1>0, <1>2, <2>2, <2>3 DEF WorkFits
  <2>5. work'[q] = x
    BY <1>4, <2>1 DEF PipelineInv, PipelineTypeOK
  <2> QED
    BY <2>4, <2>5 DEF WorkFits, Stored
<1>5. work'[p] = w /\ \A q \in Appenders : q # p => work'[q] = work[q]
  BY DEF PipelineInv, PipelineTypeOK
<1>6. ASSUME NEW q \in Appenders, work'[q] \in Appending
      PROVE  WorkFits(q, work[q])'
  <2>1. CASE q = p
    <3>1. WorkFits(p, w)'
      BY <1>5, <1>6, <2>1
    <3> QED
      BY <1>5, <2>1, <3>1 DEF WorkFits, Stored
  <2>2. CASE q # p
    BY <1>4, <1>5, <1>6, <2>2
  <2> QED
    BY <2>1, <2>2
<1>7. ASSUME NEW q \in Appenders, work'[q] \in Appending
      PROVE  OwnNumber(q, work[q])'
  <2> SUFFICES ASSUME wiring.store = "redis", work'[q].at = "insert", NEW o \in Appenders \ {q},
                      work'[o] \in Appending, work'[o].at = "insert", work'[o].ev.run = work'[q].ev.run
               PROVE  work'[o].seq # work'[q].seq
    BY DEF OwnNumber
  <2>1. w \in Appending => OwnNumber(p, w)
    OBVIOUS
  <2>2. CASE q = p
    BY <1>5, <1>7, <2>1, <2>2 DEF OwnNumber
  <2>3. CASE q # p /\ o = p
    <3>1. w \in Appending /\ w.at = "insert" /\ q \in Appenders \ {p}
      BY <1>5, <2>3
    <3> QED
      BY <1>5, <1>7, <2>1, <2>3, <3>1 DEF OwnNumber
  <2>4. CASE q # p /\ o # p
    <3>1. work[q] \in Appending /\ OwnNumber(q, work[q])
      BY <1>5, <1>7, <2>4 DEF PipelineInv
    <3> QED
      BY <1>5, <2>4, <3>1 DEF OwnNumber
  <2> QED
    BY <2>2, <2>3, <2>4
<1> QED
  BY <1>1, <1>3, <1>6, <1>7 DEF PipelineInv

\* An append stores its entry, with a number no entry of the run has.
LEMMA Commits ==
    ASSUME PipelineInv, PipelineTypeOK', NEW p \in Appenders, work[p] \in Appending, work[p].at \in Unstored,
           NEW known \in BOOLEAN, NEW seq \in Nat,
           NEW replied \in BOOLEAN, Commit(p, Entry(p, known, seq), replied),
           wiring' = wiring, emitted' = emitted, cursor' = cursor, room' = room, sessionRoom' = sessionRoom,
           seq >= 1, seq \notin Stored(work[p].ev.run),
           p = Bridge => \A i \in DOMAIN log[work[p].ev.run] :
                             log[work[p].ev.run][i].by = Bridge => log[work[p].ev.run][i].seq < seq,
           wiring.store # "redis" => seq = Len(log[work[p].ev.run]) + 1,
           wiring.store = "memory" => counter' = [counter EXCEPT ![work[p].ev.run] = @ + 1],
           wiring.store = "redis" => counter' = counter /\ seq <= counter[work[p].ev.run]
                                     /\ \A q \in Appenders \ {p} :
                                            work[q] \in Appending /\ work[q].at = "insert"
                                            /\ work[q].ev.run = work[p].ev.run => work[q].seq # seq
    PROVE  PipelineInv'
<1>1. PICK run \in Runs, ev \in Event : run = work[p].ev.run /\ ev = work[p].ev /\ ev.run = run /\ ev.n \in Nat
  BY AppendingWork DEF PipelineInv
<1>2. PICK es \in Seq(EntryFields), n \in Nat : es = log[run] /\ n = Len(es) /\ DOMAIN es = 1..n
  BY DEF PipelineInv, PipelineTypeOK
<1>3. PICK e : e = Entry(p, known, seq)
  OBVIOUS
<1>4. e.n = ev.n /\ e.by = p /\ e.seq = seq /\ e.known = known
  BY <1>1, <1>3 DEF Entry
<1>5. PICK fs : fs = log'[run]
  OBVIOUS
<1>6. /\ log' = [log EXCEPT ![run] = Append(@, e)] /\ fs = Append(es, e)
      /\ \A r \in Runs \ {run} : log'[r] = log[r]
  BY <1>1, <1>2, <1>3, <1>5 DEF Commit, PipelineInv, PipelineTypeOK
<1>7. /\ Len(fs) = n + 1 /\ DOMAIN fs = 1..(n + 1) /\ fs[n + 1] = e
      /\ \A i \in 1..n : fs[i] = es[i]
  <2>1. e \in EntryFields
    BY <1>1, <1>3, AppendingWork DEF Entry, EntryFields, PipelineInv
  <2> QED
    BY <1>2, <1>6, <2>1
<1>8. PICK v : /\ v = IF p = Bridge /\ replied THEN [work[p] EXCEPT !.at = "publish", !.known = known, !.seq = seq] ELSE Idle
               /\ work' = [work EXCEPT ![p] = v]
  BY <1>3, <1>4 DEF Commit
<1>9. work'[p] = v /\ \A q \in Appenders : q # p => work'[q] = work[q]
  BY <1>8 DEF PipelineInv, PipelineTypeOK
<1>10. Stored(run)' = Stored(run) \cup {seq} /\ \A r \in Runs \ {run} : Stored(r)' = Stored(r)
  <2>1. Stored(run) = {es[i].seq : i \in 1..n} /\ Stored(run)' = {fs[i].seq : i \in 1..(n + 1)}
    BY <1>2, <1>5, <1>7 DEF Stored
  <2>2. 1..(n + 1) = (1..n) \cup {n + 1}
    BY <1>2
  <2>3. {fs[i].seq : i \in 1..(n + 1)} = {fs[i].seq : i \in 1..n} \cup {fs[n + 1].seq}
    BY <2>2
  <2>4. {fs[i].seq : i \in 1..n} = {es[i].seq : i \in 1..n}
    BY <1>7
  <2>5. Stored(run)' = Stored(run) \cup {seq}
    BY <1>4, <1>7, <2>1, <2>3, <2>4
  <2>6. ASSUME NEW r \in Runs \ {run}
        PROVE  Stored(r)' = Stored(r)
    <3>1. log'[r] = log[r]
      BY <1>6
    <3> QED
      BY <3>1 DEF Stored
  <2> QED
    BY <2>5, <2>6
<1>11. \A r \in Runs : Stored(r) \subseteq Stored(r)'
  BY <1>10
<1>12. Contiguous'
  <2>1. ASSUME wiring.store # "redis", NEW r \in Runs, NEW i \in DOMAIN log'[r]
        PROVE  log'[r][i].seq = i
    <3>1. CASE r = run
      <4>1. \A j \in 1..n : es[j].seq = j
        BY <1>2, <2>1 DEF PipelineInv, Contiguous
      <4>2. seq = n + 1
        BY <1>1, <1>2, <2>1
      <4> QED
        BY <1>4, <1>5, <1>7, <2>1, <3>1, <4>1, <4>2
    <3>2. CASE r # run
      BY <1>6, <2>1, <3>2 DEF PipelineInv, Contiguous
    <3> QED
      BY <3>1, <3>2
  <2> QED
    BY <2>1 DEF Contiguous
<1>13. EventsNumbered' /\ RoomsOK'
  BY <1>11 DEF PipelineInv, EventsNumbered, RoomsOK
<1>14. ASSUME NEW r \in Runs
       PROVE  EntriesOK(r)'
  <2>0. EntriesOK(r) /\ cursor' = cursor
    BY DEF PipelineInv
  <2>1. CASE r # run
    <3>1. log'[r] = log[r]
      BY <1>6, <2>1
    <3>2. wiring.store = "redis" \/ wiring.store = "memory" => counter'[r] = counter[r]
      BY <1>1, <2>1 DEF PipelineInv, PipelineTypeOK
    <3> QED
      BY <2>0, <3>1, <3>2 DEF EntriesOK
  <2>2. CASE r = run
    <3>1. \A i \in 1..n : es[i].seq >= 1 /\ (es[i].by = Bridge => es[i].n <= cursor) /\ es[i].seq # seq
                          /\ es[i] \in EntryFields
      <4>1. ASSUME NEW i \in 1..n
            PROVE  es[i].seq # seq /\ es[i] \in EntryFields
        <5>1. es[i].seq \in Stored(run)
          BY <1>2 DEF Stored
        <5> QED
          BY <1>1, <1>2, <5>1
      <4>2. \A i \in 1..n : es[i].seq >= 1 /\ (es[i].by = Bridge => es[i].n <= cursor)
        BY <1>2, <2>0, <2>2 DEF EntriesOK
      <4> QED
        BY <4>1, <4>2
    <3>2. p = Bridge => /\ ev.n <= cursor
                        /\ \A i \in 1..n : es[i].by = Bridge => es[i].n < ev.n /\ es[i].seq < seq
      <4>1. WorkFits(p, work[p])
        BY DEF PipelineInv
      <4> QED
        BY <1>1, <1>2, <4>1 DEF WorkFits
    <3>3. \A i \in 1..(n + 1) : fs[i].seq >= 1 /\ (fs[i].by = Bridge => fs[i].n <= cursor)
      <4>1. \A i \in 1..(n + 1) : i \in 1..n \/ i = n + 1
        BY <1>2
      <4> QED
        BY <1>4, <1>7, <3>1, <3>2, <4>1
    <3>4. ASSUME NEW i \in 1..(n + 1), NEW j \in 1..(n + 1), i < j
          PROVE  /\ fs[i].seq # fs[j].seq
                 /\ fs[i].by = Bridge /\ fs[j].by = Bridge => fs[i].seq < fs[j].seq /\ fs[i].n < fs[j].n
      <4>1. i \in 1..n /\ (j \in 1..n \/ j = n + 1)
        BY <1>2, <3>4
      <4>2. CASE j \in 1..n
        <5>1. fs[i] = es[i] /\ fs[j] = es[j]
          BY <1>7, <4>1, <4>2
        <5> QED
          BY <1>2, <2>0, <2>2, <3>4, <4>1, <4>2, <5>1 DEF EntriesOK
      <4>3. CASE j = n + 1
        <5>1. fs[i] = es[i] /\ fs[j] = e
          BY <1>7, <4>1, <4>3
        <5> QED
          BY <1>4, <3>1, <3>2, <4>1, <5>1
      <4> QED
        BY <4>1, <4>2, <4>3
    <3>5. wiring.store = "memory" => counter'[run] = Len(fs)
      <4>1. wiring.store = "memory" => counter[run] = n
        BY <1>2, <2>0, <2>2 DEF EntriesOK
      <4>2. wiring.store = "memory" => counter'[run] = counter[run] + 1
        BY <1>1 DEF PipelineInv, PipelineTypeOK
      <4> QED
        BY <1>7, <4>1, <4>2
    <3>6. wiring.store = "redis" => \A i \in 1..(n + 1) : fs[i].seq <= counter'[run]
      <4>1. \A i \in 1..(n + 1) : i \in 1..n \/ i = n + 1
        BY <1>2
      <4>2. wiring.store = "redis" => counter'[run] = counter[run] /\ seq <= counter[run]
        BY <1>1
      <4>3. wiring.store = "redis" => \A i \in 1..n : es[i].seq <= counter[run]
        BY <1>2, <2>0, <2>2 DEF EntriesOK
      <4> QED
        BY <1>4, <1>7, <4>1, <4>2, <4>3
    <3> QED
      BY <1>5, <1>7, <2>0, <2>2, <3>3, <3>4, <3>5, <3>6 DEF EntriesOK
  <2> QED
    BY <2>1, <2>2
<1>15. ASSUME NEW q \in Appenders, work'[q] \in Appending
       PROVE  WorkFits(q, work[q])' /\ OwnNumber(q, work[q])'
  <2>0. PICK x : x = work'[q]
    OBVIOUS
  <2>1. CASE q = p
    <3>1. p = Bridge /\ replied /\ x = [work[p] EXCEPT !.at = "publish", !.known = known, !.seq = seq]
      <4>1. Idle \notin Appending
        BY DEF Idle, Appending, Unstored
      <4> QED
        BY <1>8, <1>9, <1>15, <2>0, <2>1, <4>1
    <3>2. x.at = "publish" /\ x.ev = ev /\ x.seq = seq
      BY <1>1, <3>1 DEF Appending
    <3>3. ev.n <= cursor
      BY <1>1, <3>1 DEF PipelineInv, WorkFits
    <3>4. WorkFits(q, x)'
      BY <1>1, <1>10, <2>1, <3>1, <3>2, <3>3 DEF WorkFits, Unstored
    <3>5. x.at # "insert"
      BY <3>2
    <3> QED
      BY <2>0, <3>4, <3>5 DEF WorkFits, Stored, OwnNumber
  <2>2. CASE q # p
    <3>1. x = work[q] /\ x \in Appending /\ x.ev.run \in Runs /\ x.ev.n \in Nat /\ x.seq \in Nat
      BY <1>9, <1>15, <2>0, <2>2, AppendingWork DEF PipelineInv
    <3>2. WorkFits(q, x) /\ OwnNumber(q, x)
      BY <3>1 DEF PipelineInv
    <3>3. WorkFits(q, x)'
      <4>1. CASE x.ev.run # run
        <5>1. /\ log'[x.ev.run] = log[x.ev.run] /\ Stored(x.ev.run)' = Stored(x.ev.run)
              /\ wiring.store = "redis" => counter'[x.ev.run] = counter[x.ev.run]
          BY <1>6, <1>10, <3>1, <4>1
        <5> QED
          BY <3>1, <3>2, <5>1 DEF WorkFits
      <4>2. CASE x.ev.run = run
        <5>1. /\ log'[x.ev.run] = fs /\ log[x.ev.run] = es /\ Stored(x.ev.run)' = Stored(x.ev.run) \cup {seq}
              /\ wiring.store = "redis" => counter'[x.ev.run] = counter[x.ev.run]
          BY <1>2, <1>5, <1>10, <4>2
        <5>2. q = Bridge => p # Bridge
          BY <2>2
        <5>3. ASSUME q = Bridge
              PROVE  \A i \in DOMAIN fs : fs[i].by = Bridge => i \in DOMAIN es /\ fs[i] = es[i]
          <6>1. \A i \in 1..(n + 1) : i \in 1..n \/ i = n + 1
            BY <1>2
          <6> QED
            BY <1>2, <1>4, <1>7, <5>2, <5>3, <6>1
        <5>4. wiring.store = "redis" /\ x.at = "insert" => x.seq # seq
          BY <1>1, <2>2, <3>1, <4>2
        <5>5. wiring.store = "postgres" /\ x.at = "insert" => x.seq <= Len(fs) + 1
          BY <1>2, <1>7, <3>1, <3>2, <5>1 DEF WorkFits
        <5> QED
          BY <3>2, <5>1, <5>3, <5>4, <5>5 DEF WorkFits
      <4> QED
        BY <4>1, <4>2
    <3>4. OwnNumber(q, x)'
      <4>1. v \in Appending => v.at # "insert"
        <5>1. CASE p = Bridge /\ replied
          <6>1. v.at = "publish"
            BY <1>8, <5>1 DEF Appending
          <6> QED
            BY <6>1
        <5>2. CASE ~(p = Bridge /\ replied)
          BY <1>8, <5>2 DEF Idle
        <5> QED
          BY <5>1, <5>2
      <4> QED
        BY <1>9, <3>1, <3>2, <4>1 DEF OwnNumber
    <3> QED
      BY <2>0, <3>3, <3>4 DEF WorkFits, Stored, OwnNumber
  <2> QED
    BY <2>1, <2>2
<1> QED
  BY <1>12, <1>13, <1>14, <1>15 DEF PipelineInv
\* Every action of an append, in the three stores.
LEMMA AppendKeeps ==
    ASSUME PipelineInv, NEW p \in Appenders,
           \/ AppendMemory(p) \/ CacheSession(p) \/ ReadSession(p) \/ IncrSeq(p)
           \/ XAdd(p) \/ SubquerySeq(p) \/ InsertRow(p) \/ RoundTripFails(p) \/ ReplyLost(p)
    PROVE  PipelineInv'
<1>1. PipelineTypeOK'
  BY AppendTypes DEF PipelineInv
<1>2. /\ work[p].at \in Unstored
      /\ wiring' = wiring /\ emitted' = emitted /\ cursor' = cursor /\ room' = room
      /\ sessionRoom' = sessionRoom
  BY DEF AppendMemory, CacheSession, ReadSession, IncrSeq, XAdd, SubquerySeq, InsertRow, RoundTripFails, ReplyLost,
         eventVars, Unstored
<1>3. PICK w : w = work[p]
  OBVIOUS
<1>4. /\ w \in Appending /\ w.ev \in Event /\ w.ev.run \in Runs /\ w.seq \in Nat /\ w.known \in BOOLEAN
      /\ w.at \in Unstored
  BY <1>2, <1>3, AppendingWork DEF PipelineInv
<1>5. PICK run \in Runs : run = w.ev.run
  BY <1>4
<1>6. /\ WorkFits(p, w) /\ EntriesOK(run) /\ counter[run] \in Nat
      /\ \A i \in DOMAIN log[run] : log[run][i] \in EntryFields
      /\ DOMAIN log[run] = 1..Len(log[run]) /\ Len(log[run]) \in Nat
  BY <1>3, <1>4, StoredAreNumbers DEF PipelineInv, PipelineTypeOK
<1>7. EventsNumbered' /\ cursor' >= cursor /\ cursor \in Nat
  BY <1>2 DEF PipelineInv, EventsNumbered, PipelineTypeOK
<1>8. ASSUME log' = log
      PROVE  RoomsOK'
  BY <1>2, <1>8 DEF PipelineInv, RoomsOK, Stored
\* An append that goes on, or gives up.
<1>9. ASSUME NEW x \in Works, work' = [work EXCEPT ![p] = x], log' = log, counter' = counter,
             x \in Appending => WorkFits(p, x)' /\ OwnNumber(p, x)
      PROVE  PipelineInv'
  BY <1>1, <1>2, <1>7, <1>8, <1>9, MovesOn
<1>10. Idle \in Works /\ Idle \notin Appending
  BY DEF Idle, Works, Appending, Unstored
<1>11. ASSUME NEW known \in BOOLEAN, work' = [work EXCEPT ![p] = [w EXCEPT !.at = "seq", !.known = known]],
              log' = log, counter' = counter
       PROVE  PipelineInv'
  <2>1. PICK x : x = [w EXCEPT !.at = "seq", !.known = known]
    OBVIOUS
  <2>2. x \in Appending /\ x.at = "seq" /\ x.ev = w.ev /\ x.seq = w.seq
    BY <1>4, <1>11, <2>1 DEF Appending, Unstored
  <2>3. WorkFits(p, x)'
    BY <1>2, <1>4, <1>6, <1>11, <2>2 DEF WorkFits, Unstored
  <2>4. OwnNumber(p, x)
    BY <2>2 DEF OwnNumber
  <2>5. x \in Works /\ work' = [work EXCEPT ![p] = x]
    BY <1>11, <2>1, <2>2 DEF Works
  <2> QED
    BY <1>9, <1>11, <2>3, <2>4, <2>5
<1>12. CASE CacheSession(p)
  <2>1. work' = [work EXCEPT ![p] = [w EXCEPT !.at = "seq", !.known = TRUE]] /\ log' = log /\ counter' = counter
    BY <1>3, <1>12 DEF CacheSession
  <2> QED
    BY <1>11, <2>1
<1>13. CASE ReadSession(p)
  <2>1. PICK known \in BOOLEAN : known = (w.ev.run \in sessions)
    <3>1. (w.ev.run \in sessions) \in BOOLEAN
      OBVIOUS
    <3> QED
      BY <3>1
  <2>2. work' = [work EXCEPT ![p] = [w EXCEPT !.at = "seq", !.known = known]] /\ log' = log /\ counter' = counter
    BY <1>3, <1>13, <2>1 DEF ReadSession
  <2> QED
    BY <1>11, <2>2
<1>14. CASE RoundTripFails(p)
  BY <1>9, <1>10, <1>14 DEF RoundTripFails, AppendFailed
\* A number of Redis is above all that were drawn.
<1>15. CASE IncrSeq(p)
  <2>1. PICK x : x = [w EXCEPT !.at = "insert", !.seq = counter[run] + 1]
    OBVIOUS
  <2>2. /\ wiring.store = "redis" /\ log' = log /\ work' = [work EXCEPT ![p] = x]
        /\ counter' = [counter EXCEPT ![run] = @ + 1]
    BY <1>3, <1>5, <1>15, <2>1 DEF IncrSeq
  <2>3. counter[run] + 1 \in Nat
    BY <1>6
  <2>4. x \in Appending /\ x.at = "insert" /\ x.ev = w.ev /\ x.seq = counter[run] + 1
    BY <1>4, <2>1, <2>3 DEF Appending, Unstored
  <2>5. counter'[run] = counter[run] + 1 /\ \A r \in Runs : counter'[r] >= counter[r]
    BY <1>6, <2>2 DEF PipelineInv, PipelineTypeOK
  <2>6. \A i \in DOMAIN log[run] : log[run][i].seq < counter[run] + 1 /\ log[run][i].seq \in Nat
    BY <1>6, <2>2 DEF EntriesOK, EntryFields
  <2>7. counter[run] + 1 \notin Stored(run) /\ Stored(run)' = Stored(run)
    BY <2>2, <2>6 DEF Stored
  <2>8. WorkFits(p, x)'
    BY <1>2, <1>4, <1>5, <1>6, <2>2, <2>4, <2>5, <2>6, <2>7 DEF WorkFits, Unstored
  <2>9. OwnNumber(p, x)
    <3>1. ASSUME NEW q \in Appenders \ {p}, work[q] \in Appending, work[q].at = "insert", work[q].ev.run = run
          PROVE  work[q].seq # counter[run] + 1
      <4>1. WorkFits(q, work[q]) /\ work[q].seq \in Nat
        BY <3>1, AppendingWork DEF PipelineInv
      <4>2. work[q].seq <= counter[run]
        BY <2>2, <3>1, <4>1 DEF WorkFits
      <4> QED
        BY <1>6, <4>1, <4>2
    <3> QED
      BY <1>5, <2>4, <3>1 DEF OwnNumber
  <2>10. x \in Works
    BY <2>4 DEF Works
  <2> QED
    BY <1>1, <1>2, <1>7, <1>8, <2>2, <2>5, <2>8, <2>9, <2>10, MovesOn
\* One of Postgres is the next, unless another append takes it first.
<1>16. CASE SubquerySeq(p)
  <2>1. wiring.store = "postgres" /\ log' = log /\ counter' = counter
    BY <1>16 DEF SubquerySeq
  <2>2. LastSeq(run) = Len(log[run])
    BY <2>1, LastSeqIsLen DEF PipelineInv
  <2>3. PICK x : x = [w EXCEPT !.at = "insert", !.seq = Len(log[run]) + 1]
    OBVIOUS
  <2>4. work' = [work EXCEPT ![p] = x]
    BY <1>3, <1>5, <1>16, <2>2, <2>3 DEF SubquerySeq
  <2>5. Len(log[run]) + 1 \in Nat
    BY <1>6
  <2>6. x \in Appending /\ x.at = "insert" /\ x.ev = w.ev /\ x.seq = Len(log[run]) + 1
    BY <1>4, <2>3, <2>5 DEF Appending, Unstored
  <2>7. WorkFits(p, x)'
    <3>1. x.ev.run = run /\ log'[run] = log[run] /\ wiring'.store = "postgres" /\ cursor' = cursor
      BY <1>2, <1>5, <2>1, <2>6
    <3>2. x.seq >= 1 /\ x.seq <= Len(log[run]) + 1
      BY <1>6, <2>6
    <3>3. /\ p # Bridge => run = p
          /\ p = Bridge => x.ev.n <= cursor /\ \A i \in DOMAIN log[run] : log[run][i].by = Bridge => log[run][i].n < x.ev.n
      BY <1>4, <1>5, <1>6, <2>6 DEF WorkFits
    <3> QED
      BY <2>6, <3>1, <3>2, <3>3 DEF WorkFits, Unstored
  <2>8. OwnNumber(p, x)
    BY <2>1 DEF OwnNumber
  <2>9. x \in Works
    BY <2>6 DEF Works
  <2> QED
    BY <1>9, <2>1, <2>4, <2>7, <2>8, <2>9
<1>17. CASE AppendMemory(p)
  <2>1. PICK known \in BOOLEAN : known = (w.ev.kind = "RunStarted" \/ w.ev.run \in sessions)
    OBVIOUS
  <2>2. /\ wiring.store = "memory" /\ counter' = [counter EXCEPT ![run] = @ + 1]
        /\ Commit(p, Entry(p, known, counter[run] + 1), TRUE)
    BY <1>3, <1>5, <1>17, <2>1 DEF AppendMemory
  <2>3. counter[run] = Len(log[run])
    BY <1>6, <2>2 DEF EntriesOK
  <2>4. PICK seq \in Nat : seq = counter[run] + 1 /\ seq >= 1
    BY <1>6
  <2>5. \A i \in DOMAIN log[run] : log[run][i].seq = i
    BY <2>2 DEF PipelineInv, Contiguous
  <2>6. \A i \in DOMAIN log[run] : log[run][i].seq < seq
    BY <1>6, <2>3, <2>4, <2>5
  <2>7. seq \notin Stored(run)
    BY <1>6, <2>6 DEF Stored, EntryFields
  <2> QED
    BY <1>1, <1>2, <1>3, <1>4, <1>5, <2>2, <2>3, <2>4, <2>6, <2>7, Commits
\* An entry of Redis, whose number was drawn for it.
<1>18. ASSUME wiring.store = "redis", w.at = "insert", counter' = counter,
              NEW replied \in BOOLEAN, Commit(p, Entry(p, w.known, w.seq), replied)
       PROVE  PipelineInv'
  <2>1. w.seq >= 1 /\ w.seq <= counter[run] /\ w.seq \notin Stored(run)
    BY <1>5, <1>6, <1>18 DEF WorkFits
  <2>2. p = Bridge => \A i \in DOMAIN log[run] : log[run][i].by = Bridge => log[run][i].seq < w.seq
    BY <1>5, <1>6, <1>18 DEF WorkFits
  <2>3. \A q \in Appenders \ {p} : work[q] \in Appending /\ work[q].at = "insert" /\ work[q].ev.run = run
                                   => work[q].seq # w.seq
    BY <1>3, <1>4, <1>5, <1>18 DEF PipelineInv, OwnNumber
  <2> QED
    BY <1>1, <1>2, <1>3, <1>4, <1>5, <1>18, <2>1, <2>2, <2>3, Commits
\* One of Postgres, whose number no entry has.
<1>19. ASSUME wiring.store = "postgres", w.at = "insert", counter' = counter, w.seq \notin Stored(run),
              NEW replied \in BOOLEAN, Commit(p, Entry(p, w.known, w.seq), replied)
       PROVE  PipelineInv'
  <2>1. Stored(run) = 1..Len(log[run]) /\ \A i \in DOMAIN log[run] : log[run][i].seq = i
    BY <1>19, LastSeqIsLen DEF PipelineInv, Contiguous
  <2>2. w.seq >= 1 /\ w.seq <= Len(log[run]) + 1
    BY <1>5, <1>6, <1>19 DEF WorkFits
  <2>3. w.seq = Len(log[run]) + 1
    BY <1>4, <1>6, <1>19, <2>1, <2>2
  <2>4. \A i \in DOMAIN log[run] : log[run][i].seq < w.seq
    BY <1>6, <2>1, <2>3
  <2> QED
    BY <1>1, <1>2, <1>3, <1>4, <1>5, <1>19, <2>2, <2>3, <2>4, Commits
<1>20. CASE XAdd(p)
  BY <1>3, <1>18, <1>20 DEF XAdd
<1>21. CASE InsertRow(p)
  <2>1. wiring.store = "postgres" /\ w.at = "insert" /\ counter' = counter
    BY <1>3, <1>21 DEF InsertRow
  <2>2. CASE w.seq \in Stored(run)
    BY <1>3, <1>5, <1>9, <1>10, <1>21, <2>1, <2>2 DEF InsertRow, AppendFailed
  <2>3. CASE w.seq \notin Stored(run)
    <3>1. Commit(p, Entry(p, w.known, w.seq), TRUE)
      BY <1>3, <1>5, <1>21, <2>3 DEF InsertRow
    <3> QED
      BY <1>19, <2>1, <2>3, <3>1
  <2> QED
    BY <2>2, <2>3
\* A number that was drawn for nothing, or an entry that nobody will publish.
<1>22. CASE ReplyLost(p)
  <2>1. CASE AppendFailed(p) /\ log' = log /\ counter' = counter
    BY <1>9, <1>10, <2>1 DEF AppendFailed
  <2>2. CASE /\ AppendFailed(p) /\ log' = log /\ wiring.store = "redis"
             /\ counter' = [counter EXCEPT ![run] = @ + 1]
    <3>1. \A r \in Runs : counter'[r] >= counter[r]
      BY <1>6, <2>2 DEF PipelineInv, PipelineTypeOK
    <3>2. work' = [work EXCEPT ![p] = Idle]
      BY <2>2 DEF AppendFailed
    <3> QED
      BY <1>1, <1>2, <1>7, <1>8, <1>10, <2>2, <3>1, <3>2, MovesOn
  <2>3. CASE /\ w.at = "insert" /\ Commit(p, Entry(p, w.known, w.seq), FALSE) /\ counter' = counter
             /\ wiring.store # "memory" /\ (wiring.store = "postgres" => w.seq \notin Stored(run))
    <3>1. wiring.store = "redis" \/ wiring.store = "postgres"
      BY <2>3 DEF PipelineInv, PipelineTypeOK
    <3> QED
      BY <1>18, <1>19, <2>3, <3>1
  <2> QED
    BY <1>3, <1>5, <1>22, <2>1, <2>2, <2>3 DEF ReplyLost
<1> QED
  BY <1>12, <1>13, <1>14, <1>15, <1>16, <1>17, <1>20, <1>21, <1>22

\* A page, a live event, a lost connection: nothing of this moves an append.
LEMMA ReadersKeep ==
    ASSUME PipelineInv, NEW u \in wiring.readers,
           Subscribe(u) \/ Replay(u) \/ Forward(u) \/ Read(u) \/ Close(u)
    PROVE  PipelineInv'
<1>1. PipelineTypeOK'
  BY ReaderTypes DEF PipelineInv
<1>2. /\ wiring' = wiring /\ emitted' = emitted /\ log' = log /\ counter' = counter /\ work' = work
      /\ cursor' = cursor /\ room' = room /\ sessionRoom' = sessionRoom
  BY DEF Subscribe, Replay, Forward, ForwardMemory, ForwardRedis, ForwardNats, Take, Read, Close, eventVars
<1> QED
  BY <1>1, <1>2 DEF PipelineInv, Contiguous, EventsNumbered, RoomsOK, EntriesOK, WorkFits, OwnNumber, Stored

\* emit and the bridge: an event the bridge receives is newer than all it
\* has bridged, and it publishes what it has stored.
LEMMA BridgeKeeps ==
    ASSUME PipelineInv,
           \/ \E run \in Runs, kind \in Kinds : RunEmits(run, kind)
           \/ BridgeReceives \/ PublishToRun \/ PublishToSession \/ Abort \/ Spawn
    PROVE  PipelineInv'
<1>1. PipelineTypeOK'
  BY BridgeTypes DEF PipelineInv
<1>2. /\ wiring' = wiring /\ log' = log /\ counter' = counter
      /\ \A run \in Runs : Stored(run)' = Stored(run)
  BY DEF RunEmits, Emit, BridgeReceives, PublishToRun, PublishToSession, Abort, Spawn, eventVars, Stored
<1>3. /\ Bridge \in Appenders /\ Idle \in Works /\ Idle \notin Appending /\ [at |-> "off"] \in Works
      /\ [at |-> "off"] \notin Appending /\ Bridge \notin Runs /\ Runs \subseteq Appenders
  BY PipelineAssumption DEF Appenders, Works, Idle, Appending, Unstored
<1>4. cursor \in Nat /\ cursor <= Len(emitted) /\ Len(emitted) \in Nat /\ emitted \in Seq(Event)
  BY DEF PipelineInv, PipelineTypeOK
<1>5. ASSUME NEW p \in Appenders, NEW w \in Works, w \notin Appending, work' = [work EXCEPT ![p] = w],
             EventsNumbered', RoomsOK', cursor' >= cursor
      PROVE  PipelineInv'
  BY <1>1, <1>2, <1>5, MovesOn
<1>6. room' = room /\ sessionRoom' = sessionRoom => RoomsOK'
  BY <1>2 DEF PipelineInv, RoomsOK
<1>7. emitted' = emitted => EventsNumbered'
  BY DEF PipelineInv, EventsNumbered
<1>8. \A e \in Event : LET x == [at |-> "session", ev |-> e, known |-> FALSE, seq |-> 0]
                       IN x \in Works /\ x \in Appending /\ x.at = "session" /\ x.ev = e
  BY DEF Appending, Works, Unstored
<1>9. ASSUME NEW run \in Runs, NEW kind \in Kinds, RunEmits(run, kind)
      PROVE  PipelineInv'
  <2>1. PICK e : e = [run |-> run, kind |-> kind, n |-> Len(emitted) + 1]
    OBVIOUS
  <2>2. e \in Event /\ e.run = run /\ e.n = Len(emitted) + 1
    BY <1>4, <2>1 DEF Event
  <2>3. emitted' = Append(emitted, e) /\ cursor' = cursor /\ room' = room /\ sessionRoom' = sessionRoom
    BY <1>9, <2>1 DEF RunEmits, Emit
  <2>4. EventsNumbered'
    <3>1. /\ DOMAIN emitted' = 1..(Len(emitted) + 1) /\ emitted'[Len(emitted) + 1] = e
          /\ \A i \in 1..Len(emitted) : emitted'[i] = emitted[i] /\ emitted[i].n = i
      BY <1>4, <2>2, <2>3 DEF PipelineInv, EventsNumbered
    <3>2. \A i \in 1..(Len(emitted) + 1) : i \in 1..Len(emitted) \/ i = Len(emitted) + 1
      BY <1>4
    <3>3. ASSUME NEW i \in DOMAIN emitted'
          PROVE  emitted'[i].n = i
      BY <2>2, <3>1, <3>2
    <3> QED
      BY <3>3 DEF EventsNumbered
  <2>5. RoomsOK' /\ cursor' >= cursor /\ run \in Appenders
    BY <1>3, <1>4, <1>6, <2>3
  <2>6. CASE kind = "CacheMetrics"
    <3>1. PICK x \in Works : x = [at |-> "session", ev |-> e, known |-> FALSE, seq |-> 0]
      BY <1>8, <2>2
    <3>2. work' = [work EXCEPT ![run] = x] /\ x.at = "session" /\ x.ev = e
      BY <1>9, <2>1, <2>6, <3>1 DEF RunEmits, StartAppend
    <3>3. WorkFits(run, x)' /\ OwnNumber(run, x)
      BY <1>3, <2>2, <3>2 DEF WorkFits, OwnNumber, Unstored
    <3> QED
      BY <1>1, <1>2, <2>4, <2>5, <3>2, <3>3, MovesOn
  <2>7. CASE kind # "CacheMetrics"
    <3>1. work' = [work EXCEPT ![run] = Idle]
      BY <1>9, <2>7 DEF RunEmits, PipelineInv, PipelineTypeOK
    <3> QED
      BY <1>3, <1>5, <2>4, <2>5, <3>1
  <2> QED
    BY <2>6, <2>7
<1>10. CASE BridgeReceives
  <2>1. cursor < Len(emitted) /\ RoomsOK' /\ EventsNumbered'
    BY <1>6, <1>7, <1>10 DEF BridgeReceives, eventVars
  <2>2. CASE Lagging(emitted, cursor)
    <3>1. work' = [work EXCEPT ![Bridge] = Idle]
      BY <1>10, <2>2 DEF BridgeReceives, PipelineInv, PipelineTypeOK
    <3>2. cursor' >= cursor
      BY <1>4, <1>10, <2>2, EventsAssumption DEF BridgeReceives, Lagging, CatchUp
    <3> QED
      BY <1>3, <1>5, <2>1, <3>1, <3>2
  <2>3. CASE ~Lagging(emitted, cursor)
    <3>1. PICK e : e = emitted[cursor + 1]
      OBVIOUS
    <3>2. cursor + 1 \in 1..Len(emitted)
      BY <1>4, <2>1
    <3>3. e \in Event /\ e.n = cursor + 1 /\ e.run \in Runs
      <4>1. e \in Event /\ DOMAIN emitted = 1..Len(emitted)
        BY <1>4, <3>1, <3>2
      <4>2. e.n = cursor + 1
        BY <3>1, <3>2, <4>1 DEF PipelineInv, EventsNumbered
      <4> QED
        BY <4>1, <4>2 DEF Event
    <3>4. PICK x \in Works : x = [at |-> "session", ev |-> e, known |-> FALSE, seq |-> 0]
      BY <1>8, <3>3
    <3>5. /\ work' = [work EXCEPT ![Bridge] = x] /\ x.at = "session" /\ x.ev = e /\ cursor' = cursor + 1
      BY <1>10, <2>3, <3>1, <3>4 DEF BridgeReceives, StartAppend
    <3>6. \A i \in DOMAIN log[e.run] : log[e.run][i].by = Bridge => log[e.run][i].n < cursor + 1
      <4>1. EntriesOK(e.run) /\ \A i \in DOMAIN log[e.run] : log[e.run][i] \in EntryFields
        BY <3>3, StoredAreNumbers DEF PipelineInv
      <4> QED
        BY <1>4, <4>1 DEF EntriesOK, EntryFields
    <3>7. WorkFits(Bridge, x)'
      BY <1>2, <1>4, <3>3, <3>5, <3>6 DEF WorkFits
    <3>8. OwnNumber(Bridge, x) /\ cursor' >= cursor
      BY <1>4, <3>5 DEF OwnNumber
    <3> QED
      BY <1>1, <1>2, <1>3, <2>1, <3>5, <3>7, <3>8, MovesOn
  <2> QED
    BY <2>2, <2>3
<1>11. CASE PublishToRun
  <2>1. PICK w : w = work[Bridge]
    OBVIOUS
  <2>2. w.at = "publish" /\ emitted' = emitted /\ cursor' = cursor /\ sessionRoom' = sessionRoom
    BY <1>11, <2>1 DEF PublishToRun
  <2>3. /\ w \in Appending /\ w.ev.run \in Runs /\ w.ev.n \in Nat /\ w.seq \in Nat
        /\ WorkFits(Bridge, w) /\ w.seq \in Stored(w.ev.run)
    BY <1>3, <2>1, <2>2, AppendingWork DEF PipelineInv, WorkFits
  <2>4. RoomsOK'
    <3>1. CASE room' = room
      BY <1>6, <2>2, <3>1
    <3>2. CASE room' = [room EXCEPT ![w.ev.run] = Append(@, w.seq)]
      <4>1. PICK es \in Seq(Nat) : es = room[w.ev.run]
        BY <2>3 DEF PipelineInv, PipelineTypeOK
      <4>2. Range(Append(es, w.seq)) \subseteq Range(es) \cup {w.seq}
        <5>1. \A i \in 1..(Len(es) + 1) : i \in 1..Len(es) \/ i = Len(es) + 1
          BY <4>1
        <5>2. PICK fs : fs = Append(es, w.seq)
          OBVIOUS
        <5>3. DOMAIN fs = 1..(Len(es) + 1) /\ fs[Len(es) + 1] = w.seq /\ \A i \in 1..Len(es) : fs[i] = es[i]
          BY <2>3, <4>1, <5>2
        <5>4. Range(fs) \subseteq Range(es) \cup {w.seq}
          BY <4>1, <5>1, <5>3 DEF Range
        <5> QED
          BY <5>2, <5>4
      <4>3. room'[w.ev.run] = Append(es, w.seq) /\ \A r \in Runs \ {w.ev.run} : room'[r] = room[r]
        BY <2>3, <3>2, <4>1 DEF PipelineInv, PipelineTypeOK
      <4>4. ASSUME NEW r \in Runs
            PROVE  sessionRoom[r] \cup Range(room'[r]) \subseteq Stored(r)
        <5>0. sessionRoom[r] \cup Range(room[r]) \subseteq Stored(r)
          BY DEF PipelineInv, RoomsOK
        <5>1. CASE r = w.ev.run
          BY <2>3, <4>1, <4>2, <4>3, <5>0, <5>1
        <5>2. CASE r # w.ev.run
          BY <4>3, <5>0, <5>2
        <5> QED
          BY <5>1, <5>2
      <4> QED
        BY <1>2, <2>2, <4>4 DEF RoomsOK
    <3> QED
      BY <1>11, <2>1, <3>1, <3>2 DEF PublishToRun, Send
  <2>5. EventsNumbered' /\ cursor' >= cursor
    BY <1>4, <1>7, <2>2
  <2>6. CASE w.known
    <3>1. PICK x : x = [w EXCEPT !.at = "publishSession"]
      OBVIOUS
    <3>2. x \in Appending /\ x.at = "publishSession" /\ x.ev = w.ev /\ x.seq = w.seq
      BY <2>3, <3>1 DEF Appending
    <3>3. x \in Works /\ work' = [work EXCEPT ![Bridge] = x]
      BY <1>11, <2>1, <2>6, <3>1, <3>2 DEF PublishToRun, Works
    <3>4. WorkFits(Bridge, x)' /\ OwnNumber(Bridge, x)
      BY <1>2, <2>2, <2>3, <3>2 DEF WorkFits, OwnNumber, Unstored
    <3> QED
      BY <1>1, <1>2, <1>3, <2>4, <2>5, <3>3, <3>4, MovesOn
  <2>7. CASE ~w.known
    <3>1. work' = [work EXCEPT ![Bridge] = Idle]
      BY <1>11, <2>1, <2>7 DEF PublishToRun
    <3> QED
      BY <1>3, <1>5, <2>4, <2>5, <3>1
  <2> QED
    BY <2>6, <2>7
<1>12. CASE PublishToSession
  <2>1. PICK w : w = work[Bridge]
    OBVIOUS
  <2>2. /\ w.at = "publishSession" /\ emitted' = emitted /\ cursor' = cursor /\ room' = room
        /\ work' = [work EXCEPT ![Bridge] = Idle]
    BY <1>12, <2>1 DEF PublishToSession
  <2>3. w \in Appending /\ w.ev.run \in Runs /\ w.seq \in Stored(w.ev.run)
    BY <1>3, <2>1, <2>2, AppendingWork DEF PipelineInv, WorkFits
  <2>4. RoomsOK'
    <3>1. CASE sessionRoom' = sessionRoom
      BY <1>6, <2>2, <3>1
    <3>2. CASE sessionRoom' = [sessionRoom EXCEPT ![w.ev.run] = @ \cup {w.seq}]
      <4>1. ASSUME NEW r \in Runs
            PROVE  sessionRoom'[r] \subseteq sessionRoom[r] \cup Stored(r)
        BY <2>3, <3>2 DEF PipelineInv, PipelineTypeOK
      <4> QED
        BY <1>2, <2>2, <4>1 DEF PipelineInv, RoomsOK
    <3> QED
      BY <1>12, <2>1, <3>1, <3>2 DEF PublishToSession
  <2>5. EventsNumbered' /\ cursor' >= cursor
    BY <1>4, <1>7, <2>2
  <2> QED
    BY <1>3, <1>5, <2>2, <2>4, <2>5
<1>13. CASE Abort
  <2>1. /\ work' = [work EXCEPT ![Bridge] = [at |-> "off"]] /\ emitted' = emitted /\ cursor' = cursor
        /\ room' = room /\ sessionRoom' = sessionRoom
    BY <1>13 DEF Abort
  <2>2. EventsNumbered' /\ RoomsOK' /\ cursor' >= cursor
    BY <1>4, <1>6, <1>7, <2>1
  <2> QED
    BY <1>3, <1>5, <2>1, <2>2
<1>14. CASE Spawn
  <2>1. /\ work' = [work EXCEPT ![Bridge] = Idle] /\ cursor' = Len(emitted) /\ emitted' = emitted
        /\ room' = room /\ sessionRoom' = sessionRoom
    BY <1>14 DEF Spawn, eventVars
  <2> QED
    BY <1>3, <1>4, <1>5, <1>6, <1>7, <2>1
<1> QED
  BY <1>9, <1>10, <1>11, <1>12, <1>13, <1>14

LEMMA PipelineInvHolds == PipelineSpec => []PipelineInv
<1>1. ASSUME EventsInit, PipelineInit, wiring.store \in {"memory", "redis", "postgres"},
             wiring.readers \subseteq Readers
      PROVE  PipelineInv
  <2>1. IsFiniteSet({})
    BY FS_EmptySet
  <2>2. \A u \in Readers : reader[u] \in ReaderFields /\ reader[u].seen = {}
    <3>1. <<>> \in Seq(Nat)
      OBVIOUS
    <3>2. ASSUME NEW r \in Runs
          PROVE  LET x == [run |-> r, pc |-> "off", cursor |-> 0, inbox |-> <<>>, after |-> 0,
                           seen |-> {}, full |-> FALSE, lagged |-> FALSE, joined |-> FALSE]
                 IN x \in ReaderFields /\ x.seen = {}
      BY <3>1 DEF ReaderFields
    <3>3. ASSUME NEW u \in Readers
          PROVE  \E r \in Runs : reader[u] = [run |-> r, pc |-> "off", cursor |-> 0, inbox |-> <<>>, after |-> 0,
                           seen |-> {}, full |-> FALSE, lagged |-> FALSE, joined |-> FALSE]
      BY <1>1 DEF PipelineInit
    <3> QED
      BY <3>2, <3>3
  <2>3. reader \in [Readers -> ReaderFields]
    <3>1. DOMAIN reader = Readers /\ reader = [u \in Readers |-> reader[u]]
      BY <1>1 DEF PipelineInit
    <3> QED
      BY <2>2, <3>1
  <2>4. <<>> \in Seq(Event) /\ <<>> \in Seq(EntryFields) /\ <<>> \in Seq(Nat) /\ Len(<<>>) = 0 /\ Idle \in Works
    BY DEF Works
  <2>5. PipelineTypeOK
    <3>1. \A u \in Readers : IsFiniteSet(reader[u].seen)
      BY <2>1, <2>2
    <3>2. /\ log \in [Runs -> Seq(EntryFields)] /\ counter \in [Runs -> Nat]
          /\ work \in [Appenders -> Works]
          /\ room \in [Runs -> Seq(Nat)] /\ sessionRoom \in [Runs -> SUBSET Nat]
          /\ consumer \in [Runs -> Nat \cup {None}] /\ unpublished \in [Runs -> SUBSET Nat]
      BY <1>1, <2>4 DEF PipelineInit
    <3>3. emitted \in Seq(Event) /\ cursor \in Nat /\ cursor <= Len(emitted)
      BY <1>1, <2>4 DEF PipelineInit, EventsInit
    <3> QED
      BY <1>1, <2>3, <3>1, <3>2, <3>3 DEF PipelineTypeOK
  <2>6. /\ \A run \in Runs : DOMAIN log[run] = {} /\ Len(log[run]) = 0 /\ DOMAIN room[run] = {}
        /\ \A run \in Runs : sessionRoom[run] = {} /\ counter[run] = 0
        /\ DOMAIN emitted = {}
    BY <1>1 DEF PipelineInit, EventsInit
  <2>7. Contiguous /\ EventsNumbered
    BY <2>6 DEF Contiguous, EventsNumbered
  <2>8. RoomsOK
    BY <2>6 DEF RoomsOK, Range
  <2>9. \A run \in Runs : EntriesOK(run)
    BY <2>6 DEF EntriesOK
  <2>10. \A p \in Appenders : work[p] \notin Appending
    BY <1>1 DEF PipelineInit, Idle, Appending, Unstored
  <2> QED
    BY <2>5, <2>7, <2>8, <2>9, <2>10 DEF PipelineInv
<1>2. ASSUME PipelineInv, [PipelineNext]_<<eventVars, pipelineVars>>
      PROVE  PipelineInv'
  <2>1. CASE PipelineNext
    BY <1>2, <2>1, AppendKeeps, BridgeKeeps, ReadersKeep DEF PipelineNext
  <2>2. CASE UNCHANGED <<eventVars, pipelineVars>>
    BY <1>2, <2>2 DEF eventVars, pipelineVars, PipelineInv, PipelineTypeOK, Contiguous, EventsNumbered, RoomsOK,
       EntriesOK, WorkFits, OwnNumber, Stored
  <2> QED
    BY <1>2, <2>1, <2>2
<1> QED
  BY <1>1, <1>2, PTL DEF PipelineSpec

\* What a room carries is stored; the numbers of a run's entries are
\* distinct and follow the order of emission where the bridge stored them,
\* also across an aborted bridge: forward_events and the three append.
THEOREM BridgeKeepsOrder == PipelineSpec => []BridgedInOrder
<1>1. ASSUME PipelineInv
      PROVE  BridgedInOrder
  <2>1. ASSUME NEW run \in Runs, NEW i \in DOMAIN log[run], NEW j \in DOMAIN log[run], i # j
        PROVE  /\ log[run][i].seq # log[run][j].seq
               /\ log[run][i].by = Bridge /\ log[run][j].by = Bridge
                  => (log[run][i].seq < log[run][j].seq <=> log[run][i].n < log[run][j].n)
    <3>1. /\ DOMAIN log[run] = 1..Len(log[run]) /\ Len(log[run]) \in Nat
          /\ log[run][i] \in EntryFields /\ log[run][j] \in EntryFields
      BY <1>1, StoredAreNumbers DEF PipelineInv
    <3>2. i < j \/ j < i
      BY <2>1, <3>1
    <3>3. /\ log[run][i].seq \in Nat /\ log[run][j].seq \in Nat /\ log[run][i].n \in Nat /\ log[run][j].n \in Nat
      BY <3>1 DEF EntryFields
    <3>4. EntriesOK(run)
      BY <1>1 DEF PipelineInv
    <3> QED
      BY <3>2, <3>3, <3>4 DEF EntriesOK
  <2> QED
    BY <1>1, <2>1 DEF PipelineInv, RoomsOK, BridgedInOrder
<1> QED
  BY <1>1, PipelineInvHolds, PTL

-----------------------------------------------------------------------------
(* Replay and live stream of a subscription.                               *)

\* Where the reader's forwarder is in the room of its run.
At(u) == IF wiring.adapter = "nats" THEN consumer[reader[u].run] ELSE reader[u].cursor

\* A connected reader's forwarder is at a place of the room, and a reader
\* that waits for its page has all up to the number the page begins after.
ReaderOK(u) ==
    LET r == reader[u] IN
    /\ r.pc # "off" => r.joined /\ At(u) \in Nat /\ At(u) <= Len(room[r.run])
    /\ r.pc = "opened" => 1..r.after \subseteq r.seen

\* The event k is seen, on its way, or the reader was warned.
Reached(r, at, entries, w, k) ==
    \/ k \in r.seen \/ k \in Range(r.inbox)
    \/ \E i \in DOMAIN entries : i > at /\ entries[i] = k
    \/ w.at = "publish" /\ w.ev.run = r.run /\ w.seq = k
    \/ r.lagged \/ Lagged \in Range(r.inbox)

Complement(run) == Stored(run) \ unpublished[run]

NoGap(u) ==
    reader[u].pc = "live" /\ ~reader[u].full /\ ~Shared(u) =>
        \A k \in Complement(reader[u].run) :
            Reached(reader[u], At(u), room[reader[u].run], work[Bridge], k)

\* A consumer of NATS has been given no more than the room holds.
ConsumersOK == \A run \in Runs : consumer[run] # None => consumer[run] <= Len(room[run])

GapInv == PipelineInv /\ ConsumersOK /\ \A u \in wiring.readers : ReaderOK(u) /\ NoGap(u)

\* A page that was not cut off holds all that follows.
LEMMA PageIsWhole ==
    ASSUME PipelineTypeOK, NEW run \in Runs, NEW after, ~CutOff(run, after)
    PROVE  ListAfter(run, after) = After(run, after)
<1>1. IsFiniteSet(DOMAIN log[run])
  <2>1. PICK n \in Nat : DOMAIN log[run] = 1..n
    BY StoredAreNumbers
  <2>2. 1 \in Int /\ n \in Int
    OBVIOUS
  <2> QED
    BY <2>1, <2>2, FS_Interval
<1>2. After(run, after) \in SUBSET DOMAIN log[run] /\ IsFiniteSet(After(run, after))
  <2>1. After(run, after) \in SUBSET DOMAIN log[run]
    BY DEF After
  <2> QED
    BY <1>1, <2>1, FS_Subset
<1>3. ASSUME NEW places \in SUBSET DOMAIN log[run], IsFiniteSet(places), ~(Cardinality(places) > Page),
             NEW i \in places, NEW S \in SUBSET (places \ {i})
      PROVE  Cardinality(S) < Page
  <2>1. /\ IsFiniteSet(places \ {i}) /\ Cardinality(places \ {i}) = Cardinality(places) - 1
        /\ Cardinality(places) \in Nat
    BY <1>3, FS_RemoveElement, FS_CardinalityType
  <2>2. Cardinality(S) <= Cardinality(places \ {i}) /\ IsFiniteSet(S)
    BY <2>1, FS_Subset
  <2>3. Cardinality(S) \in Nat
    BY <2>2, FS_CardinalityType
  <2> QED
    BY <1>3, <2>1, <2>2, <2>3, PipelineAssumption
<1>4. \A i \in DOMAIN log[run] : i \in Nat /\ log[run][i].seq \in Nat
  BY StoredAreNumbers DEF EntryFields
<1>5. ASSUME NEW places \in SUBSET DOMAIN log[run], IsFiniteSet(places), ~(Cardinality(places) > Page)
      PROVE  FirstStored(places) = places /\ FirstNumbered(run, places) = places
  <2>1. ASSUME NEW i \in places
        PROVE  /\ Cardinality({j \in places : j < i}) < Page
               /\ Cardinality({j \in places : log[run][j].seq < log[run][i].seq}) < Page
    <3>1. {j \in places : j < i} \in SUBSET (places \ {i})
      BY <1>4
    <3>2. {j \in places : log[run][j].seq < log[run][i].seq} \in SUBSET (places \ {i})
      BY <1>4
    <3> QED
      BY <1>3, <1>5, <3>1, <3>2
  <2> QED
    BY <2>1 DEF FirstStored, FirstNumbered
<1>6. wiring.store \in {"memory", "redis", "postgres"}
  BY DEF PipelineTypeOK
<1>7. CASE wiring.store = "redis"
  <2>1. FirstStored(DOMAIN log[run]) = DOMAIN log[run]
    BY <1>1, <1>5, <1>7 DEF CutOff
  <2> QED
    BY <1>2, <1>7, <2>1 DEF ListAfter, ListRedis
<1>8. CASE wiring.store # "redis"
  <2>1. FirstStored(After(run, after)) = After(run, after) /\ FirstNumbered(run, After(run, after)) = After(run, after)
    BY <1>2, <1>5, <1>8 DEF CutOff
  <2> QED
    BY <1>6, <1>8, <2>1 DEF ListAfter, ListMemory, ListPostgres
<1> QED
  BY <1>7, <1>8

Publishing(run, k) == work[Bridge].at = "publish" /\ work[Bridge].ev.run = run /\ work[Bridge].seq = k

\* Runs, the bridge and the store do not touch a subscription; what they
\* store is then to be published or never will be, and what was to be
\* published is in the room or never will be.
Writes ==
    \/ \E run \in Runs, kind \in Kinds : RunEmits(run, kind)
    \/ BridgeReceives \/ PublishToRun \/ PublishToSession \/ Abort \/ Spawn
    \/ \E p \in Appenders :
           \/ AppendMemory(p) \/ CacheSession(p) \/ ReadSession(p) \/ IncrSeq(p)
           \/ XAdd(p) \/ SubquerySeq(p) \/ InsertRow(p) \/ RoundTripFails(p) \/ ReplyLost(p)

\* A writer step that stores and publishes nothing.
LEMMA NothingStored ==
    ASSUME PipelineInv, NEW p \in Appenders, NEW x \in Works, work[p].at # "publish", x.at # "publish",
           work' = [work EXCEPT ![p] = x], log' = log, room' = room, unpublished' = unpublished,
           NEW run \in Runs, NEW k
    PROVE  /\ room'[run] = room[run]
           /\ k \in Complement(run)' => k \in Complement(run)
           /\ Publishing(run, k) => Publishing(run, k)'
<1>1. Publishing(run, k) => Publishing(run, k)'
  <2>1. CASE p = Bridge
    BY <2>1 DEF Publishing
  <2>2. CASE p # Bridge
    <3>1. work'[Bridge] = work[Bridge]
      BY <2>2 DEF PipelineInv, PipelineTypeOK, Appenders
    <3> QED
      BY <3>1 DEF Publishing
  <2> QED
    BY <2>1, <2>2
<1> QED
  BY <1>1 DEF Complement, Stored

\* What such a step does to the room of a run and to what is to come in it.
StepsOn(run) ==
    /\ room'[run] = room[run] \/ \E k \in Nat : room'[run] = Append(room[run], k)
    /\ \A k \in Complement(run)' : k \in Complement(run) \/ Publishing(run, k)'
    /\ \A k : Publishing(run, k) => \/ Publishing(run, k)' \/ k \notin Complement(run)'
                                    \/ k \in Nat /\ room'[run] = Append(room[run], k)

LEMMA WritersLeaveNoGap ==
    ASSUME PipelineInv, Writes, NEW run \in Runs
    PROVE  wiring' = wiring /\ consumer' = consumer /\ reader' = reader /\ StepsOn(run)
<1>1. wiring' = wiring /\ consumer' = consumer /\ reader' = reader
  BY DEF Writes, RunEmits, Emit, BridgeReceives, PublishToRun, PublishToSession, Abort, Spawn, AppendMemory,
         CacheSession, ReadSession, IncrSeq, XAdd, SubquerySeq, InsertRow, RoundTripFails, ReplyLost, eventVars
<1>2. Bridge \in Appenders /\ Idle \in Works /\ [at |-> "off"] \in Works /\ Idle.at = "idle" /\ Runs \subseteq Appenders
      /\ Bridge \notin Runs
  BY PipelineAssumption DEF Appenders, Works, Idle
<1>4. ASSUME NEW p \in Appenders, NEW x \in Works, work[p].at # "publish", x.at # "publish",
             work' = [work EXCEPT ![p] = x], log' = log, room' = room, unpublished' = unpublished
      PROVE  StepsOn(run)
  BY <1>4, NothingStored DEF StepsOn
<1>5. ASSUME NEW p \in Appenders, work[p] \in Appending, work[p].at # "publish",
             NEW known \in BOOLEAN, NEW seq \in Nat, NEW replied \in BOOLEAN,
             Commit(p, Entry(p, known, seq), replied), room' = room
      PROVE  StepsOn(run)
  <2>0. Entry(p, known, seq).seq = seq
    BY DEF Entry
  <2>1. PICK e, w : e = Entry(p, known, seq) /\ w = work[p] /\ e.seq = seq
    BY <2>0
  <2>2. w \in Appending /\ w.ev.run \in Runs
    BY <1>5, <2>1, AppendingWork DEF PipelineInv
  <2>3. Stored(run)' \subseteq IF w.ev.run = run THEN Stored(run) \cup {seq} ELSE Stored(run)
    <3>1. log' = [log EXCEPT ![w.ev.run] = Append(@, e)] /\ log[w.ev.run] \in Seq(EntryFields)
      BY <1>5, <2>1, <2>2 DEF Commit, PipelineInv, PipelineTypeOK
    <3>2. CASE w.ev.run = run
      <4>1. PICK es, fs : es = log[run] /\ fs = log'[run] /\ fs = Append(es, e) /\ es \in Seq(EntryFields)
        BY <2>2, <3>1, <3>2 DEF PipelineInv, PipelineTypeOK
      <4>2. \A i \in DOMAIN fs : fs[i].seq = seq \/ (i \in DOMAIN es /\ fs[i] = es[i])
        <5>1. e \in EntryFields
          BY <1>5, <2>1, AppendingWork DEF PipelineInv, Entry, EntryFields
        <5>2. PICK n \in Nat : n = Len(es)
          BY <4>1
        <5>3. DOMAIN fs = 1..(n + 1) /\ fs[n + 1] = e /\ DOMAIN es = 1..n /\ \A i \in 1..n : fs[i] = es[i]
          BY <4>1, <5>1, <5>2
        <5>4. \A i \in 1..(n + 1) : i \in 1..n \/ i = n + 1
          OBVIOUS
        <5> QED
          BY <2>1, <5>3, <5>4
      <4> QED
        BY <3>2, <4>1, <4>2 DEF Stored
    <3>3. CASE w.ev.run # run
      <4>1. log'[run] = log[run]
        BY <3>1, <3>3 DEF PipelineInv, PipelineTypeOK
      <4> QED
        BY <3>3, <4>1 DEF Stored
    <3> QED
      BY <3>2, <3>3
  <2>4. CASE p = Bridge /\ replied
    <3>1. work' = [work EXCEPT ![Bridge] = [w EXCEPT !.at = "publish", !.known = e.known, !.seq = seq]]
          /\ unpublished' = unpublished
      BY <1>5, <2>1, <2>4 DEF Commit
    <3>2. PICK v : v = work'[Bridge] /\ v = [w EXCEPT !.at = "publish", !.known = e.known, !.seq = seq]
      BY <1>2, <3>1 DEF PipelineInv, PipelineTypeOK
    <3>3. v.at = "publish" /\ v.ev = w.ev /\ v.seq = seq
      BY <2>2, <3>2 DEF Appending
    <3>4. \A k \in Complement(run)' : k \in Complement(run) \/ Publishing(run, k)'
      BY <2>3, <3>1, <3>2, <3>3 DEF Complement, Publishing
    <3>5. \A k : ~Publishing(run, k)
      BY <1>5, <2>4 DEF Publishing
    <3> QED
      BY <1>5, <3>4, <3>5 DEF StepsOn
  <2>5. CASE ~(p = Bridge /\ replied)
    <3>1. unpublished' = [unpublished EXCEPT ![w.ev.run] = @ \cup {seq}] /\ work' = [work EXCEPT ![p] = Idle]
      BY <1>5, <2>1, <2>5 DEF Commit
    <3>2. \A k \in Complement(run)' : k \in Complement(run)
      BY <2>2, <2>3, <3>1 DEF Complement, PipelineInv, PipelineTypeOK
    <3>3. \A k : Publishing(run, k) => Publishing(run, k)'
      <4>1. CASE p = Bridge
        BY <1>5, <4>1 DEF Publishing
      <4>2. CASE p # Bridge
        <5>1. work'[Bridge] = work[Bridge]
          BY <1>2, <3>1, <4>2 DEF PipelineInv, PipelineTypeOK
        <5> QED
          BY <5>1 DEF Publishing
      <4> QED
        BY <4>1, <4>2
    <3> QED
      BY <1>5, <3>2, <3>3 DEF StepsOn
  <2> QED
    BY <2>4, <2>5
<1>6. ASSUME NEW p \in Appenders,
             \/ AppendMemory(p) \/ CacheSession(p) \/ ReadSession(p) \/ IncrSeq(p)
             \/ XAdd(p) \/ SubquerySeq(p) \/ InsertRow(p) \/ RoundTripFails(p) \/ ReplyLost(p)
      PROVE  StepsOn(run)
  <2>1. work[p].at \in Unstored /\ room' = room
    BY <1>6 DEF AppendMemory, CacheSession, ReadSession, IncrSeq, XAdd, SubquerySeq, InsertRow, RoundTripFails, ReplyLost, Unstored
  <2>2. PICK w \in Appending : w = work[p] /\ w.at # "publish" /\ w.seq \in Nat /\ w.known \in BOOLEAN /\ w.ev.run \in Runs
    BY <2>1, AppendingWork DEF PipelineInv, Unstored
  <2>3. CASE \E known, replied \in BOOLEAN, seq \in Nat : Commit(p, Entry(p, known, seq), replied)
    BY <1>5, <2>1, <2>2, <2>3
  <2>4. CASE /\ ~\E known, replied \in BOOLEAN, seq \in Nat : Commit(p, Entry(p, known, seq), replied)
    <3>1. CASE AppendMemory(p)
      <4>1. counter[w.ev.run] + 1 \in Nat
        BY <2>2 DEF PipelineInv, PipelineTypeOK
      <4>2. (w.ev.kind = "RunStarted" \/ w.ev.run \in sessions) \in BOOLEAN
        OBVIOUS
      <4> QED
        BY <2>2, <2>4, <3>1, <4>1, <4>2 DEF AppendMemory
    <3>2. CASE XAdd(p)
      BY <2>2, <2>4, <3>2 DEF XAdd
    <3>3. CASE ~AppendMemory(p) /\ ~XAdd(p)
      <4>1. log' = log /\ unpublished' = unpublished
        BY <1>6, <2>2, <2>4, <3>3 DEF CacheSession, ReadSession, IncrSeq, SubquerySeq, InsertRow, RoundTripFails, ReplyLost
      <4>2. PICK x : x = work'[p]
        OBVIOUS
      <4>3. /\ work' = [work EXCEPT ![p] = x]
            /\ x = Idle \/ x.at \in {"seq", "insert"}
        <5>1. CASE InsertRow(p) \/ RoundTripFails(p) \/ ReplyLost(p)
          <6>1. work' = [work EXCEPT ![p] = Idle]
            BY <2>2, <2>4, <5>1 DEF InsertRow, RoundTripFails, ReplyLost, AppendFailed
          <6> QED
            BY <4>2, <6>1 DEF PipelineInv, PipelineTypeOK
        <5>2. CASE CacheSession(p)
          BY <2>2, <4>2, <5>2 DEF CacheSession, PipelineInv, PipelineTypeOK, Appending
        <5>3. CASE ReadSession(p)
          BY <2>2, <4>2, <5>3 DEF ReadSession, PipelineInv, PipelineTypeOK, Appending
        <5>4. CASE IncrSeq(p)
          BY <2>2, <4>2, <5>4 DEF IncrSeq, PipelineInv, PipelineTypeOK, Appending
        <5>5. CASE SubquerySeq(p)
          BY <2>2, <4>2, <5>5 DEF SubquerySeq, PipelineInv, PipelineTypeOK, Appending
        <5> QED
          BY <1>6, <3>3, <5>1, <5>2, <5>3, <5>4, <5>5
      <4>4. x \in Works
        BY <1>6, <4>2, AppendTypes DEF PipelineInv, PipelineTypeOK
      <4> QED
        BY <1>2, <1>4, <2>1, <2>2, <4>1, <4>3, <4>4
    <3> QED
      BY <3>1, <3>2, <3>3
  <2> QED
    BY <2>3, <2>4
<1>7. CASE \E kind \in Kinds, r \in Runs : RunEmits(r, kind)
  <2>1. PICK kind \in Kinds, r \in Runs : RunEmits(r, kind)
    BY <1>7
  <2>2. work'[Bridge] = work[Bridge] /\ log' = log /\ room' = room /\ unpublished' = unpublished
    BY <1>2, <2>1 DEF RunEmits, StartAppend, PipelineInv, PipelineTypeOK
  <2>3. (\A k : Publishing(run, k)' = Publishing(run, k)) /\ Complement(run)' = Complement(run)
    BY <2>2 DEF Publishing, Complement, Stored
  <2> QED
    BY <1>1, <2>2, <2>3 DEF StepsOn
<1>8. CASE BridgeReceives
  <2>1. /\ work[Bridge] = Idle /\ log' = log /\ room' = room /\ unpublished' = unpublished
    BY <1>8 DEF BridgeReceives
  <2>2. Complement(run)' = Complement(run) /\ \A k : ~Publishing(run, k)
    BY <1>2, <2>1 DEF Publishing, Complement, Stored
  <2> QED
    BY <1>1, <2>1, <2>2 DEF StepsOn
<1>9. CASE PublishToRun
  <2>1. PICK w : w = work[Bridge]
    OBVIOUS
  <2>2. w.at = "publish" /\ log' = log
    BY <1>9, <2>1 DEF PublishToRun
  <2>3. w \in Appending /\ w.ev.run \in Runs /\ w.seq \in Nat
    BY <1>2, <2>1, <2>2, AppendingWork DEF PipelineInv
  <2>4. \A k : Publishing(run, k) => w.ev.run = run /\ w.seq = k
    BY <2>1 DEF Publishing
  <2>5. CASE room' = [room EXCEPT ![w.ev.run] = Append(@, w.seq)] /\ unpublished' = unpublished
    <3>1. Complement(run)' = Complement(run)
      BY <2>2, <2>5 DEF Complement, Stored
    <3>2. room'[run] = IF w.ev.run = run THEN Append(room[run], w.seq) ELSE room[run]
      BY <2>3, <2>5 DEF PipelineInv, PipelineTypeOK
    <3> QED
      BY <1>1, <2>3, <2>4, <3>1, <3>2 DEF StepsOn
  <2>6. CASE room' = room /\ unpublished' = [unpublished EXCEPT ![w.ev.run] = @ \cup {w.seq}]
    <3>1. Complement(run)' = IF w.ev.run = run THEN Complement(run) \ {w.seq} ELSE Complement(run)
      BY <2>2, <2>3, <2>6 DEF Complement, Stored, PipelineInv, PipelineTypeOK
    <3> QED
      BY <1>1, <2>4, <2>6, <3>1 DEF StepsOn
  <2> QED
    BY <1>9, <2>1, <2>5, <2>6 DEF PublishToRun, Send
<1>10. CASE PublishToSession
  <2>1. work[Bridge].at = "publishSession" /\ log' = log /\ room' = room /\ unpublished' = unpublished
    BY <1>10 DEF PublishToSession
  <2>2. Complement(run)' = Complement(run) /\ \A k : ~Publishing(run, k)
    BY <2>1 DEF Publishing, Complement, Stored
  <2> QED
    BY <1>1, <2>1, <2>2 DEF StepsOn
<1>11. CASE Abort
  <2>1. PICK w : w = work[Bridge]
    OBVIOUS
  <2>2. log' = log /\ room' = room
    BY <1>11 DEF Abort
  <2>3. \A k : Publishing(run, k) => w.at = "publish" /\ w.ev.run = run /\ w.seq = k
    BY <2>1 DEF Publishing
  <2>4. CASE w.at = "publish"
    <3>1. unpublished' = [unpublished EXCEPT ![w.ev.run] = @ \cup {w.seq}] /\ w.ev.run \in Runs
      BY <1>2, <1>11, <2>1, <2>4, AppendingWork DEF Abort, PipelineInv
    <3>2. Complement(run)' = IF w.ev.run = run THEN Complement(run) \ {w.seq} ELSE Complement(run)
      BY <2>2, <3>1 DEF Complement, Stored, PipelineInv, PipelineTypeOK
    <3> QED
      BY <1>1, <2>2, <2>3, <3>2 DEF StepsOn
  <2>5. CASE w.at # "publish"
    <3>1. Complement(run)' = Complement(run)
      BY <1>11, <2>1, <2>2, <2>5 DEF Abort, Complement, Stored
    <3> QED
      BY <1>1, <2>2, <2>3, <2>5, <3>1 DEF StepsOn
  <2> QED
    BY <2>4, <2>5
<1>12. CASE Spawn
  <2>1. work[Bridge].at = "off" /\ log' = log /\ room' = room /\ unpublished' = unpublished
    BY <1>12 DEF Spawn
  <2>2. Complement(run)' = Complement(run) /\ \A k : ~Publishing(run, k)
    BY <2>1 DEF Publishing, Complement, Stored
  <2> QED
    BY <1>1, <2>1, <2>2 DEF StepsOn
<1> QED
  BY <1>1, <1>6, <1>7, <1>8, <1>9, <1>10, <1>11, <1>12 DEF Writes

LEMMA AppendRange ==
    ASSUME NEW S, NEW s \in Seq(S), NEW x \in S
    PROVE  Range(Append(s, x)) = Range(s) \cup {x}
<1>0. PICK n \in Nat : n = Len(s)
  OBVIOUS
<1>1. PICK t : t = Append(s, x)
  OBVIOUS
<1>2. DOMAIN s = 1..n /\ DOMAIN t = 1..(n + 1) /\ t[n + 1] = x /\ \A i \in 1..n : t[i] = s[i]
  BY <1>0, <1>1
<1>3. \A i \in 1..(n + 1) : i \in 1..n \/ i = n + 1
  OBVIOUS
<1>4. n + 1 \in 1..(n + 1) /\ \A i \in 1..n : i \in 1..(n + 1)
  OBVIOUS
<1>5. Range(t) = Range(s) \cup {x}
  BY <1>2, <1>3, <1>4 DEF Range
<1> QED
  BY <1>1, <1>5

LEMMA TailRange ==
    ASSUME NEW S, NEW s \in Seq(S), s # <<>>
    PROVE  Range(s) = Range(Tail(s)) \cup {Head(s)}
<1>0. PICK n \in Nat : n = Len(s)
  OBVIOUS
<1>1. PICK t, h : t = Tail(s) /\ h = Head(s)
  OBVIOUS
<1>2. n >= 1 /\ DOMAIN s = 1..n /\ DOMAIN t = 1..(n - 1) /\ s[1] = h /\ \A i \in 1..(n - 1) : t[i] = s[i + 1]
  BY <1>0, <1>1
<1>3. \A i \in 1..n : i = 1 \/ (i - 1 \in 1..(n - 1) /\ i = (i - 1) + 1)
  OBVIOUS
<1>4. 1 \in 1..n /\ \A i \in 1..(n - 1) : i + 1 \in 1..n
  BY <1>2
<1>5. Range(s) \subseteq Range(t) \cup {h}
  <2>1. ASSUME NEW i \in 1..n
        PROVE  s[i] = h \/ \E j \in 1..(n - 1) : s[i] = t[j]
    BY <1>2, <1>3
  <2>2. ASSUME NEW y \in Range(s)
        PROVE  y \in Range(t) \cup {h}
    <3>1. PICK i \in 1..n : y = s[i]
      BY <1>2, <2>2 DEF Range
    <3> QED
      BY <1>2, <2>1, <3>1 DEF Range
  <2> QED
    BY <2>2
<1>6. Range(t) \cup {h} \subseteq Range(s)
  BY <1>2, <1>4 DEF Range
<1> QED
  BY <1>1, <1>5, <1>6

\* What the writers do leaves no gap.
LEMMA WritersKeepGap ==
    ASSUME GapInv, Writes, NEW u \in wiring.readers
    PROVE  ReaderOK(u)' /\ NoGap(u)'
<1>1. PICK r \in ReaderFields, run \in Runs : r = reader[u] /\ run = r.run
  BY DEF GapInv, PipelineInv, PipelineTypeOK, ReaderFields
<1>2. wiring' = wiring /\ consumer' = consumer /\ reader' = reader /\ StepsOn(run)
  BY WritersLeaveNoGap DEF GapInv
<1>3. At(u)' = At(u) /\ Shared(u)' = Shared(u)
  BY <1>2 DEF At, Shared
<1>4. PICK at, w, x, es, fs : /\ at = At(u) /\ w = work[Bridge] /\ x = work'[Bridge]
                              /\ es = room[run] /\ fs = room'[run] /\ es \in Seq(Nat)
  BY DEF GapInv, PipelineInv, PipelineTypeOK
<1>5. /\ \A i \in DOMAIN es : i \in DOMAIN fs /\ fs[i] = es[i]
      /\ Len(es) \in Nat /\ Len(fs) \in Nat /\ Len(es) <= Len(fs)
      /\ \A k \in Nat : fs = Append(es, k) => /\ Len(es) + 1 \in DOMAIN fs
                                              /\ fs[Len(es) + 1] = k
  <2>1. fs = es \/ \E k \in Nat : fs = Append(es, k)
    BY <1>2, <1>4 DEF StepsOn
  <2>2. \A k \in Nat : fs = Append(es, k) => /\ Len(fs) = Len(es) + 1 /\ DOMAIN fs = 1..(Len(es) + 1)
                                             /\ fs[Len(es) + 1] = k /\ \A i \in 1..Len(es) : fs[i] = es[i]
    BY <1>4
  <2>3. Len(es) \in Nat /\ DOMAIN es = 1..Len(es)
    BY <1>4
  <2> QED
    BY <2>1, <2>2, <2>3
<1>6. ReaderOK(u) /\ NoGap(u)
  BY DEF GapInv
<1>7. ReaderOK(u)'
  <2>1. r.pc # "off" => r.joined /\ at \in Nat /\ at <= Len(fs)
    <3>1. r.pc # "off" => r.joined /\ at \in Nat /\ at <= Len(es)
      BY <1>1, <1>4, <1>6 DEF ReaderOK
    <3> QED
      BY <1>5, <3>1
  <2>2. r.pc = "opened" => 1..r.after \subseteq r.seen
    BY <1>1, <1>6 DEF ReaderOK
  <2>3. reader'[u] = r /\ At(u)' = at /\ room'[r.run] = fs
    BY <1>1, <1>2, <1>3, <1>4
  <2> QED
    BY <2>1, <2>2, <2>3 DEF ReaderOK
<1>8. ASSUME r.pc = "live", ~r.full, ~Shared(u), NEW k \in Complement(run)'
      PROVE  Reached(r, at, fs, x, k)
  <2>1. at \in Nat /\ at <= Len(es)
    BY <1>1, <1>4, <1>6, <1>8 DEF ReaderOK
  <2>2. CASE Publishing(run, k)'
    BY <1>1, <1>4, <2>2 DEF Publishing, Reached
  <2>3. CASE ~Publishing(run, k)'
    <3>1. k \in Complement(run)
      BY <1>2, <1>8, <2>3 DEF StepsOn
    <3>2. Reached(r, at, es, w, k)
      BY <1>1, <1>4, <1>6, <1>8, <3>1 DEF NoGap
    <3>3. CASE Publishing(run, k)
      <4>1. k \in Nat /\ fs = Append(es, k)
        BY <1>2, <1>4, <1>8, <2>3, <3>3 DEF StepsOn
      <4>2. Len(es) + 1 \in DOMAIN fs /\ fs[Len(es) + 1] = k /\ Len(es) + 1 > at
        BY <1>5, <2>1, <4>1
      <4> QED
        BY <4>2 DEF Reached
    <3>4. CASE ~Publishing(run, k)
      <4>1. ~(w.at = "publish" /\ w.ev.run = r.run /\ w.seq = k)
        BY <1>1, <1>4, <3>4 DEF Publishing
      <4> QED
        BY <1>5, <3>2, <4>1 DEF Reached
    <3> QED
      BY <3>3, <3>4
  <2> QED
    BY <2>2, <2>3
<1>9. NoGap(u)'
  <2>1. reader'[u] = r /\ At(u)' = at /\ room'[r.run] = fs /\ work'[Bridge] = x
    BY <1>1, <1>2, <1>3, <1>4
  <2> QED
    BY <1>1, <1>3, <1>8, <2>1 DEF NoGap
<1> QED
  BY <1>7, <1>9

\* What a step of a reader leaves alone.
LEMMA OneReader ==
    ASSUME GapInv, NEW u \in wiring.readers,
           Subscribe(u) \/ Replay(u) \/ Forward(u) \/ Read(u) \/ Close(u)
    PROVE  /\ wiring' = wiring /\ log' = log /\ work' = work /\ room' = room /\ unpublished' = unpublished
           /\ reader'[u].run = reader[u].run /\ (reader[u].joined => reader'[u].joined)
           /\ \A v \in Readers \ {u} : reader'[v] = reader[v]
           /\ \A run \in Runs : Complement(run)' = Complement(run)
           /\ \A v \in wiring.readers : Shared(v) => Shared(v)'
<1>1. /\ wiring' = wiring /\ log' = log /\ work' = work /\ room' = room /\ unpublished' = unpublished
  BY DEF Subscribe, Replay, Forward, ForwardMemory, ForwardRedis, ForwardNats, Take, Read, Close, eventVars
<1>2. PICK r \in ReaderFields : r = reader[u] /\ u \in Readers /\ wiring.readers \subseteq Readers
                                /\ reader \in [Readers -> ReaderFields]
  BY DEF GapInv, PipelineInv, PipelineTypeOK
<1>3. \E s : s.run = r.run /\ (r.joined => s.joined) /\ reader' = [reader EXCEPT ![u] = s]
  <2>1. CASE Subscribe(u)
    <3>1. PICK s : s = [r EXCEPT !.pc = "opened", !.cursor = Len(room[r.run]), !.inbox = <<>>,
                            !.after = Complete(r.seen), !.lagged = FALSE, !.full = FALSE, !.joined = TRUE]
      OBVIOUS
    <3>2. reader' = [reader EXCEPT ![u] = s]
      BY <1>2, <2>1, <3>1 DEF Subscribe, ReaderFields
    <3>3. s.run = r.run /\ s.joined = TRUE
      BY <3>1 DEF ReaderFields
    <3> QED
      BY <3>2, <3>3
  <2>2. CASE Replay(u)
    <3>1. CASE reader' = [reader EXCEPT
                  ![u].pc = "live", ![u].full = CutOff(r.run, r.after),
                  ![u].seen = @ \cup {log[r.run][i].seq : i \in ListAfter(r.run, r.after)}]
      BY <1>2, <3>1 DEF ReaderFields
    <3>2. CASE reader' = [reader EXCEPT ![u].pc = "off", ![u].inbox = <<>>]
      BY <1>2, <3>2 DEF ReaderFields
    <3> QED
      BY <1>2, <2>2, <3>1, <3>2 DEF Replay
  <2>3. CASE Forward(u)
    <3>1. PICK item, at : Take(u, item, at)
      BY <2>3 DEF Forward, ForwardMemory, ForwardRedis, ForwardNats
    <3> QED
      BY <1>2, <3>1 DEF Take, ReaderFields
  <2>4. CASE Read(u)
    <3>1. PICK item : reader' = [reader EXCEPT
         ![u].inbox = Tail(@),
         ![u].lagged = @ \/ item = Lagged,
         ![u].seen = IF item = Lagged THEN @ ELSE @ \cup {item}]
      BY <2>4 DEF Read
    <3> QED
      BY <1>2, <3>1 DEF ReaderFields
  <2>5. CASE Close(u)
    BY <1>2, <2>5 DEF Close, ReaderFields
  <2> QED
    BY <2>1, <2>2, <2>3, <2>4, <2>5
<1>4. /\ reader'[u].run = r.run /\ (r.joined => reader'[u].joined)
      /\ \A v \in Readers \ {u} : reader'[v] = reader[v]
  BY <1>2, <1>3
<1>5. \A run \in Runs : Complement(run)' = Complement(run)
  BY <1>1 DEF Complement, Stored
<1>6. \A v \in wiring.readers : Shared(v) => Shared(v)'
  <2>1. \A v \in wiring.readers : reader'[v].run = reader[v].run /\ (reader[v].joined => reader'[v].joined)
    BY <1>2, <1>4
  <2> QED
    BY <1>1, <2>1 DEF Shared
<1> QED
  BY <1>1, <1>2, <1>4, <1>5, <1>6

\* The NATS consumer is where it was for a reader that has it alone.
LEMMA OthersKeepGap ==
    ASSUME GapInv, NEW v \in wiring.readers,
           Subscribe(v) \/ Replay(v) \/ Forward(v) \/ Read(v) \/ Close(v),
           NEW u \in wiring.readers \ {v}
    PROVE  ReaderOK(u)' /\ NoGap(u)'
<1>1. PICK r \in ReaderFields, run \in Runs : r = reader[u] /\ run = r.run
  BY DEF GapInv, PipelineInv, PipelineTypeOK, ReaderFields
<1>2. /\ wiring' = wiring /\ work' = work /\ room' = room /\ reader'[u] = r
      /\ Complement(run)' = Complement(run) /\ (Shared(u) => Shared(u)')
  <2>1. u \in Readers \ {v}
    BY DEF GapInv, PipelineInv, PipelineTypeOK
  <2> QED
    BY <1>1, <2>1, OneReader
<1>3. ReaderOK(u) /\ NoGap(u) /\ ReaderOK(v)
  BY DEF GapInv
<1>4. PICK at, be : at = At(u) /\ be = At(u)'
  OBVIOUS
<1>5. r.pc # "off" => at \in Nat /\ at <= Len(room[run]) /\ r.joined
  BY <1>1, <1>3, <1>4 DEF ReaderOK
<1>6. ASSUME r.pc # "off"
      PROVE  be = at \/ (Shared(u) /\ be \in Nat /\ be <= Len(room[run]))
  <2>1. CASE wiring.adapter # "nats"
    BY <1>1, <1>2, <1>4, <2>1 DEF At
  <2>2. CASE wiring.adapter = "nats"
    <3>1. at = consumer[run] /\ be = consumer'[run]
      BY <1>1, <1>2, <1>4, <2>2 DEF At
    <3>2. consumer[run] # None
      BY <1>5, <1>6, <3>1, PipelineAssumption
    <3>3. CASE ForwardNats(v)
      <4>1. PICK q, n : q \in Runs /\ q = reader[v].run /\ n = consumer[q] /\ room[q] \in Seq(Nat)
        BY DEF GapInv, PipelineInv, PipelineTypeOK, ReaderFields
      <4>2. /\ n # None /\ n < Len(room[q]) /\ consumer' = [consumer EXCEPT ![q] = n + 1] /\ reader[v].pc # "off"
            /\ consumer \in [Runs -> Nat \cup {None}]
        BY <3>3, <4>1 DEF ForwardNats, Take, GapInv, PipelineInv, PipelineTypeOK
      <4>3. CASE q = run
        <5>1. Shared(u)
          BY <1>1, <1>3, <2>2, <4>1, <4>2, <4>3 DEF Shared, ReaderOK
        <5>2. n \in Nat /\ Len(room[q]) \in Nat
          BY <4>1, <4>2
        <5>3. be = n + 1
          BY <3>1, <4>2, <4>3
        <5> QED
          BY <4>2, <4>3, <5>1, <5>2, <5>3
      <4>4. CASE q # run
        BY <3>1, <4>2, <4>4
      <4> QED
        BY <4>3, <4>4
    <3>4. CASE Subscribe(v)
      BY <3>1, <3>2, <3>4 DEF Subscribe, JoinConsumer, GapInv, PipelineInv, PipelineTypeOK
    <3>5. CASE ~ForwardNats(v) /\ ~Subscribe(v)
      <4>1. consumer' = consumer
        BY <3>5 DEF Replay, Forward, ForwardMemory, ForwardRedis, Read, Close
      <4> QED
        BY <3>1, <4>1
    <3> QED
      BY <3>3, <3>4, <3>5
  <2> QED
    BY <2>1, <2>2
<1>7. ReaderOK(u)'
  <2>1. r.pc # "off" => be \in Nat /\ be <= Len(room[run]) /\ r.joined
    BY <1>5, <1>6
  <2>2. r.pc = "opened" => 1..r.after \subseteq r.seen
    BY <1>1, <1>3 DEF ReaderOK
  <2> QED
    BY <1>1, <1>2, <1>4, <2>1, <2>2 DEF ReaderOK
<1>8. ASSUME r.pc = "live", ~r.full, ~Shared(u)', NEW k \in Complement(run)
      PROVE  Reached(r, be, room[run], work[Bridge], k)
  <2>1. be = at /\ ~Shared(u)
    BY <1>2, <1>6, <1>8
  <2> QED
    BY <1>1, <1>3, <1>4, <1>8, <2>1 DEF NoGap
<1>9. NoGap(u)'
  BY <1>1, <1>2, <1>4, <1>8 DEF NoGap
<1> QED
  BY <1>7, <1>9

\* The next event of the room moves into the reader's channel.
LEMMA MovedToInbox ==
    ASSUME NEW r, NEW s, NEW at \in Nat, NEW es \in Seq(Nat), at < Len(es), NEW w, NEW k,
           r.inbox \in Seq(Nat), s.inbox = Append(r.inbox, es[at + 1]), s.seen = r.seen, s.run = r.run,
           s.lagged = r.lagged, Reached(r, at, es, w, k)
    PROVE  Reached(s, at + 1, es, w, k)
<1>1. at + 1 \in DOMAIN es /\ DOMAIN es = 1..Len(es) /\ es[at + 1] \in Nat
  OBVIOUS
<1>2. Range(s.inbox) = Range(r.inbox) \cup {es[at + 1]}
  BY <1>1, AppendRange
<1>3. ASSUME NEW i \in DOMAIN es, i > at, es[i] = k
      PROVE  k \in Range(s.inbox) \/ (i > at + 1 /\ es[i] = k)
  <2>1. i = at + 1 \/ i > at + 1
    BY <1>1, <1>3
  <2> QED
    BY <1>2, <1>3, <2>1
<1> QED
  BY <1>2, <1>3 DEF Reached

\* A page that was not cut off closes the gap, a live event moves from the
\* room to the channel and from there to the client.
LEMMA OwnStepKeepsGap ==
    ASSUME GapInv, NEW u \in wiring.readers,
           Subscribe(u) \/ Replay(u) \/ Forward(u) \/ Read(u) \/ Close(u)
    PROVE  ReaderOK(u)' /\ NoGap(u)'
<1>1. PICK r \in ReaderFields : r = reader[u] /\ u \in Readers /\ reader \in [Readers -> ReaderFields]
                                /\ IsFiniteSet(r.seen)
  BY DEF GapInv, PipelineInv, PipelineTypeOK
<1>2. PICK run \in Runs : run = r.run
  BY DEF ReaderFields
<1>3. /\ wiring' = wiring /\ log' = log /\ work' = work /\ room' = room /\ unpublished' = unpublished
      /\ reader'[u].run = run /\ Complement(run)' = Complement(run) /\ (Shared(u) => Shared(u)')
  BY <1>1, <1>2, OneReader
<1>4. PICK es \in Seq(Nat) : es = room[run] /\ Len(es) \in Nat
  BY DEF GapInv, PipelineInv, PipelineTypeOK
<1>5. PICK w, at : w = work[Bridge] /\ at = At(u)
  OBVIOUS
<1>6. /\ r.inbox \in Seq(Nat) /\ r.cursor \in Nat /\ r.after \in Nat /\ r.seen \in SUBSET Nat
      /\ consumer \in [Runs -> Nat \cup {None}]
  BY DEF ReaderFields, GapInv, PipelineInv, PipelineTypeOK
<1>7. /\ r.pc # "off" => r.joined /\ at \in Nat /\ at <= Len(es)
      /\ r.pc = "opened" => 1..r.after \subseteq r.seen
  BY <1>1, <1>2, <1>4, <1>5 DEF GapInv, ReaderOK
<1>8. r.pc = "live" /\ ~r.full /\ ~Shared(u) => \A k \in Complement(run) : Reached(r, at, es, w, k)
  BY <1>1, <1>2, <1>4, <1>5 DEF GapInv, NoGap
\* It suffices that the reader's new record has no gap at its new place.
<1>9. ASSUME NEW s, reader'[u] = s, s.run = run,
             s.pc # "off" => s.joined /\ At(u)' \in Nat /\ At(u)' <= Len(es),
             s.pc = "opened" => 1..s.after \subseteq s.seen,
             s.pc = "live" /\ ~s.full /\ ~Shared(u) => \A k \in Complement(run) : Reached(s, At(u)', es, w, k)
      PROVE  ReaderOK(u)' /\ NoGap(u)'
  <2>1. ReaderOK(u)'
    BY <1>3, <1>4, <1>9 DEF ReaderOK
  <2>2. NoGap(u)'
    <3>1. PICK be : be = At(u)'
      OBVIOUS
    <3>2. s.pc = "live" /\ ~s.full /\ ~Shared(u)' => \A k \in Complement(run) : Reached(s, be, es, w, k)
      BY <1>3, <1>9, <3>1
    <3> QED
      BY <1>3, <1>4, <1>5, <1>9, <3>1, <3>2 DEF NoGap
  <2> QED
    BY <2>1, <2>2
<1>10. ASSUME reader'[u].pc = "off"
       PROVE  ReaderOK(u)' /\ NoGap(u)'
  BY <1>10 DEF ReaderOK, NoGap
<1>11. CASE Subscribe(u)
  <2>1. PICK s : s = [r EXCEPT !.pc = "opened", !.cursor = Len(es), !.inbox = <<>>,
                            !.after = Complete(r.seen), !.lagged = FALSE, !.full = FALSE, !.joined = TRUE]
    OBVIOUS
  <2>2. s.pc = "opened" /\ s.run = run /\ s.joined = TRUE /\ s.cursor = Len(es) /\ s.seen = r.seen
        /\ s.after = Complete(r.seen)
    BY <1>2, <2>1 DEF ReaderFields
  <2>3. reader' = [reader EXCEPT ![u] = s]
    BY <1>1, <1>2, <1>4, <1>11, <2>1 DEF Subscribe
  <2>4. reader'[u] = s
    BY <1>1, <2>3
  <2>5. 1..s.after \subseteq s.seen
    BY <1>1, <1>6, <2>2, CompletePrefix
  <2>6. At(u)' \in Nat /\ At(u)' <= Len(es)
    <3>1. CASE wiring.adapter # "nats"
      BY <1>3, <1>4, <2>2, <2>4, <3>1 DEF At
    <3>2. CASE wiring.adapter = "nats"
      <4>1. At(u)' = consumer'[run]
        BY <1>3, <3>2 DEF At
      <4>2. consumer' = JoinConsumer(run)
        BY <1>1, <1>2, <1>11, <3>2 DEF Subscribe
      <4>3. CASE consumer[run] = None
        BY <1>4, <1>6, <4>1, <4>2, <4>3 DEF JoinConsumer
      <4>4. CASE consumer[run] # None
        <5>1. consumer'[run] = consumer[run] /\ consumer[run] \in Nat
          BY <1>6, <4>2, <4>4 DEF JoinConsumer
        <5>2. consumer[run] <= Len(es)
          BY <1>2, <1>4, <4>4 DEF GapInv, ConsumersOK
        <5> QED
          BY <4>1, <5>1, <5>2
      <4> QED
        BY <4>3, <4>4
    <3> QED
      BY <3>1, <3>2
  <2> QED
    BY <1>9, <2>2, <2>4, <2>5, <2>6
\* Either the request failed, or its page closes the gap.
<1>12. CASE Replay(u)
  <2>1. CASE reader' = [reader EXCEPT ![u].pc = "off", ![u].inbox = <<>>]
    <3>1. reader'[u].pc = "off"
      BY <1>1, <2>1 DEF ReaderFields
    <3> QED
      BY <1>10, <3>1
  <2>2. CASE reader' = [reader EXCEPT
                  ![u].pc = "live", ![u].full = CutOff(r.run, r.after),
                  ![u].seen = @ \cup {log[r.run][i].seq : i \in ListAfter(r.run, r.after)}]
    <3>1. PICK T : T = {log[r.run][i].seq : i \in ListAfter(r.run, r.after)}
      OBVIOUS
    <3>2. PICK s : s = [r EXCEPT !.pc = "live", !.full = CutOff(r.run, r.after), !.seen = @ \cup T]
      OBVIOUS
    <3>3. reader'[u] = s
      BY <1>1, <2>2, <3>1, <3>2
    <3>4. s.pc = "live" /\ s.run = run /\ s.joined = r.joined /\ s.full = CutOff(run, r.after) /\ s.seen = r.seen \cup T
          /\ s.cursor = r.cursor /\ T = {log[run][i].seq : i \in ListAfter(run, r.after)}
      BY <1>2, <3>1, <3>2 DEF ReaderFields
    <3>5. r.pc = "opened" /\ consumer' = consumer
      BY <1>1, <1>12 DEF Replay
    <3>6. At(u)' = at
      BY <1>1, <1>2, <1>3, <1>5, <3>3, <3>4, <3>5 DEF At
    <3>7. ASSUME ~s.full, NEW k \in Complement(run)
          PROVE  k \in s.seen
      <4>1. PICK i \in DOMAIN log[run] : k = log[run][i].seq
        BY <3>7 DEF Complement, Stored
      <4>2. k \in Nat /\ k >= 1
        <5>1. EntriesOK(run) /\ log[run][i] \in EntryFields
          BY <4>1, StoredAreNumbers DEF GapInv, PipelineInv
        <5> QED
          BY <4>1, <5>1 DEF EntriesOK, EntryFields
      <4>3. CASE k > r.after
        <5>1. i \in After(run, r.after)
          BY <4>1, <4>3 DEF After
        <5>2. ListAfter(run, r.after) = After(run, r.after)
          BY <3>4, <3>7, PageIsWhole DEF GapInv, PipelineInv
        <5> QED
          BY <3>4, <4>1, <5>1, <5>2
      <4>4. CASE ~(k > r.after)
        <5>1. k \in 1..r.after
          BY <1>6, <4>2, <4>4
        <5> QED
          BY <1>7, <3>4, <3>5, <5>1
      <4> QED
        BY <4>3, <4>4
    <3>8. ~s.full => \A k \in Complement(run) : Reached(s, At(u)', es, w, k)
      BY <3>7 DEF Reached
    <3> QED
      BY <1>7, <1>9, <3>3, <3>4, <3>5, <3>6, <3>8
  <2> QED
    BY <1>1, <1>12, <2>1, <2>2 DEF Replay
\* The forwarder takes the next event, or is told that it lags.
<1>13. ASSUME NEW a \in Nat, at < Len(es), Take(u, es[at + 1], a), At(u)' = at + 1
       PROVE  ReaderOK(u)' /\ NoGap(u)'
  <2>1. r.pc # "off" /\ reader' = [reader EXCEPT ![u].inbox = Append(@, es[at + 1]), ![u].cursor = a]
    BY <1>1, <1>13 DEF Take
  <2>2. PICK s : s = [r EXCEPT !.inbox = Append(@, es[at + 1]), !.cursor = a]
    OBVIOUS
  <2>3. reader'[u] = s /\ s.inbox = Append(r.inbox, es[at + 1]) /\ s.run = run /\ s.pc = r.pc /\ s.full = r.full
        /\ s.joined = r.joined /\ s.seen = r.seen /\ s.lagged = r.lagged /\ s.after = r.after
    BY <1>1, <1>2, <2>1, <2>2 DEF ReaderFields
  <2>4. at \in Nat /\ at + 1 \in Nat /\ at + 1 <= Len(es)
    BY <1>4, <1>7, <1>13, <2>1
  <2>5. ASSUME s.pc = "live", ~s.full, ~Shared(u), NEW k \in Complement(run)
        PROVE  Reached(s, at + 1, es, w, k)
    <3>1. Reached(r, at, es, w, k)
      BY <1>8, <2>3, <2>5
    <3> QED
      BY <1>2, <1>6, <1>13, <2>3, <2>4, <3>1, MovedToInbox
  <2> QED
    BY <1>7, <1>9, <1>13, <2>1, <2>3, <2>4, <2>5
<1>14. CASE Forward(u)
  <2>1. CASE ForwardMemory(u)
    <3>1. /\ wiring.adapter = "memory" /\ r.cursor < Len(es) /\ consumer' = consumer
          /\ IF Lagging(es, r.cursor) THEN Take(u, Lagged, CatchUp(es, r.cursor))
             ELSE Take(u, es[r.cursor + 1], r.cursor + 1)
      BY <1>1, <1>2, <1>4, <2>1 DEF ForwardMemory
    <3>2. at = r.cursor
      BY <1>1, <1>5, <3>1 DEF At
    <3>3. ASSUME NEW item, NEW a, Take(u, item, a)
          PROVE  At(u)' = a
      BY <1>1, <1>3, <3>1, <3>3 DEF Take, At, ReaderFields
    <3>4. CASE ~Lagging(es, r.cursor)
      <4>1. Take(u, es[at + 1], at + 1) /\ at + 1 \in Nat
        BY <1>6, <3>1, <3>2, <3>4
      <4> QED
        BY <1>13, <3>1, <3>2, <3>3, <4>1
    <3>5. CASE Lagging(es, r.cursor)
      <4>1. PICK a \in Nat : a = Len(es) - Capacity /\ a <= Len(es)
        <5>1. Len(es) - Capacity \in Nat /\ Len(es) - Capacity <= Len(es)
          BY <1>4, <1>6, <3>5, EventsAssumption DEF Lagging
        <5> QED
          BY <5>1
      <4>2. Take(u, Lagged, a)
        BY <3>1, <3>5, <4>1 DEF CatchUp
      <4>3. PICK s : s = [r EXCEPT !.inbox = Append(@, Lagged), !.cursor = a]
        OBVIOUS
      <4>4. /\ r.pc # "off" /\ reader'[u] = s /\ s.inbox = Append(r.inbox, Lagged) /\ s.run = run /\ s.pc = r.pc
            /\ s.joined = r.joined /\ s.seen = r.seen /\ s.after = r.after
        BY <1>1, <1>2, <4>2, <4>3 DEF Take, ReaderFields
      <4>5. Lagged \in Range(s.inbox)
        <5>1. Lagged \in Nat
          BY DEF Lagged
        <5> QED
          BY <1>6, <4>4, <5>1, AppendRange
      <4>6. \A k : Reached(s, At(u)', es, w, k)
        BY <4>5 DEF Reached
      <4> QED
        BY <1>7, <1>9, <3>3, <4>1, <4>2, <4>4, <4>6
    <3> QED
      BY <3>4, <3>5
  <2>2. CASE ForwardRedis(u)
    <3>1. /\ wiring.adapter = "redis" /\ r.cursor < Len(es) /\ consumer' = consumer
          /\ Take(u, es[r.cursor + 1], r.cursor + 1)
      BY <1>1, <1>2, <1>4, <2>2 DEF ForwardRedis
    <3>2. at = r.cursor
      BY <1>1, <1>5, <3>1 DEF At
    <3>3. At(u)' = at + 1
      BY <1>1, <1>3, <3>1, <3>2 DEF Take, At, ReaderFields
    <3>4. at + 1 \in Nat /\ Take(u, es[at + 1], at + 1) /\ at < Len(es)
      BY <1>6, <3>1, <3>2
    <3> QED
      BY <1>13, <3>3, <3>4
  <2>3. CASE ForwardNats(u)
    <3>1. at = consumer[run] /\ wiring.adapter = "nats"
      BY <1>1, <1>2, <1>5, <2>3 DEF At, ForwardNats
    <3>2. /\ at # None /\ at < Len(es) /\ Take(u, es[at + 1], at + 1)
          /\ consumer' = [consumer EXCEPT ![run] = at + 1]
      BY <1>1, <1>2, <1>4, <2>3, <3>1 DEF ForwardNats
    <3>3. At(u)' = at + 1
      BY <1>3, <1>6, <3>1, <3>2 DEF At
    <3>4. at + 1 \in Nat
      BY <1>6, <3>1, <3>2
    <3> QED
      BY <1>13, <3>2, <3>3, <3>4
  <2> QED
    BY <1>14, <2>1, <2>2, <2>3 DEF Forward
<1>15. CASE Read(u)
  <2>1. PICK item : item = Head(r.inbox)
    OBVIOUS
  <2>2. /\ r.inbox # <<>> /\ consumer' = consumer /\ r.pc = "live"
        /\ reader' = [reader EXCEPT ![u].inbox = Tail(@), ![u].lagged = @ \/ item = Lagged,
                                    ![u].seen = IF item = Lagged THEN @ ELSE @ \cup {item}]
    BY <1>1, <1>15, <2>1 DEF Read
  <2>3. PICK s : s = reader'[u]
    OBVIOUS
  <2>4. /\ s.inbox = Tail(r.inbox) /\ s.run = run /\ s.pc = "live" /\ s.full = r.full /\ s.joined = r.joined
        /\ s.cursor = r.cursor /\ s.lagged = (r.lagged \/ item = Lagged)
        /\ s.seen = IF item = Lagged THEN r.seen ELSE r.seen \cup {item}
    BY <1>1, <1>2, <2>2, <2>3 DEF ReaderFields
  <2>5. Range(r.inbox) = Range(s.inbox) \cup {item}
    BY <1>6, <2>1, <2>2, <2>4, TailRange
  <2>6. At(u)' = at
    BY <1>1, <1>2, <1>3, <1>5, <2>2, <2>3, <2>4 DEF At
  <2>7. ASSUME NEW k, Reached(r, at, es, w, k)
        PROVE  Reached(s, at, es, w, k)
    <3>1. r.lagged \/ Lagged \in Range(r.inbox) => s.lagged \/ Lagged \in Range(s.inbox)
      BY <2>4, <2>5
    <3>2. k \in r.seen \/ k \in Range(r.inbox) => k \in s.seen \/ k \in Range(s.inbox) \/ s.lagged
      BY <2>4, <2>5
    <3> QED
      BY <1>2, <2>4, <2>7, <3>1, <3>2 DEF Reached
  <2>8. s.pc = "live" /\ ~s.full /\ ~Shared(u) => \A k \in Complement(run) : Reached(s, At(u)', es, w, k)
    BY <1>8, <2>2, <2>4, <2>6, <2>7
  <2> QED
    BY <1>7, <1>9, <2>2, <2>3, <2>4, <2>6, <2>8
<1>16. CASE Close(u)
  <2>1. reader'[u].pc = "off"
    BY <1>1, <1>16 DEF Close, ReaderFields
  <2> QED
    BY <1>10, <2>1
<1> QED
  BY <1>11, <1>12, <1>14, <1>15, <1>16

LEMMA ConsumersKeep ==
    ASSUME GapInv, [PipelineNext]_<<eventVars, pipelineVars>>
    PROVE  ConsumersOK'
<1>0. /\ consumer \in [Runs -> Nat \cup {None}] /\ \A run \in Runs : room[run] \in Seq(Nat)
      /\ ConsumersOK
  BY DEF GapInv, PipelineInv, PipelineTypeOK
<1>1. CASE Writes
  <2>1. ASSUME NEW run \in Runs, consumer[run] # None
        PROVE  consumer[run] <= Len(room'[run])
    <3>1. PICK c \in Nat : c = consumer[run]
      BY <1>0, <2>1
    <3>2. PICK es \in Seq(Nat), n \in Nat : es = room[run] /\ n = Len(es) /\ c <= n
      BY <1>0, <2>1, <3>1 DEF ConsumersOK
    <3>3. room'[run] = es \/ \E k \in Nat : room'[run] = Append(es, k)
      BY <1>1, <3>2, WritersLeaveNoGap DEF GapInv, StepsOn
    <3>4. \A k \in Nat : Len(Append(es, k)) = n + 1
      BY <3>2
    <3> QED
      BY <3>1, <3>2, <3>3, <3>4
  <2>2. consumer' = consumer
    <3>1. \A run \in Runs : consumer' = consumer
      BY <1>1, WritersLeaveNoGap DEF GapInv
    <3>2. CASE Runs = {}
      BY <1>1, PipelineAssumption, <3>2 DEF Writes, RunEmits, Emit, BridgeReceives, PublishToRun, PublishToSession,
         Abort, Spawn, AppendMemory, CacheSession, ReadSession, IncrSeq, XAdd, SubquerySeq, InsertRow, RoundTripFails, ReplyLost
    <3> QED
      BY <3>1, <3>2
  <2> QED
    BY <2>1, <2>2 DEF ConsumersOK
<1>2. CASE UNCHANGED <<eventVars, pipelineVars>>
  BY <1>0, <1>2 DEF pipelineVars, ConsumersOK
<1>3. ASSUME NEW u \in wiring.readers, Subscribe(u) \/ Replay(u) \/ Forward(u) \/ Read(u) \/ Close(u)
      PROVE  ConsumersOK'
  <2>1. room' = room
    BY <1>3, OneReader
  <2>2. PICK run \in Runs, n \in Nat : run = reader[u].run /\ n = Len(room[run])
    BY <1>0 DEF GapInv, PipelineInv, PipelineTypeOK, ReaderFields
  <2>3. CASE consumer' = consumer
    BY <1>0, <2>1, <2>3 DEF ConsumersOK
  <2>4. CASE Subscribe(u)
    <3>1. consumer' = consumer \/ consumer' = [consumer EXCEPT ![run] = n]
      BY <2>2, <2>4 DEF Subscribe, JoinConsumer
    <3> QED
      BY <1>0, <2>1, <2>2, <3>1 DEF ConsumersOK
  <2>5. CASE ForwardNats(u)
    <3>1. PICK c : c = consumer[run]
      OBVIOUS
    <3>2. c # None /\ c < n /\ consumer' = [consumer EXCEPT ![run] = c + 1]
      BY <2>2, <2>5, <3>1 DEF ForwardNats
    <3>3. c \in Nat /\ c + 1 <= n
      BY <1>0, <3>1, <3>2
    <3> QED
      BY <1>0, <2>1, <2>2, <3>2, <3>3 DEF ConsumersOK
  <2> QED
    BY <1>3, <2>3, <2>4, <2>5 DEF Replay, Forward, ForwardMemory, ForwardRedis, Read, Close
<1> QED
  BY <1>1, <1>2, <1>3 DEF PipelineNext, Writes

LEMMA GapInvHolds == PipelineSpec => []GapInv
<1>1. ASSUME EventsInit, PipelineInit, PipelineInv
      PROVE  GapInv
  <2>1. \A u \in Readers : reader[u].pc = "off"
    BY <1>1 DEF PipelineInit
  <2>2. wiring.readers \subseteq Readers
    BY <1>1 DEF PipelineInv, PipelineTypeOK
  <2>3. ConsumersOK
    BY <1>1 DEF PipelineInit, ConsumersOK
  <2> QED
    BY <1>1, <2>1, <2>2, <2>3 DEF GapInv, ReaderOK, NoGap
<1>2. ASSUME GapInv, PipelineInv', [PipelineNext]_<<eventVars, pipelineVars>>
      PROVE  GapInv'
  <2>1. ASSUME NEW u \in wiring'.readers
        PROVE  ReaderOK(u)' /\ NoGap(u)'
    <3>1. CASE Writes
      <4>1. wiring' = wiring
        BY <3>1 DEF Writes, RunEmits, Emit, BridgeReceives, PublishToRun, PublishToSession, Abort, Spawn,
           AppendMemory, CacheSession, ReadSession, IncrSeq, XAdd, SubquerySeq, InsertRow, RoundTripFails, ReplyLost, eventVars
      <4> QED
        BY <1>2, <2>1, <3>1, <4>1, WritersKeepGap
    <3>2. ASSUME NEW v \in wiring.readers, Subscribe(v) \/ Replay(v) \/ Forward(v) \/ Read(v) \/ Close(v)
          PROVE  ReaderOK(u)' /\ NoGap(u)'
      <4>1. wiring' = wiring
        BY <1>2, <3>2, OneReader
      <4>2. CASE u = v
        BY <1>2, <3>2, <4>2, OwnStepKeepsGap
      <4>3. CASE u # v
        BY <1>2, <2>1, <3>2, <4>1, <4>3, OthersKeepGap
      <4> QED
        BY <4>2, <4>3
    <3>3. CASE UNCHANGED <<eventVars, pipelineVars>>
      <4>1. ReaderOK(u) /\ NoGap(u)
        BY <1>2, <2>1, <3>3 DEF GapInv, eventVars
      <4> QED
        BY <3>3, <4>1 DEF eventVars, pipelineVars, ReaderOK, NoGap, At, Shared, Complement, Stored
    <3> QED
      BY <1>2, <3>1, <3>2, <3>3 DEF PipelineNext, Writes
  <2>2. ConsumersOK'
    BY <1>2, ConsumersKeep
  <2> QED
    BY <1>2, <2>1, <2>2 DEF GapInv
<1> QED
  BY <1>1, <1>2, PipelineInvHolds, PTL DEF PipelineSpec

\* Replay and live stream leave no gap between them: a connected reader has
\* every stored event, or it is on its way, unless its page was cut off, it
\* was warned, it shares a NATS consumer, or nobody will publish the event.
THEOREM NoEventIsLost == PipelineSpec => []NothingLost
<1>1. ASSUME GapInv
      PROVE  NothingLost
  <2>1. ASSUME NEW u \in wiring.readers, reader[u].pc = "live", ~reader[u].full, ~Shared(u),
               NEW k \in Stored(reader[u].run) \ unpublished[reader[u].run]
        PROVE  k \in reader[u].seen \/ OnTheWay(u, k) \/ Warned(u)
    <3>1. Reached(reader[u], At(u), room[reader[u].run], work[Bridge], k)
      BY <1>1, <2>1 DEF GapInv, NoGap, Complement
    <3> QED
      BY <3>1 DEF Reached, At, OnTheWay, Warned
  <2> QED
    BY <2>1 DEF NothingLost
<1> QED
  BY <1>1, GapInvHolds, PTL

-----------------------------------------------------------------------------
(* Cancellation of listeners and the sessions they know of, for any number   *)
(* of listeners, of runs and of events.                                      *)
InvocationSpec ==
    /\ EventsInit /\ InvocationInit
    /\ [][InvocationNext]_<<eventVars, invocationVars>>

ListenerFields ==
    [filter : {AnyKind, "RunStarted", "TextDelta"}, pc : {"off", "recv", "session", "spawn", "stopped"},
     cursor : Int, from : Int, held : Int,
     known : BOOLEAN, cancelled : BOOLEAN, lagged : BOOLEAN, late : Nat]

\* Only a cancellation between the look at the flag and the spawn is late,
\* and the next look at the flag ends the loop.
NoneLateInHand(s) ==
    /\ s.late <= 1
    /\ s.cancelled = FALSE => s.late = 0
    /\ s.pc \in {"session", "spawn"} => s.late = 0

InvocationInv ==
    /\ emitted \in Seq([run : Runs, kind : Kinds, n : Int])
    /\ listener \in [wiring.listeners -> ListenerFields]
    /\ \A l \in wiring.listeners : NoneLateInHand(listener[l])

\* A listener's record keeps its type when on, receive and spawn write to it.
LEMMA FieldsKept ==
    ASSUME NEW r \in ListenerFields
    PROVE  /\ \A c \in Int : [r EXCEPT !.pc = "recv", !.cursor = c, !.from = c] \in ListenerFields
           /\ \A c \in Int, d \in Int, p \in {"recv", "session"} :
                [r EXCEPT !.cursor = c, !.pc = p, !.held = d] \in ListenerFields
           /\ \A n \in Nat : [r EXCEPT !.pc = "recv", !.late = n] \in ListenerFields
BY DEF ListenerFields

\* What an action does to one listener is all that matters.
LEMMA OneListener ==
    ASSUME InvocationInv, NEW l \in wiring.listeners, NEW s \in ListenerFields, NoneLateInHand(s),
           wiring' = wiring, emitted' = emitted, listener' = [listener EXCEPT ![l] = s]
    PROVE  InvocationInv'
BY DEF InvocationInv

\* spawn_listener's loop, the handlers and emit keep the invariant.
LEMMA InvocationStep ==
    InvocationInv /\ [InvocationNext]_<<eventVars, invocationVars>> => InvocationInv'
<1> SUFFICES ASSUME InvocationInv, [InvocationNext]_<<eventVars, invocationVars>>
             PROVE  InvocationInv'
  OBVIOUS
<1>0. ASSUME NEW l \in wiring.listeners
      PROVE  listener[l] \in ListenerFields /\ NoneLateInHand(listener[l]) /\ Len(emitted) \in Nat
  BY DEF InvocationInv
<1>1. ASSUME NEW run \in Runs, EmitRequest(run)
      PROVE  InvocationInv'
  BY <1>1 DEF EmitRequest, eventVars, InvocationInv
<1>2. ASSUME NEW run \in Runs, NEW kind \in Kinds, InvokedRunEmits(run, kind)
      PROVE  InvocationInv'
  <2>1. /\ emitted' = Append(emitted, [run |-> run, kind |-> kind, n |-> Len(emitted) + 1])
        /\ wiring' = wiring /\ listener' = listener
    BY <1>2 DEF InvokedRunEmits, Emit, invocationVars
  <2>2. [run |-> run, kind |-> kind, n |-> Len(emitted) + 1] \in [run : Runs, kind : Kinds, n : Int]
    BY DEF InvocationInv
  <2>3. emitted' \in Seq([run : Runs, kind : Kinds, n : Int])
    BY <2>1, <2>2 DEF InvocationInv
  <2> QED
    BY <2>1, <2>3 DEF InvocationInv
<1>3. ASSUME NEW l \in wiring.listeners, On(l)
      PROVE  InvocationInv'
  <2> DEFINE s == [listener[l] EXCEPT !.pc = "recv", !.cursor = Len(emitted), !.from = Len(emitted)]
  <2>1. s \in ListenerFields /\ NoneLateInHand(s)
    <3> DEFINE c == Len(emitted)
    <3>1. s \in ListenerFields
      <4>1. listener[l] \in ListenerFields /\ c \in Int
        BY <1>0
      <4> HIDE DEF c
      <4>2. [listener[l] EXCEPT !.pc = "recv", !.cursor = c, !.from = c] \in ListenerFields
        BY <4>1, FieldsKept
      <4> QED
        BY <4>2 DEF c
    <3>2. s.pc = "recv" /\ s.late = listener[l].late /\ s.cancelled = listener[l].cancelled
      BY <1>0 DEF ListenerFields
    <3> QED
      BY <1>0, <3>1, <3>2 DEF NoneLateInHand
  <2>2. listener' = [listener EXCEPT ![l] = s] /\ wiring' = wiring /\ emitted' = emitted
    BY <1>3 DEF On, eventVars
  <2> QED
    BY <2>1, <2>2, OneListener
<1>4. ASSUME NEW l \in wiring.listeners, Receive(l)
      PROVE  InvocationInv'
  <2> DEFINE s == IF Lagging(emitted, listener[l].cursor)
                  THEN [listener[l] EXCEPT !.cursor = CatchUp(emitted, listener[l].cursor), !.lagged = TRUE]
                  ELSE IF Stops(listener[l]) THEN [listener[l] EXCEPT !.pc = "stopped"]
                  ELSE [listener[l] EXCEPT !.cursor = listener[l].cursor + 1,
                                           !.pc = IF Matches(listener[l].filter, emitted[listener[l].cursor + 1])
                                                  THEN "session" ELSE "recv",
                                           !.held = listener[l].cursor + 1]
  <2>1. s \in ListenerFields /\ NoneLateInHand(s)
    <3>1. listener[l].pc = "recv" /\ CatchUp(emitted, listener[l].cursor) \in Int
      BY <1>0, <1>4, EventsAssumption DEF Receive, CatchUp
    <3> DEFINE r == listener[l]
               ahead == [r EXCEPT !.cursor = CatchUp(emitted, r.cursor), !.lagged = TRUE]
               stopped == [r EXCEPT !.pc = "stopped"]
               next(pc) == [r EXCEPT !.cursor = r.cursor + 1, !.pc = pc, !.held = r.cursor + 1]
    <3>2. r \in ListenerFields /\ NoneLateInHand(r)
      BY <1>0
    <3>3. ahead \in ListenerFields /\ NoneLateInHand(ahead)
      BY <3>1, <3>2 DEF ListenerFields, NoneLateInHand
    <3>4. stopped \in ListenerFields /\ NoneLateInHand(stopped)
      BY <3>1, <3>2 DEF ListenerFields, NoneLateInHand
    <3>5. ASSUME NEW pc \in {"session", "recv"}, r.cancelled = FALSE
          PROVE  next(pc) \in ListenerFields /\ NoneLateInHand(next(pc))
      <4>1. r.cursor + 1 \in Int
        BY <3>2 DEF ListenerFields
      <4>2. next(pc) \in ListenerFields
        BY <3>2, <3>5, <4>1, FieldsKept
      <4>3. next(pc).late = r.late /\ next(pc).cancelled = FALSE
        BY <3>2, <3>5 DEF ListenerFields
      <4> QED
        BY <3>2, <3>5, <4>2, <4>3 DEF NoneLateInHand
    <3>6. r.cancelled \in BOOLEAN
      BY <3>2 DEF ListenerFields
    <3>7. CASE Lagging(emitted, r.cursor)
      BY <3>3, <3>7
    <3>8. CASE ~Lagging(emitted, r.cursor) /\ r.cancelled
      BY <3>4, <3>8 DEF Stops
    <3>9. CASE ~Lagging(emitted, r.cursor) /\ ~r.cancelled
      <4>1. s = next("session") \/ s = next("recv")
        BY <3>9 DEF Stops
      <4> QED
        BY <3>5, <3>6, <3>9, <4>1
    <3> QED
      BY <3>6, <3>7, <3>8, <3>9
  <2>2. listener' = [listener EXCEPT ![l] = s] /\ wiring' = wiring /\ emitted' = emitted
    BY <1>4 DEF Receive, eventVars
  <2> QED
    BY <2>1, <2>2, OneListener
<1>5. ASSUME NEW l \in wiring.listeners, LookUpSession(l)
      PROVE  InvocationInv'
  <2> DEFINE s == [listener[l] EXCEPT !.pc = "spawn",
                                      !.known = emitted[listener[l].held].run \in sessionMap']
  <2>1. s \in ListenerFields /\ NoneLateInHand(s)
    <3>1. listener[l].pc = "session"
      BY <1>5 DEF LookUpSession
    <3>2. (emitted[listener[l].held].run \in sessionMap') \in BOOLEAN
      OBVIOUS
    <3>3. s \in ListenerFields
      BY <1>0, <3>2 DEF ListenerFields
    <3>4. s.pc = "spawn" /\ s.late = listener[l].late /\ s.cancelled = listener[l].cancelled
      BY <1>0 DEF ListenerFields
    <3> QED
      BY <1>0, <3>1, <3>3, <3>4 DEF NoneLateInHand
  <2>2. listener' = [listener EXCEPT ![l] = s] /\ wiring' = wiring /\ emitted' = emitted
    BY <1>5 DEF LookUpSession, eventVars
  <2> QED
    BY <2>1, <2>2, OneListener
<1>6. ASSUME NEW l \in wiring.listeners, SpawnHandler(l)
      PROVE  InvocationInv'
  <2> DEFINE s == [listener[l] EXCEPT !.pc = "recv",
                                      !.late = IF listener[l].cancelled THEN listener[l].late + 1
                                               ELSE listener[l].late]
  <2>1. s \in ListenerFields /\ NoneLateInHand(s)
    <3>1. listener[l].pc = "spawn"
      BY <1>6 DEF SpawnHandler
    <3>2. listener[l].late = 0
      BY <1>0, <3>1 DEF NoneLateInHand
    <3>3. s \in ListenerFields
      <4> DEFINE n == IF listener[l].cancelled THEN listener[l].late + 1 ELSE listener[l].late
      <4>1. listener[l] \in ListenerFields /\ n \in Nat
        BY <1>0, <3>2
      <4> HIDE DEF n
      <4>2. [listener[l] EXCEPT !.pc = "recv", !.late = n] \in ListenerFields
        BY <4>1, FieldsKept
      <4> QED
        BY <4>2 DEF n
    <3>4. /\ s.pc = "recv" /\ s.cancelled = listener[l].cancelled
          /\ s.late = IF listener[l].cancelled THEN 1 ELSE 0
      BY <1>0, <3>2 DEF ListenerFields
    <3>5. listener[l].cancelled \in BOOLEAN
      BY <1>0 DEF ListenerFields
    <3> QED
      BY <3>3, <3>4, <3>5 DEF NoneLateInHand
  <2>2. listener' = [listener EXCEPT ![l] = s] /\ wiring' = wiring /\ emitted' = emitted
    BY <1>6 DEF SpawnHandler, eventVars
  <2> QED
    BY <2>1, <2>2, OneListener
<1>7. ASSUME NEW l \in wiring.listeners, CancelByHandler(l)
      PROVE  InvocationInv'
  <2> DEFINE s == [listener[l] EXCEPT !.cancelled = TRUE]
  <2>1. s \in ListenerFields /\ NoneLateInHand(s)
    BY <1>0 DEF ListenerFields, NoneLateInHand
  <2>2. listener' = [listener EXCEPT ![l] = s] /\ wiring' = wiring /\ emitted' = emitted
    BY <1>7 DEF CancelByHandler, eventVars
  <2> QED
    BY <2>1, <2>2, OneListener
<1>8. ASSUME NEW l \in wiring.listeners, AbortListener(l)
      PROVE  InvocationInv'
  <2> DEFINE s == [listener[l] EXCEPT !.pc = "stopped"]
  <2>1. s \in ListenerFields /\ NoneLateInHand(s)
    BY <1>0 DEF ListenerFields, NoneLateInHand
  <2>2. listener' = [listener EXCEPT ![l] = s] /\ wiring' = wiring /\ emitted' = emitted
    BY <1>8 DEF AbortListener, eventVars
  <2> QED
    BY <2>1, <2>2, OneListener
<1>9. ASSUME NEW n \in publishing, QueuePublish(n) /\ UNCHANGED invocationVars
      PROVE  InvocationInv'
  BY <1>9 DEF QueuePublish, invocationVars, InvocationInv
<1>10. CASE UNCHANGED <<eventVars, invocationVars>>
  BY <1>10 DEF eventVars, invocationVars, InvocationInv
<1> QED
  BY <1>1, <1>2, <1>3, <1>4, <1>5, <1>6, <1>7, <1>8, <1>9, <1>10 DEF InvocationNext

\* The listeners of a new invocation are off, and nothing has been sent.
LEMMA InvocationStart ==
    EventsInit /\ InvocationInit => InvocationInv
<1>1. SUFFICES ASSUME EventsInit, InvocationInit
               PROVE  InvocationInv
  OBVIOUS
<1>2. emitted \in Seq([run : Runs, kind : Kinds, n : Int])
  <2>1. emitted = <<>>
    BY <1>1 DEF EventsInit
  <2> QED
    BY <2>1
<1> DEFINE Fresh(k) == [filter |-> k, pc |-> "off", cursor |-> 0, from |-> 0, held |-> 0,
                        known |-> FALSE, cancelled |-> FALSE, lagged |-> FALSE, late |-> 0]
           FreshOnes == {Fresh(k) : k \in {AnyKind, "RunStarted", "TextDelta"}}
<1>5. listener \in [wiring.listeners -> FreshOnes]
  BY <1>1 DEF InvocationInit
<1>6. \A s \in FreshOnes : s \in ListenerFields /\ s.late = 0
  <2>1. ASSUME NEW k \in {AnyKind, "RunStarted", "TextDelta"}
        PROVE  Fresh(k) \in ListenerFields /\ Fresh(k).late = 0
    BY DEF ListenerFields
  <2> HIDE DEF Fresh
  <2> QED
    BY <2>1
<1> HIDE DEF FreshOnes
<1>3. ASSUME NEW l \in wiring.listeners
      PROVE  listener[l] \in ListenerFields /\ listener[l].late = 0
  BY <1>5, <1>6
<1>4. listener \in [wiring.listeners -> ListenerFields]
  BY <1>3, <1>5
<1> QED
  BY <1>2, <1>3, <1>4 DEF InvocationInv, NoneLateInHand

\* Control::is_cancelled in the listener loop: once a handler has cancelled,
\* at most the one event in hand is still dispatched, whatever the filters, the
\* lag and the order of listeners, handlers and runs.
THEOREM CancelIsPrompt == InvocationSpec => []CancelStopsDispatch
<1>1. InvocationInv => CancelStopsDispatch
  BY DEF InvocationInv, NoneLateInHand, CancelStopsDispatch
<1> QED
  BY InvocationStart, <1>1, InvocationStep, PTL DEF InvocationSpec

-----------------------------------------------------------------------------
(* Sessions.                                                               *)

\* Event i is the start of its run, and the listener was there to see it.
Witnessed(s, i) ==
    i > s.from /\ ~s.lagged /\ emitted[i].kind = "RunStarted" /\ Matches(s.filter, emitted[i])

\* The event a run starts with precedes its other events.
StartsComeFirst ==
    \A i, j \in DOMAIN emitted :
        emitted[i].kind = "RunStarted" /\ emitted[j].run = emitted[i].run => i <= j

Placed(s) ==
    /\ 0 <= s.from /\ s.from <= s.cursor /\ s.cursor <= Len(emitted)
    /\ s.pc = "off" => s.cursor = 0
    /\ s.pc \in {"session", "spawn"} => (s.held = s.cursor /\ s.held > 0)

\* Every start the listener has received is in the map, or is being put there.
StartsMapped(s) ==
    \A i \in DOMAIN emitted :
        Witnessed(s, i) /\ i <= s.cursor
        => emitted[i].run \in sessionMap \/ (s.pc = "session" /\ s.held = i)

\* If the listener saw the run of event n start, it knows the session.
Informed(s, n, known) ==
    \A i \in DOMAIN emitted :
        Witnessed(s, i) /\ emitted[i].run = emitted[n].run => known

ListenerOK(s) ==
    Placed(s) /\ StartsMapped(s) /\ (s.pc = "spawn" => Informed(s, s.held, s.known))

HandlerOK(h, s) ==
    h.n \in DOMAIN emitted /\ h.n <= s.cursor /\ s.pc # "off" /\ Informed(s, h.n, h.known)

SessionsInv ==
    /\ InvocationInv
    /\ StartsComeFirst
    /\ \A l \in wiring.listeners : ListenerOK(listener[l])
    /\ \A h \in handlers : h.by \in wiring.listeners /\ HandlerOK(h, listener[h.by])

\* What a step may do to a listener that is on: it keeps its place or goes
\* forward, and a lag is not forgotten.
Follows(s, r) ==
    r.pc # "off" => /\ s.from = r.from /\ s.filter = r.filter /\ s.pc # "off"
                    /\ s.cursor >= r.cursor /\ (r.lagged => s.lagged)

\* One listener steps, and spawns at most handlers that are informed.
LEMMA OneListenerSteps ==
    ASSUME SessionsInv, InvocationInv', NEW l \in wiring.listeners, NEW s \in ListenerFields,
           wiring' = wiring, emitted' = emitted, listener' = [listener EXCEPT ![l] = s],
           sessionMap \subseteq sessionMap',
           Placed(s), StartsMapped(s)', s.pc = "spawn" => Informed(s, s.held, s.known),
           Follows(s, listener[l]),
           \A h \in handlers' : h \in handlers \/ (h.by = l /\ HandlerOK(h, s))
    PROVE  SessionsInv'
<1>1. /\ listener'[l] = s
      /\ \A k \in wiring.listeners : k # l => listener'[k] = listener[k]
  BY DEF SessionsInv, InvocationInv
<1>2. \A r, i : Witnessed(r, i)' <=> Witnessed(r, i)
  BY DEF Witnessed
<1>3. \A r, n, known : Informed(r, n, known)' <=> Informed(r, n, known)
  BY <1>2 DEF Informed
<1>4. \A r : Placed(r)' <=> Placed(r)
  BY DEF Placed
<1>5. \A r : StartsMapped(r) => StartsMapped(r)'
  BY <1>2 DEF StartsMapped
<1>6. \A h, r : HandlerOK(h, r)' <=> HandlerOK(h, r)
  BY <1>3 DEF HandlerOK
<1>7. ASSUME NEW k \in wiring.listeners'
      PROVE  ListenerOK(listener[k])'
  <2>1. CASE k = l
    <3>1. ListenerOK(s)'
      BY <1>3, <1>4 DEF ListenerOK
    <3> QED
      BY <1>1, <2>1, <3>1 DEF ListenerOK, Placed, StartsMapped, Informed, Witnessed
  <2>2. CASE k # l
    <3>1. ListenerOK(listener[k])
      BY DEF SessionsInv
    <3>2. listener'[k] = listener[k]
      BY <1>1, <2>2
    <3> DEFINE r == listener[k]
    <3>3. Placed(r) /\ StartsMapped(r) /\ (r.pc = "spawn" => Informed(r, r.held, r.known))
      BY <3>1 DEF ListenerOK
    <3> QED
      BY <3>2, <3>3 DEF ListenerOK, Placed, StartsMapped, Informed, Witnessed
  <2> QED
    BY <2>1, <2>2
<1>8. ASSUME NEW h \in handlers'
      PROVE  h.by \in wiring.listeners /\ HandlerOK(h, listener'[h.by])
  <2>1. CASE h.by = l /\ HandlerOK(h, s)
    BY <1>1, <2>1
  <2>2. CASE h \in handlers /\ h.by # l
    BY <1>1, <2>2 DEF SessionsInv
  <2>3. CASE h \in handlers /\ h.by = l
    <3> DEFINE r == listener[l]
    <3>1. HandlerOK(h, r)
      BY <2>3 DEF SessionsInv
    <3>2. r \in ListenerFields
      BY DEF SessionsInv, InvocationInv
    <3>3. \A i \in DOMAIN emitted : Witnessed(s, i) => Witnessed(r, i)
      BY <3>1 DEF Witnessed, Follows, HandlerOK
    <3>4. Informed(s, h.n, h.known)
      BY <3>1, <3>3 DEF HandlerOK, Informed
    <3>5. h.n <= s.cursor
      <4>1. h.n \in Int /\ r.cursor \in Int /\ s.cursor \in Int
        BY <3>1, <3>2 DEF HandlerOK, ListenerFields, SessionsInv, InvocationInv
      <4> QED
        BY <3>1, <4>1 DEF HandlerOK, Follows
    <3> QED
      BY <1>1, <2>3, <3>1, <3>4, <3>5 DEF HandlerOK, Follows
  <2> QED
    BY <2>1, <2>2, <2>3
<1>9. StartsComeFirst'
  BY DEF SessionsInv, StartsComeFirst
<1>10. \A h \in handlers' : (h.by \in wiring.listeners /\ HandlerOK(h, listener[h.by]))'
  BY <1>6, <1>8 DEF HandlerOK, Informed, Witnessed
<1> QED
  BY <1>7, <1>9, <1>10 DEF SessionsInv

\* An event is sent: no listener has received it, and if it starts a run then
\* no event of the run was sent before.
LEMMA EmitKeepsSessions ==
    ASSUME SessionsInv, InvocationInv', NEW run \in Runs, NEW kind \in Kinds,
           InvokedRunEmits(run, kind)
    PROVE  SessionsInv'
<1> DEFINE e == [run |-> run, kind |-> kind, n |-> Len(emitted) + 1]
           last == Len(emitted) + 1
<1>1. /\ emitted' = Append(emitted, e) /\ wiring' = wiring /\ MayEmit(run, kind)
      /\ listener' = listener /\ sessionMap' = sessionMap /\ handlers' = handlers
  BY DEF InvokedRunEmits, Emit, invocationVars
<1>2. /\ Len(emitted) \in Nat /\ DOMAIN emitted = 1..Len(emitted)
      /\ DOMAIN emitted' = 1..last /\ Len(emitted') = last /\ emitted'[last] = e
      /\ \A i \in DOMAIN emitted : emitted'[i] = emitted[i]
  BY <1>1 DEF SessionsInv, InvocationInv
<1>3. kind = "RunStarted" => \A i \in DOMAIN emitted : emitted[i].run # run
  BY <1>1 DEF MayEmit, Sent
<1>4. StartsComeFirst'
  <2>1. ASSUME NEW i \in DOMAIN emitted', NEW j \in DOMAIN emitted',
               emitted'[i].kind = "RunStarted", emitted'[j].run = emitted'[i].run
        PROVE  i <= j
    <3>1. CASE j = last
      BY <1>2, <3>1
    <3>2. CASE j # last /\ i = last
      <4>1. j \in DOMAIN emitted /\ emitted[j].run = run /\ kind = "RunStarted"
        BY <1>2, <2>1, <3>2
      <4> QED
        BY <1>3, <4>1
    <3>3. CASE j # last /\ i # last
      <4>1. i \in DOMAIN emitted /\ j \in DOMAIN emitted
        BY <1>2, <3>3
      <4> QED
        BY <1>2, <2>1, <4>1 DEF SessionsInv, StartsComeFirst
    <3> QED
      BY <3>1, <3>2, <3>3
  <2> QED
    BY <2>1 DEF StartsComeFirst
<1> HIDE DEF last, e
<1>5. ASSUME NEW s \in ListenerFields, Placed(s)
      PROVE  \A i \in DOMAIN emitted' : Witnessed(s, i)' /\ i <= s.cursor
                                        => i \in DOMAIN emitted /\ Witnessed(s, i)
  <2>1. s.cursor \in Int /\ s.cursor <= Len(emitted)
    BY <1>5 DEF Placed, ListenerFields
  <2>2. \A i \in DOMAIN emitted' : i <= s.cursor => i \in DOMAIN emitted
    BY <1>2, <2>1 DEF last
  <2> QED
    BY <1>2, <2>2 DEF Witnessed
<1>6. ASSUME NEW s \in ListenerFields, Placed(s), NEW n \in DOMAIN emitted, NEW known,
             n <= s.cursor, Informed(s, n, known)
      PROVE  Informed(s, n, known)'
  <2>1. ASSUME NEW i \in DOMAIN emitted', Witnessed(s, i)', emitted'[i].run = emitted'[n].run
        PROVE  known
    <3>1. n \in DOMAIN emitted' /\ emitted'[n] = emitted[n]
      BY <1>2 DEF last
    <3>2. i <= n
      BY <1>4, <2>1, <3>1 DEF StartsComeFirst, Witnessed
    <3>3. i <= s.cursor
      <4>1. i \in Int /\ n \in Int /\ s.cursor \in Int
        BY <1>2 DEF ListenerFields, last
      <4> QED
        BY <1>6, <3>2, <4>1
    <3>4. i \in DOMAIN emitted /\ Witnessed(s, i)
      BY <1>5, <1>6, <2>1, <3>3
    <3> QED
      BY <1>2, <1>6, <2>1, <3>1, <3>4 DEF Informed
  <2> QED
    BY <2>1 DEF Informed
<1>7. ASSUME NEW l \in wiring.listeners
      PROVE  ListenerOK(listener[l])'
  <2>0. PICK s : s = listener[l]
    OBVIOUS
  <2>1. s \in ListenerFields /\ ListenerOK(s)
    BY <2>0 DEF SessionsInv, InvocationInv
  <2>2. s.cursor <= Len(emitted)'
    <3>1. s.cursor \in Int /\ s.cursor <= Len(emitted)
      BY <2>1 DEF ListenerOK, Placed, ListenerFields
    <3> QED
      BY <1>2, <3>1 DEF last
  <2>3. /\ 0 <= s.from /\ s.from <= s.cursor /\ s.cursor <= Len(emitted')
        /\ s.pc = "off" => s.cursor = 0
        /\ s.pc \in {"session", "spawn"} => (s.held = s.cursor /\ s.held > 0)
    BY <2>1, <2>2 DEF ListenerOK, Placed
  <2>4. \A i \in DOMAIN emitted' :
          (i > s.from /\ ~s.lagged /\ emitted'[i].kind = "RunStarted" /\ Matches(s.filter, emitted'[i]))
            /\ i <= s.cursor
          => emitted'[i].run \in sessionMap \/ (s.pc = "session" /\ s.held = i)
    BY <1>2, <1>5, <2>1 DEF ListenerOK, StartsMapped, Witnessed
  <2>5. ASSUME s.pc = "spawn"
        PROVE  \A i \in DOMAIN emitted' :
                 (i > s.from /\ ~s.lagged /\ emitted'[i].kind = "RunStarted" /\ Matches(s.filter, emitted'[i]))
                   /\ emitted'[i].run = emitted'[s.held].run
                 => s.known
    <3>1. s.held \in DOMAIN emitted /\ s.held <= s.cursor
      <4>1. s.held = s.cursor /\ s.held > 0 /\ s.cursor <= Len(emitted) /\ s.cursor \in Int
        BY <2>1, <2>5 DEF ListenerOK, Placed, ListenerFields
      <4> QED
        BY <1>2, <4>1
    <3>2. Informed(s, s.held, s.known)'
      <4>1. Placed(s) /\ Informed(s, s.held, s.known)
        BY <2>1, <2>5 DEF ListenerOK
      <4> QED
        BY <1>6, <2>1, <3>1, <4>1
    <3> QED
      BY <3>2 DEF Informed, Witnessed
  <2>6. listener' = listener
    BY <1>1
  <2> QED
    BY <1>1, <2>0, <2>3, <2>4, <2>5, <2>6 DEF ListenerOK, Placed, StartsMapped, Informed, Witnessed
<1>8. ASSUME NEW h \in handlers
      PROVE  h.by \in wiring.listeners /\ HandlerOK(h, listener[h.by])'
  <2>0. PICK s : s = listener[h.by]
    OBVIOUS
  <2>1. h.by \in wiring.listeners /\ HandlerOK(h, s)
    BY <2>0 DEF SessionsInv
  <2>2. s \in ListenerFields /\ Placed(s)
    BY <2>0, <2>1 DEF SessionsInv, InvocationInv, ListenerOK
  <2>3. Informed(s, h.n, h.known)'
    BY <1>6, <2>1, <2>2 DEF HandlerOK
  <2>4. h.n \in DOMAIN emitted' /\ h.n <= s.cursor /\ s.pc # "off"
    BY <1>2, <2>1 DEF HandlerOK, last
  <2>5. listener' = listener
    BY <1>1
  <2> QED
    BY <2>0, <2>1, <2>3, <2>4, <2>5 DEF HandlerOK, Informed, Witnessed
<1>9. /\ \A l \in wiring'.listeners : ListenerOK(listener[l])'
      /\ \A h \in handlers' : h.by \in wiring'.listeners /\ HandlerOK(h, listener[h.by])'
  BY <1>1, <1>7, <1>8
<1> QED
  BY <1>4, <1>9 DEF SessionsInv

\* A listener steps, once it is known which fields of its record change.
LEMMA ListenerStepsKeepSessions ==
    ASSUME SessionsInv, InvocationInv', NEW l \in wiring.listeners,
           \/ On(l) \/ Receive(l) \/ LookUpSession(l) \/ SpawnHandler(l)
           \/ CancelByHandler(l) \/ AbortListener(l)
    PROVE  SessionsInv'
<1>1. PICK r : r = listener[l]
  OBVIOUS
<1>2. PICK s : s = listener'[l]
  OBVIOUS
<1>3. r \in ListenerFields /\ s \in ListenerFields
  <2>1. wiring' = wiring
    BY DEF On, Receive, LookUpSession, SpawnHandler, CancelByHandler, AbortListener, eventVars
  <2> QED
    BY <1>1, <1>2, <2>1 DEF SessionsInv, InvocationInv
<1>4. /\ wiring' = wiring /\ emitted' = emitted /\ listener' = [listener EXCEPT ![l] = s]
      /\ DOMAIN emitted = 1..Len(emitted) /\ Len(emitted) \in Nat
  <2>1. wiring' = wiring /\ emitted' = emitted
    BY DEF On, Receive, LookUpSession, SpawnHandler, CancelByHandler, AbortListener, eventVars
  <2>2. PICK t : listener' = [listener EXCEPT ![l] = t]
    BY DEF On, Receive, LookUpSession, SpawnHandler, CancelByHandler, AbortListener
  <2>3. t = s
    BY <1>2, <2>2 DEF SessionsInv, InvocationInv
  <2> QED
    BY <2>1, <2>2, <2>3 DEF SessionsInv, InvocationInv
<1>5. ListenerOK(r)
  BY <1>1 DEF SessionsInv
<1>6. CASE On(l)
  <2>1. /\ r.pc = "off" /\ s = [r EXCEPT !.pc = "recv", !.cursor = Len(emitted), !.from = Len(emitted)]
        /\ sessionMap' = sessionMap /\ handlers' = handlers
    BY <1>1, <1>2, <1>6 DEF On, SessionsInv, InvocationInv
  <2>2. s.pc = "recv" /\ s.cursor = Len(emitted) /\ s.from = Len(emitted)
    BY <1>3, <2>1 DEF ListenerFields
  <2>3. Placed(s) /\ Follows(s, r)
    BY <1>4, <2>1, <2>2 DEF Placed, Follows
  <2>4. StartsMapped(s)'
    BY <1>4, <2>2 DEF StartsMapped, Witnessed
  <2> QED
    BY <1>1, <1>3, <1>4, <2>1, <2>2, <2>3, <2>4, OneListenerSteps
<1>7. CASE Receive(l)
  <2>1. /\ r.pc = "recv" /\ r.cursor < Len(emitted)
        /\ sessionMap' = sessionMap /\ handlers' = handlers
        /\ s = IF Lagging(emitted, r.cursor)
               THEN [r EXCEPT !.cursor = CatchUp(emitted, r.cursor), !.lagged = TRUE]
               ELSE IF Stops(r) THEN [r EXCEPT !.pc = "stopped"]
               ELSE [r EXCEPT !.cursor = @ + 1,
                              !.pc = IF Matches(r.filter, emitted[r.cursor + 1]) THEN "session" ELSE "recv",
                              !.held = r.cursor + 1]
    BY <1>1, <1>2, <1>7 DEF Receive, SessionsInv, InvocationInv
  <2>2. CASE Lagging(emitted, r.cursor)
    <3>1. /\ s.pc = "recv" /\ s.cursor = Len(emitted) - Capacity /\ s.lagged = TRUE
          /\ s.from = r.from /\ s.filter = r.filter
      BY <1>3, <2>1, <2>2 DEF ListenerFields, CatchUp
    <3>2. s.cursor > r.cursor /\ s.cursor <= Len(emitted) /\ r.cursor \in Int /\ r.from \in Int
      BY <1>3, <1>4, <2>2, <3>1, EventsAssumption DEF Lagging, ListenerFields
    <3>3. Placed(s) /\ Follows(s, r)
      <4>1. 0 <= r.from /\ r.from <= r.cursor
        BY <1>5 DEF ListenerOK, Placed
      <4>2. r.from <= s.cursor /\ s.cursor >= r.cursor
        BY <1>4, <3>1, <3>2, <4>1, EventsAssumption
      <4> QED
        BY <3>1, <3>2, <4>1, <4>2 DEF Placed, Follows
    <3>4. StartsMapped(s)'
      BY <3>1 DEF StartsMapped, Witnessed
    <3> QED
      BY <1>1, <1>3, <1>4, <2>1, <3>1, <3>3, <3>4, OneListenerSteps
  <2>3. CASE ~Lagging(emitted, r.cursor) /\ Stops(r)
    <3>1. /\ s.pc = "stopped" /\ s.cursor = r.cursor /\ s.lagged = r.lagged
          /\ s.from = r.from /\ s.filter = r.filter /\ r.cursor \in Int
      BY <1>3, <2>1, <2>3 DEF ListenerFields
    <3>2. Placed(s) /\ Follows(s, r)
      BY <1>5, <2>1, <3>1 DEF Placed, Follows, ListenerOK
    <3>3. StartsMapped(s)'
      BY <1>4, <1>5, <2>1, <3>1 DEF StartsMapped, Witnessed, ListenerOK
    <3> QED
      BY <1>1, <1>3, <1>4, <2>1, <3>1, <3>2, <3>3, OneListenerSteps
  <2>4. CASE ~Lagging(emitted, r.cursor) /\ ~Stops(r)
    <3>1. /\ s.pc = IF Matches(r.filter, emitted[r.cursor + 1]) THEN "session" ELSE "recv"
          /\ s.cursor = r.cursor + 1 /\ s.held = r.cursor + 1
          /\ s.lagged = r.lagged /\ s.from = r.from /\ s.filter = r.filter
          /\ r.cursor \in Int /\ r.from \in Int
      BY <1>3, <2>1, <2>4 DEF ListenerFields
    <3>2. s.pc \in {"session", "recv"}
      BY <3>1
    <3>3. 0 <= r.from /\ r.from <= r.cursor
      BY <1>5 DEF ListenerOK, Placed
    <3>4. Placed(s) /\ Follows(s, r)
      <4>1. s.from <= s.cursor /\ s.cursor <= Len(emitted) /\ s.cursor >= r.cursor /\ s.held > 0
        BY <1>4, <2>1, <3>1, <3>3
      <4> QED
        BY <3>1, <3>2, <3>3, <4>1 DEF Placed, Follows
    <3>5. StartsMapped(s)'
      <4>1. ASSUME NEW i \in DOMAIN emitted, Witnessed(s, i), i <= s.cursor
            PROVE  emitted[i].run \in sessionMap \/ (s.pc = "session" /\ s.held = i)
        <5>1. CASE i <= r.cursor
          <6>1. Witnessed(r, i)
            BY <3>1, <4>1 DEF Witnessed
          <6> QED
            BY <1>5, <2>1, <5>1, <6>1 DEF ListenerOK, StartsMapped
        <5>2. CASE ~(i <= r.cursor)
          <6>1. i = r.cursor + 1
            BY <1>4, <3>1, <4>1, <5>2
          <6>2. Matches(r.filter, emitted[r.cursor + 1])
            BY <3>1, <4>1, <6>1 DEF Witnessed
          <6> QED
            BY <3>1, <6>1, <6>2
        <5> QED
          BY <5>1, <5>2
      <4> QED
        BY <1>4, <2>1, <4>1 DEF StartsMapped, Witnessed
    <3> QED
      BY <1>1, <1>3, <1>4, <2>1, <3>2, <3>4, <3>5, OneListenerSteps
  <2> QED
    BY <2>2, <2>3, <2>4
<1>8. CASE LookUpSession(l)
  <2>1. /\ r.pc = "session" /\ handlers' = handlers
        /\ sessionMap' = IF emitted[r.held].kind = "RunStarted"
                         THEN sessionMap \cup {emitted[r.held].run} ELSE sessionMap
        /\ s = [r EXCEPT !.pc = "spawn", !.known = emitted[r.held].run \in sessionMap']
    BY <1>1, <1>2, <1>8 DEF LookUpSession, SessionsInv, InvocationInv
  <2>2. (emitted[r.held].run \in sessionMap') \in BOOLEAN
    OBVIOUS
  <2>3. /\ s.pc = "spawn" /\ s.cursor = r.cursor /\ s.held = r.held /\ s.lagged = r.lagged
        /\ s.from = r.from /\ s.filter = r.filter /\ r.cursor \in Int
    BY <1>3, <2>1 DEF ListenerFields
  <2>4. s.known <=> emitted[r.held].run \in sessionMap'
    BY <1>3, <2>1, <2>2 DEF ListenerFields
  <2>5. Placed(s) /\ Follows(s, r)
    BY <1>5, <2>1, <2>3 DEF Placed, Follows, ListenerOK
  <2>6. sessionMap \subseteq sessionMap'
    BY <2>1
  <2>7. \A i \in DOMAIN emitted : Witnessed(s, i) /\ i <= s.cursor => emitted[i].run \in sessionMap'
    <3>1. ASSUME NEW i \in DOMAIN emitted, Witnessed(s, i), i <= s.cursor
          PROVE  emitted[i].run \in sessionMap'
      <4>1. Witnessed(r, i) /\ i <= r.cursor
        BY <2>3, <3>1 DEF Witnessed
      <4>2. CASE emitted[i].run \in sessionMap
        BY <2>6, <4>2
      <4>3. CASE r.held = i
        BY <2>1, <4>1, <4>3 DEF Witnessed
      <4> QED
        BY <1>5, <4>1, <4>2, <4>3 DEF ListenerOK, StartsMapped
    <3> QED
      BY <3>1
  <2>8. StartsMapped(s)'
    BY <1>4, <2>7 DEF StartsMapped, Witnessed
  <2>9. Informed(s, s.held, s.known)
    <3>1. r.held = r.cursor /\ r.held > 0 /\ r.cursor <= Len(emitted)
      BY <1>5, <2>1 DEF ListenerOK, Placed
    <3>2. r.held \in DOMAIN emitted
      BY <1>4, <2>3, <3>1
    <3>3. ASSUME NEW i \in DOMAIN emitted, Witnessed(s, i), emitted[i].run = emitted[s.held].run
          PROVE  s.known
      <4>1. i <= s.cursor
        BY <2>3, <3>1, <3>2, <3>3 DEF Witnessed, SessionsInv, StartsComeFirst
      <4> QED
        BY <2>3, <2>4, <2>7, <3>3, <4>1
    <3> QED
      BY <3>3 DEF Informed
  <2> QED
    BY <1>1, <1>3, <1>4, <2>1, <2>5, <2>6, <2>8, <2>9, OneListenerSteps
<1>9. CASE SpawnHandler(l)
  <2> DEFINE h == [by |-> l, n |-> r.held, known |-> r.known]
  <2>1. /\ r.pc = "spawn" /\ handlers' = handlers \cup {h} /\ sessionMap' = sessionMap
        /\ s = [r EXCEPT !.pc = "recv", !.late = IF r.cancelled THEN @ + 1 ELSE @]
    BY <1>1, <1>2, <1>9 DEF SpawnHandler, SessionsInv, InvocationInv
  <2>2. /\ s.pc = "recv" /\ s.cursor = r.cursor /\ s.lagged = r.lagged
        /\ s.from = r.from /\ s.filter = r.filter /\ r.cursor \in Int
    BY <1>3, <2>1 DEF ListenerFields
  <2>3. Placed(s) /\ Follows(s, r)
    BY <1>5, <2>1, <2>2 DEF Placed, Follows, ListenerOK
  <2>4. StartsMapped(s)'
    BY <1>4, <1>5, <2>1, <2>2 DEF StartsMapped, Witnessed, ListenerOK
  <2>5. HandlerOK(h, s)
    <3>1. r.held = r.cursor /\ r.held > 0 /\ r.cursor <= Len(emitted) /\ Informed(r, r.held, r.known)
      BY <1>5, <2>1 DEF ListenerOK, Placed
    <3>2. r.held \in DOMAIN emitted /\ r.held <= s.cursor
      BY <1>4, <2>2, <3>1
    <3>3. Informed(s, r.held, r.known)
      BY <2>2, <3>1 DEF Informed, Witnessed
    <3> QED
      BY <2>2, <3>2, <3>3 DEF HandlerOK
  <2>6. \A g \in handlers' : g \in handlers \/ (g.by = l /\ HandlerOK(g, s))
    BY <2>1, <2>5
  <2>7. sessionMap \subseteq sessionMap' /\ (s.pc = "spawn" => Informed(s, s.held, s.known))
    BY <2>1, <2>2
  <2>8. Placed(s) /\ Follows(s, listener[l])
    BY <1>1, <2>3
  <2> HIDE DEF h
  <2> QED
    BY <1>3, <1>4, <2>4, <2>6, <2>7, <2>8, OneListenerSteps
<1>10. CASE CancelByHandler(l)
  <2>1. s = [r EXCEPT !.cancelled = TRUE] /\ sessionMap' = sessionMap /\ handlers' = handlers
    BY <1>1, <1>2, <1>10 DEF CancelByHandler, SessionsInv, InvocationInv
  <2>2. /\ s.pc = r.pc /\ s.cursor = r.cursor /\ s.held = r.held /\ s.lagged = r.lagged
        /\ s.from = r.from /\ s.filter = r.filter /\ s.known = r.known /\ r.cursor \in Int
    BY <1>3, <2>1 DEF ListenerFields
  <2>3. Placed(s) /\ Follows(s, r)
    BY <1>5, <2>2 DEF Placed, Follows, ListenerOK
  <2>4. StartsMapped(s)'
    BY <1>4, <1>5, <2>1, <2>2 DEF StartsMapped, Witnessed, ListenerOK
  <2>5. s.pc = "spawn" => Informed(s, s.held, s.known)
    BY <1>5, <2>2 DEF Informed, Witnessed, ListenerOK
  <2> QED
    BY <1>1, <1>3, <1>4, <2>1, <2>3, <2>4, <2>5, OneListenerSteps
<1>11. CASE AbortListener(l)
  <2>1. /\ r.pc = "recv" /\ s = [r EXCEPT !.pc = "stopped"]
        /\ sessionMap' = sessionMap /\ handlers' = handlers
    BY <1>1, <1>2, <1>11 DEF AbortListener, SessionsInv, InvocationInv
  <2>2. /\ s.pc = "stopped" /\ s.cursor = r.cursor /\ s.lagged = r.lagged
        /\ s.from = r.from /\ s.filter = r.filter /\ r.cursor \in Int
    BY <1>3, <2>1 DEF ListenerFields
  <2>3. Placed(s) /\ Follows(s, r)
    BY <1>5, <2>1, <2>2 DEF Placed, Follows, ListenerOK
  <2>4. StartsMapped(s)'
    BY <1>4, <1>5, <2>1, <2>2 DEF StartsMapped, Witnessed, ListenerOK
  <2> QED
    BY <1>1, <1>3, <1>4, <2>1, <2>2, <2>3, <2>4, OneListenerSteps
<1> QED
  BY <1>6, <1>7, <1>8, <1>9, <1>10, <1>11

\* The session map of spawn_listener: a listener that saw a run start gives
\* every handler of the run its session, for any number of runs and listeners
\* that share the map, and whatever cancellation, lag and abort do.
THEOREM HandlersAreInformed == InvocationSpec => []HandlersKnowSession
<1>1. EventsInit /\ InvocationInit => SessionsInv
  <2> SUFFICES ASSUME EventsInit, InvocationInit
               PROVE  SessionsInv
    OBVIOUS
  <2>1. InvocationInv
    BY InvocationStart
  <2>2. emitted = <<>> /\ handlers = {} /\ Len(emitted) = 0 /\ DOMAIN emitted = {}
    BY DEF EventsInit, InvocationInit
  <2>3. ASSUME NEW l \in wiring.listeners
        PROVE  listener[l].from = 0 /\ listener[l].cursor = 0 /\ listener[l].pc = "off"
    BY DEF InvocationInit
  <2> QED
    BY <2>1, <2>2, <2>3 DEF SessionsInv, StartsComeFirst, ListenerOK, Placed, StartsMapped
<1>2. SessionsInv /\ [InvocationNext]_<<eventVars, invocationVars>> => SessionsInv'
  <2> SUFFICES ASSUME SessionsInv, [InvocationNext]_<<eventVars, invocationVars>>
               PROVE  SessionsInv'
    OBVIOUS
  <2>1. InvocationInv'
    BY InvocationStep DEF SessionsInv
  <2>2. ASSUME NEW run \in Runs, NEW kind \in Kinds, InvokedRunEmits(run, kind)
        PROVE  SessionsInv'
    BY <2>1, <2>2, EmitKeepsSessions
  <2>3. ASSUME NEW l \in wiring.listeners,
               \/ On(l) \/ Receive(l) \/ LookUpSession(l) \/ SpawnHandler(l)
               \/ CancelByHandler(l) \/ AbortListener(l)
        PROVE  SessionsInv'
    BY <2>1, <2>3, ListenerStepsKeepSessions
  <2>4. ASSUME UNCHANGED <<wiring, emitted, listener, sessionMap, handlers>>
        PROVE  SessionsInv'
    BY <2>1, <2>4 DEF SessionsInv, StartsComeFirst, ListenerOK, HandlerOK, Placed, StartsMapped,
                      Informed, Witnessed
  <2>5. ASSUME NEW run \in Runs, EmitRequest(run)
        PROVE  SessionsInv'
    BY <2>4, <2>5 DEF EmitRequest, eventVars
  <2>6. ASSUME NEW n \in publishing, QueuePublish(n) /\ UNCHANGED invocationVars
        PROVE  SessionsInv'
    BY <2>4, <2>6 DEF QueuePublish, invocationVars
  <2>7. CASE UNCHANGED <<eventVars, invocationVars>>
    BY <2>4, <2>7 DEF eventVars, invocationVars
  <2> QED
    BY <2>2, <2>3, <2>5, <2>6, <2>7 DEF InvocationNext
<1>3. SessionsInv => HandlersKnowSession
  BY DEF SessionsInv, HandlerOK, Informed, Witnessed, HandlersKnowSession
<1> QED
  BY <1>1, <1>2, <1>3, PTL DEF InvocationSpec
=============================================================================
