----------------------------- MODULE SubEngines -----------------------------
(* Sub-agents created from one another by threads that share two counters.   *)
(* A creation loads each counter, compares, and adds later: four steps.      *)
EXTENDS Integers, FiniteSets

CONSTANTS
    Threads,
    MaxChildDepth, MaxLiveChildren, MaxTotalDescendants

\* The bounds are unsigned; somebody creates engines.
ASSUME EnginesAssumption ==
    /\ IsFiniteSet(Threads) /\ Threads # {}
    /\ MaxChildDepth \in Nat /\ MaxLiveChildren \in Nat /\ MaxTotalDescendants \in Nat

\* Engines are numbered in the order of their creation.
TheRoot == 0

VARIABLES
    depth,  \* engine -> its depth; only of engines that exist or existed
    dropped,
    liveChildren, totalDescendants,
    creator, \* thread -> [at, by]
    crowd    \* history: the most creations ever between the first load and
             \* the last addition at one time

engineVars == <<depth, dropped, liveChildren, totalDescendants, creator, crowd>>

NoCreator == [at |-> "idle", by |-> TheRoot]

EnginesInit ==
    /\ depth = [e \in {TheRoot} |-> 0]
    /\ dropped = {}
    /\ liveChildren = 0 /\ totalDescendants = 0
    /\ creator = [t \in Threads |-> NoCreator]
    /\ crowd = 0

Alive == DOMAIN depth \ dropped
AtStep(t, step) == creator[t].at = step
Racing == Cardinality({t \in Threads : creator[t].at \in {"total", "addLive", "addTotal"}})
GoTo(t, step) == creator' = [creator EXCEPT ![t].at = step]
Refused(t) == creator' = [creator EXCEPT ![t] = NoCreator]

\* create_sub_engine borrows its engine, so that is alive until it returns.
CheckDepth(t, e) ==
    /\ AtStep(t, "idle") /\ e \in Alive
    /\ depth[e] < MaxChildDepth
    /\ creator' = [creator EXCEPT ![t] = [at |-> "live", by |-> e]]
    /\ UNCHANGED <<depth, dropped, liveChildren, totalDescendants, crowd>>

\* Mutant: the bound may be reached and then passed by one.
RoomBelow(count, max) == count <= max

Room(count, max) == count < max

LoadLive(t) ==
    /\ AtStep(t, "live")
    /\ IF Room(liveChildren, MaxLiveChildren) THEN GoTo(t, "total") ELSE Refused(t)
    /\ crowd' = IF Racing' > crowd THEN Racing' ELSE crowd
    /\ UNCHANGED <<depth, dropped, liveChildren, totalDescendants>>

LoadTotal(t) ==
    /\ AtStep(t, "total")
    /\ IF Room(totalDescendants, MaxTotalDescendants) THEN GoTo(t, "addLive") ELSE Refused(t)
    /\ UNCHANGED <<depth, dropped, liveChildren, totalDescendants, crowd>>

AddLive(t) ==
    /\ AtStep(t, "addLive")
    /\ liveChildren' = liveChildren + 1
    /\ GoTo(t, "addTotal")
    /\ UNCHANGED <<depth, dropped, totalDescendants, crowd>>

AddTotal(t) ==
    /\ AtStep(t, "addTotal")
    /\ totalDescendants' = totalDescendants + 1
    /\ LET e == Cardinality(DOMAIN depth)
       IN  depth' = [x \in 0..e |-> IF x = e THEN depth[creator[t].by] + 1 ELSE depth[x]]
    /\ Refused(t)
    /\ UNCHANGED <<dropped, liveChildren, crowd>>

\* The root is no child and is not counted.
DropEngine(e) ==
    /\ e \in Alive /\ \A t \in Threads : ~AtStep(t, "idle") => creator[t].by # e
    /\ dropped' = dropped \cup {e}
    /\ liveChildren' = IF depth[e] > 0 THEN liveChildren - 1 ELSE liveChildren
    /\ UNCHANGED <<depth, totalDescendants, creator, crowd>>

EnginesNext ==
    \/ \E t \in Threads :
        \/ \E e \in DOMAIN depth : CheckDepth(t, e)
        \/ LoadLive(t) \/ LoadTotal(t) \/ AddLive(t) \/ AddTotal(t)
    \/ \E e \in DOMAIN depth : DropEngine(e)
-----------------------------------------------------------------------------
children == {e \in DOMAIN depth : depth[e] > 0}

\* Creations that never overlap overrun nothing.
Overrun == IF crowd = 0 THEN 0 ELSE crowd - 1

\* What the checks of create_sub_engine achieve: the two counters, which every
\* engine of the tree shares, are overrun by no more creations than raced one
\* another, an engine's depth never, and the live counter is the number of
\* sub-engines alive. Creations one after the other keep every bound exactly.
FanOutBounded ==
    LET creating == {t \in Threads : AtStep(t, "addTotal")}
    IN  /\ \A e \in DOMAIN depth : depth[e] <= MaxChildDepth
        /\ liveChildren = Cardinality(children \ dropped) + Cardinality(creating)
        /\ liveChildren <= MaxLiveChildren + Overrun
        /\ Cardinality(children) <= MaxTotalDescendants + Overrun

\* What create_sub_engine's documentation says, "Returns SubagentError if any
\* bound would be exceeded": the root never has more live children than its
\* bound, nor more descendants. Two threads that compare before either adds
\* exceed both.
FanOutExact ==
    /\ Cardinality({e \in Alive : depth[e] = 1}) <= MaxLiveChildren
    /\ Cardinality(children) <= MaxTotalDescendants
=============================================================================
