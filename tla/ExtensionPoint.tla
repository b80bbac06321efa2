--------------------------- MODULE ExtensionPoint ---------------------------
(* A map from names to shared instances behind one RwLock. An entry in use    *)
(* is not unregistered; its use is told by the count of the references to it, *)
(* which is read in one lock section, while another one removes the entry.    *)
EXTENDS Integers, FiniteSets

CONSTANTS
    Holders, \* the tasks that hold references
    Names,
    Values,  \* the instances
    NoValue

ASSUME ExtensionPointAssumption ==
    /\ IsFiniteSet(Holders) /\ IsFiniteSet(Names)
    /\ NoValue \notin Values \cup Names

VARIABLES
    entries,
    refs,    \* holder -> the instances it has a reference to
    leaving, \* holder -> the name its unregister has checked, NoValue if none
    lately   \* history: instances looked up or put in since that check

pointVars == <<entries, refs, leaving, lately>>

PointInit ==
    /\ entries = [n \in Names |-> NoValue]
    /\ refs = [h \in Holders |-> {}]
    /\ leaving = [h \in Holders |-> NoValue]
    /\ lately = [h \in Holders |-> {}]

Free(h) == leaving[h] = NoValue
Present(v) == v # NoValue

\* Arc::strong_count: the slots of the map and the tasks that hold the instance.
StrongCount(v) ==
    Cardinality({n \in Names : entries[n] = v}) + Cardinality({h \in Holders : v \in refs[h]})

Acquire(h, v) == refs' = [refs EXCEPT ![h] = @ \cup ({v} \ {NoValue})]
Notice(v) == lately' = [h \in Holders |-> IF Free(h) THEN {} ELSE lately[h] \cup {v}]

Construct(h, v) ==
    /\ Free(h) /\ StrongCount(v) = 0
    /\ Acquire(h, v)
    /\ UNCHANGED <<entries, leaving, lately>>

Release(h, v) ==
    /\ Free(h) /\ v \in refs[h]
    /\ refs' = [refs EXCEPT ![h] = @ \ {v}]
    /\ UNCHANGED <<entries, leaving, lately>>

\* The caller's reference becomes the slot's; it may have cloned it before, and
\* gets the one that was there.
Put(h, n, v) ==
    /\ Free(h) /\ v \in refs[h]
    /\ entries' = [entries EXCEPT ![n] = v]
    /\ \E kept \in {{}, {v}} :
          refs' = [refs EXCEPT ![h] = (@ \ {v}) \cup kept \cup ({entries[n]} \ {NoValue})]
    /\ Notice(v)
    /\ UNCHANGED leaving

\* register_or_replace is one of the two, in one lock section.
Register(h, n, v) == ~Present(entries[n]) /\ Put(h, n, v)
Replace(h, n, v) == Present(entries[n]) /\ Put(h, n, v)

Get(h, n) ==
    /\ Free(h) /\ Present(entries[n])
    /\ Acquire(h, entries[n])
    /\ Notice(entries[n])
    /\ UNCHANGED <<entries, leaving>>

\* Mutant: the slot's own reference and one more.
InUseByTwo(n) == Present(entries[n]) /\ StrongCount(entries[n]) > 2

InUse(n) == Present(entries[n]) /\ StrongCount(entries[n]) > 1

\* The read lock is dropped before the write lock is taken.
CheckUnused(h, n) ==
    /\ Free(h) /\ ~InUse(n)
    /\ leaving' = [leaving EXCEPT ![h] = n]
    /\ lately' = [lately EXCEPT ![h] = {}]
    /\ UNCHANGED <<entries, refs>>

RemoveEntry(h) ==
    /\ ~Free(h)
    /\ Acquire(h, entries[leaving[h]])
    /\ entries' = [entries EXCEPT ![leaving[h]] = NoValue]
    /\ leaving' = [leaving EXCEPT ![h] = NoValue]
    /\ UNCHANGED lately

PointNext ==
    \E h \in Holders :
        \/ \E v \in Values : Construct(h, v) \/ Release(h, v)
        \/ \E n \in Names, v \in Values : Register(h, n, v) \/ Replace(h, n, v)
        \/ \E n \in Names : Get(h, n) \/ CheckUnused(h, n)
        \/ RemoveEntry(h)
-----------------------------------------------------------------------------
\* extension.rs:23-26, "refuses to drop an entry whose strong count is above the
\* registry's reference", as far as the code keeps it: what unregister removes is
\* in use only if it was looked up or put in during that very unregister. An
\* instance in use before, and left where it was, stays.
RemovedWhileUnused ==
    \A h \in Holders : ~Free(h) =>
        LET v == entries[leaving[h]]
        IN  Present(v) /\ StrongCount(v) > 1 => v \in lately[h]
=============================================================================
