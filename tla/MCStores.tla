------------------------------ MODULE MCStores ------------------------------
(* One behaviour exercises one of the three groups of stores, a session's     *)
(* history, or the journal; they share nothing.                              *)
EXTENDS SessionStores, MemoryRunStore, SessionData, SessionHistory, Journal

\* The clients of the session stores differ in nothing but their name, and so do
\* the messages: an entry is told by the order of its creation.
StoreSymmetry == Permutations(Clients) \cup Permutations(Messages)

VARIABLE part

vars == <<part, storeVars, runStoreVars, dataVars, historyVars, journalVars>>

Init ==
    /\ part \in {"sessions", "runs", "data", "history", "journal"}
    /\ StoresInit /\ RunStoreInit /\ DataInit /\ HistoryInit /\ JournalInit
    /\ part # "sessions" => backend = "memory"
    /\ part # "data" => medium = "map"

Next ==
    /\ \/ part = "sessions" /\ StoresNext /\ UNCHANGED <<runStoreVars, dataVars, historyVars, journalVars>>
       \/ part = "runs" /\ RunStoreNext /\ UNCHANGED <<storeVars, dataVars, historyVars, journalVars>>
       \/ part = "data" /\ DataNext /\ UNCHANGED <<storeVars, runStoreVars, historyVars, journalVars>>
       \/ part = "history" /\ HistoryNext /\ UNCHANGED <<storeVars, runStoreVars, dataVars, journalVars>>
       \/ part = "journal" /\ JournalNext /\ UNCHANGED <<storeVars, runStoreVars, dataVars, historyVars>>
    /\ UNCHANGED part

Spec == Init /\ [][Next]_vars
=============================================================================
