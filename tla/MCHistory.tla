----------------------------- MODULE MCHistory -----------------------------
EXTENDS SessionHistory
Spec == HistoryInit /\ [][HistoryNext]_historyVars
=============================================================================
