\* Two sessions, with an application that shares the registry of tools.
CONSTANTS
    Callers = {c1, c2}
    Sessions = {s1, s2}
    Inputs = {hello}
    BadInputs = {}
    Apps = {a1}
    Tools = {t1}
    None = None
    Dedup = TRUE
    MaxCalls = 3
SPECIFICATION FairSpec
INVARIANTS LiveScopesPresent SpecsAgreeWithGet NoLeakedScopes
PROPERTIES ImplementsSessionLock CallsAnswered
CHECK_DEADLOCK FALSE
