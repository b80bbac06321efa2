CONSTANTS
    Clients = {c1, c2}
    Sessions = {s1}
    Messages = {m1, m2}
    Usages = {1, 2}
    MaxFaults = 1
    None = None
    RunClients = {a, b, c}
    Runs = {r1}
    Statuses = {"completed"}
    MaxEvents = 2
    MaxDrops = 1
    NoOne = NoOne
    Callers = {a, b}
    Owners = {o}
    Keys = {k, l}
    Values = {x, y}
    MaxRestarts = 1
    Torn = Torn
    Absent = Absent
    Nobody = Nobody
    Sizes = {1, 3}
    MaxMessages = 8
    MaxCalls = 2
    MaxStops = 1
    Window = 8
    MaxOutput = 2
    Buffer = 1
    TailTurns = 2
    KeepTokens = 6
    ReactiveKeep = 5
    PromptLimit = 6
    MaxHistory = 6
    JournalCalls = {call}
    MaxEntries = 5
    MaxRecoveries = 1
SYMMETRY StoreSymmetry
SPECIFICATION Spec
INVARIANTS ListedOnce OnlyStraysDeadlock ProjectionCountsEvents DroppedIsSummarised ContextIsRecent JournalKeepsLog
PROPERTIES ImplementsSessionStore ImplementsKeyValue
CHECK_DEADLOCK FALSE
