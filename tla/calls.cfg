\* Two batches of up to three calls of two tools, two permits; two call ids;
\* four replies, cut into chunks
\* anywhere; a token, its child and its grandchild;
\* chains of up to three providers, up to three attempts each.
CONSTANTS
    fetch = fetch
    edit = edit
    b1 = b1
    b2 = b2
    Batches = {b1, b2}
    Tools = {fetch, edit}
    Permits = 2
    CallLists <- Lists
    MaxUpsets = 1
    None = None
    CallIds = {c1, c2}
    MaxRequests = 2
    Interfaces = {i1, i2}
    Undecided = Undecided
    Replies <- ServerReplies
    Configs <- DoomConfigs
    Fingerprints = {x, y}
    MaxBatch = 2
    MaxRecorded = 7
    MaxResumes = 1
    Threads = {t1, t2}
    MaxChildDepth = 2
    MaxLiveChildren = 1
    MaxTotalDescendants = 3
    root = root
    child = child
    grandchild = grandchild
    Root = root
    Tokens = {root, child, grandchild}
    ParentOf <- Parents
    Waiters = {w1, w2}
    Signallers = {s1, s2}
    Chains <- ProviderChains
    MaxRetries = 2
    Offers <- ProviderOffers
    LimitedBatches <- ToolLists
    Sandboxes <- ToolSandboxes
    Filters <- ScopeFilters
    LimitConfigs <- ToolLimitConfigs
    OutputSizes = {1, 2, 3}
    Holders = {h1, h2}
    Names = {n1, n2}
    Values = {v1, v2}
    NoValue = NoValue
SPECIFICATION Spec
INVARIANTS ResultsInCallOrder ExclusiveAlone NewestDecisionStands StreamedAnswerIsWhole LoopsAreStopped FanOutBounded FallbackInOrder RemovedWhileUnused
PROPERTIES BatchEnds SignalsArrive
CHECK_DEADLOCK FALSE
