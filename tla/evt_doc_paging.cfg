\* The Redis store: four events, pages of two.
CONSTANTS
    Runs = {r1}
    Capacity = 2
    MaxEvents = 4
    MaxFaults = 0
    Readers = {}
    Bridge = Bridge
    None = None
    AnyKind = AnyKind
    Page = 2
    Stores = {"redis"}
    Adapters = {"redis"}
    Listeners = {}
    QueueListeners = {}
SPECIFICATION Spec
INVARIANT PagesAdvance
CHECK_DEADLOCK FALSE
