\* One run, one reader behind each store and adapter; two listeners.
CONSTANTS
    Runs = {r1}
    Capacity = 1
    MaxEvents = 3
    MaxFaults = 1
    Readers = {u1}
    Bridge = Bridge
    None = None
    AnyKind = AnyKind
    Page = 2
    Stores = {"memory", "redis", "postgres"}
    Adapters = {"memory", "redis", "nats"}
    Listeners = {l1, l2}
    QueueListeners = {l1}
SPECIFICATION FairSpec
INVARIANTS BridgedInOrder NothingLost HandlersKnowSession CancelStopsDispatch
PROPERTY Delivered
CHECK_DEADLOCK FALSE
