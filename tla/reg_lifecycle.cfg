\* One operator, one reloader, two components with any dependencies.
CONSTANTS
    Names = {a, b}
    Operators = {main}
    Reloaders = {rel}
    None = None
    Races = FALSE
    MaxInstances = 3
    MaxOps = 7
SPECIFICATION Spec
INVARIANTS
    OrderRespected NoInstanceLost StopDrainsOrdered
CHECK_DEADLOCK FALSE
