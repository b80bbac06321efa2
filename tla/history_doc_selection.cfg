CONSTANTS
    Sizes = {1, 3}
    MaxMessages = 8
    MaxCalls = 2
    MaxStops = 0
    Window = 8
    MaxOutput = 2
    Buffer = 1
    TailTurns = 2
    KeepTokens = 4
    ReactiveKeep = 2
    PromptLimit = 100
    MaxHistory = 100
SPECIFICATION Spec
INVARIANT NothingForgotten
CHECK_DEADLOCK FALSE
