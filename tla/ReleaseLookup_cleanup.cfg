SPECIFICATION SafetySpec
CONSTANTS
    first = first
    second = second
    third = third
    shared = shared
    other = other
    None = None
    Service <- MCService
    Worker = {w1, w2}
    Image = {shared, other}
    ImageOf <- MCImageOf
    Content = {1, 2, 3, 4}
    Pullable = {1, 2, 3}
    Pushed <- MCPushed
    Readable = {1, 2}
    PodName = {1, 2, 3}
    Kinds = {"shutdown"}
    MaxDisruptions = 1
PROPERTY
    CleanedUp
CHECK_DEADLOCK FALSE
