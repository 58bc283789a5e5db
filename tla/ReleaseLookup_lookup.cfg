SPECIFICATION Spec
CONSTANTS
    first = first
    second = second
    third = third
    shared = shared
    other = other
    None = None
    Service <- MCService
    Worker = {w1, w2}
    Image = {shared, other}
    ImageOf <- MCImageOf
    Content = {1, 2, 3, 4}
    Pullable = {1, 2, 3}
    Pushed <- MCPushed
    Readable = {1, 2}
    PodName = {1, 2, 3}
    Kinds = {"call", "pod", "tag", "shutdown", "crash"}
    MaxDisruptions = 1
INVARIANTS
    TypeOK
    OneLookup
    LeaksBounded
PROPERTIES
    ImplementsMemo
    ReadableImagesGiven
CHECK_DEADLOCK FALSE
