SPECIFICATION Spec
CONSTANTS
    Name = {x, y}
    NoName = NoName
    Kinds = {"create", "delete", "child", "call", "restart"}
    MaxDisruptions = 6
    MaxLag = 2
INVARIANTS
    TypeOK
    OneReferencePerName
    OwnedAtRest
PROPERTIES
    OwnershipLasts
    OwnedByPresent
CONSTRAINT FewEvents
CHECK_DEADLOCK FALSE
