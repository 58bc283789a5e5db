CONSTANTS
    Kinds = {"call", "restart", "deletion", "entry", "gate"}
    MaxDisruptions = 2
    MaxLag = 1
SPECIFICATION Spec
INVARIANTS
    TypeOK
PROPERTIES
    KeysKept
    PkiConverges
CONSTRAINT FewEvents
