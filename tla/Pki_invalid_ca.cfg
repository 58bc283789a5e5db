CONSTANTS
    Kinds = {"ca.crt"}
    MaxDisruptions = 1
    MaxLag = 2
SPECIFICATION Spec
PROPERTIES
    InvalidCaRepaired
CONSTRAINT FewEvents
