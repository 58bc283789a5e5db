SPECIFICATION Spec
CONSTANTS
    Component = {1, 2}
    Version = {1, 2}
    DisplayName = {1, 2}
    Malformed = Malformed
    MaxVersions = 2
    MaxNames = 1
    MaxTags = 1
INVARIANT
    DisplayNameLabelValid
CHECK_DEADLOCK FALSE
