SPECIFICATION Spec
CONSTANTS
    Component = {1, 2}
    Version = {1, 2}
    DisplayName = {1, 2}
    Malformed = Malformed
    MaxVersions = 2
    MaxNames = 1
    MaxTags = 2
INVARIANTS
    VersionsAgreed
    LabelsRoundTrip
    OverridesWin
CHECK_DEADLOCK FALSE
