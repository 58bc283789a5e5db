CONSTANTS
    v1 = v1
    v2 = v2
    Images = {v1}
    NoImage = NoImage
    etcdClusterReplicas = 1
    Kinds = {"timeout", "status"}
    MaxDisruptions = 2
    MaxLag = 1
SPECIFICATION SafetySpec
INVARIANTS
    OnlyUnbootstrappedDeleted
CONSTRAINT FewEvents
CHECK_DEADLOCK FALSE
