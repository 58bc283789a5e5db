CONSTANTS
    v1 = v1
    v2 = v2
    Images <- MCImages
    NoImage = NoImage
    etcdClusterReplicas = 1
    Kinds = {"call", "restart", "spec", "child", "drift", "status", "timeout", "resync"}
    MaxDisruptions = 2
    MaxLag = 1
SPECIFICATION SafetySpec
INVARIANTS
    QuiescentConverged
    StagedRollout
    EtcdDeleteHitsExpired
    MountsExist
PROPERTIES
    ImplementsRollout
SYMMETRY ImageSymmetry
CONSTRAINT FewEvents
CHECK_DEADLOCK FALSE
