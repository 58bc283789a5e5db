CONSTANTS
    v1 = v1
    v2 = v2
    Images = {v1}
    NoImage = NoImage
    etcdClusterReplicas = 1
    Kinds = {"child", "status"}
    MaxDisruptions = 2
    MaxLag = 1
SPECIFICATION SafetySpec
INVARIANTS
    KcmConditionTruthful
CONSTRAINT FewEvents
CHECK_DEADLOCK FALSE
