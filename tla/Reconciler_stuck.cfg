CONSTANTS
    v1 = v1
    v2 = v2
    Images = {v1}
    NoImage = NoImage
    etcdClusterReplicas = 2
    Kinds = {"deletion", "call", "restart", "pod", "timeout", "status"}
    MaxDisruptions = 2
    MaxLag = 1
SPECIFICATION StuckSpec
INVARIANTS
    TypeOK
PROPERTIES
    DeletionCompletes
    FailedEtcdReplaced
CONSTRAINT FewEvents
CONSTRAINT FewClusters
ACTION_CONSTRAINT OnlyEtcdChanges
CHECK_DEADLOCK FALSE
