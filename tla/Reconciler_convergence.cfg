CONSTANTS
    v1 = v1
    v2 = v2
    Images <- MCImages
    NoImage = NoImage
    etcdClusterReplicas = 1
    Kinds = {"call", "restart", "spec", "child", "drift", "status", "timeout", "resync"}
    MaxDisruptions = 1
    MaxLag = 2
SPECIFICATION Spec
INVARIANTS
    FilesReadable
PROPERTIES
    Convergence
CONSTRAINT FewEvents
CHECK_DEADLOCK FALSE
