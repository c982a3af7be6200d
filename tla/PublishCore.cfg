SPECIFICATION FairSpec
CONSTANTS
    Meshes <- MCMeshes
    Inline <- MCInline
    OnDisk <- MCOnDisk
    UrlHasPath = FALSE
    U32Limit = 5
INVARIANTS TypeOK MeshReadsBack NotFoundIsRemoved
PROPERTIES ShutdownStops PublishedIsServed
CHECK_DEADLOCK FALSE
