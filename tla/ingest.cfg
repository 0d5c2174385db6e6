CONSTANTS
    Job = {j1, j2}
    Restorer = {r1}
    Remover = {x1}
    Source = {s1}
    Hash = {h1, h2}
    None = None
SPECIFICATION FairSpec
INVARIANTS
    TypeOK
    VersionsInOrder
    ContentStoredOnce
    ChunksFollowDocument
    JobMatchesDocument
    UploadsDoNotCollide
PROPERTIES
    NothingComesBack
    ServedUntilDeleted
    ImplementsHistory
    EveryCallEnds
