SPECIFICATION FairSpec
CONSTANTS
    PacketCount = 4
    Depth = 2
    PendingBound = 4
    Eos <- MCEos
    Extra <- MCExtra
INVARIANTS
    TypeOK
    PostsCoverEntries
PROPERTIES
    PulledInOrder
    PacketLeaves
    ResetReleasesPull
