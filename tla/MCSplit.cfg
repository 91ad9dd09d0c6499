SPECIFICATION Spec
CONSTANTS
    Streams <- MCStreams
    EndBound = 2
INVARIANTS
    TypeOK
    PicturesIntact
    EndsComplete
PROPERTIES
    EndIsTold
CHECK_DEADLOCK FALSE
