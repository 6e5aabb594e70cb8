SPECIFICATION FairSpec
CONSTANTS
    Bodies <- ShortBodies
    Trailers = {"none", "error"}
    HeaderLen = 2
    MaxMessage = 2
    MaxChunk = 3
    Window = 10
    MaxItems = 5
CHECK_DEADLOCK FALSE
INVARIANTS
    TypeOK
    WholeFramesInOrder
    BufferBounded
    CleanEndIsComplete
PROPERTIES
    DeliversFrames
    BodyIsReadOrStalls
