SPECIFICATION FairSpec
CONSTANTS
    Bodies <- LargeBody
    Trailers = {"none"}
    HeaderLen = 2
    MaxMessage = 6
    MaxChunk = 3
    Window = 4
    MaxItems = 3
CHECK_DEADLOCK FALSE
PROPERTIES
    AcceptableBodyIsRead
