SPECIFICATION MessagesSpec
CONSTANTS
    WordBits = 16
    Files <- TheFiles
    FieldValues <- TheFieldValues
    ExtensionValues <- TheExtensionValues
    Chunks <- TheChunks
    Limits <- TheLimits
    MaxFields = 2
    MaxWire = 9
    Documents <- TheDocuments
    Options <- TheOptions
    DefaultLimits <- TheDefaultLimits
    TypeUrl <- TheTypeUrl
    ChronoSeconds <- TheChronoSeconds
    FourDigitYears <- TheFourDigitYears
    NanosPerSecond = 100
    MantissaBits = 12
INVARIANTS WireRoundTrip UnknownAccounted RelayKeepsMeaning TextRoundTrip JsonRoundTrip
CHECK_DEADLOCK FALSE
