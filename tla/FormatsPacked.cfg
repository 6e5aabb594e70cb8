SPECIFICATION MessagesSpec
CONSTANTS
    WordBits = 16
    Files <- TheFiles
    FieldValues <- TheFieldValues
    ExtensionValues <- TheExtensionValues
    Chunks <- TheChunks
    Limits <- TheLimits
    MaxFields = 1
    MaxWire = 9
    Documents <- TheDocuments
    Options <- TheOptions
    DefaultLimits <- TheDefaultLimits
    TypeUrl <- TheTypeUrl
    ChronoSeconds <- TheChronoSeconds
    FourDigitYears <- TheFourDigitYears
    NanosPerSecond = 100
    MantissaBits = 12
INVARIANT RepeatedIsRead
CHECK_DEADLOCK FALSE
