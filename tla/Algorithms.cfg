SPECIFICATION CallsSpec
CONSTANTS
    Number <- NumberDef
    WordOrder <- WordOrderDef
    Versions <- VersionsDef
    Oversized = {2}
    Rows <- RowsDef
    MaxRows = 3
    AddressBits = 4
    MaxTargets = 17
    FirstTargets = 2
    MaxTokens = 2
    MaxLines = 1
    LineMax = 4
    SpecTokens <- SpecTokensDef
    FileLines <- FileLinesDef
    Faults <- FaultsDef
    FaultyTokens = 2
    MaxPort = 16
    MaxPortTokens = 2
    PortTokens <- PortTokensDef
    FirstDays = {0, 1, 1900, 1969, 1999, 2024, 2099, 9999}
    WalkDays = 430
    Moments = {0, 86399999, 45296070}
    LeadBytes <- LeadBytesDef
    OtherBytes <- OtherBytesDef
    MaxBytes = 5
    KeyMaxLen = 5
    ValueMaxLen = 4
    KeyChars <- KeyCharsDef
    HtmlChars <- HtmlCharsDef
    UrlChars <- UrlCharsDef
    MaxText = 4
    SizeMax = 15
    FirstCap = 2
INVARIANTS VersionOrderIsSound VerdictIsPerCve ScopeIsExact GateIsExact ReportIsFaithful InstantsAreExact
