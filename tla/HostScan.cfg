SPECIFICATION FairSpec
CONSTANTS
    NotFound = NotFound
    NoAnswer = NoAnswer
    NoText = NoText
    Key <- MCKey
    Hash <- MCHash
    InitialBuckets = 4
    Scenarios <- MCScenarios
    Answers <- MCAnswers
    Writable <- MCWritable
    MaxOps = 1
    KbValue <- MCKbValue
INVARIANTS LoadIsExact TokensFollowTls EveryServiceIsOffered
PROPERTIES KbIsMap HostScanEnds
