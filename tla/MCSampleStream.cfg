SPECIFICATION FairSpec
CONSTANTS
    DefaultCount = 2
    MaxCount = 3
    OutputLimit = 4
    ReadLimit = 7
    MaxLine = 2
    Bases <- MCBases
    MaxIPs = 2
    StreamTimeout = 1500
    IPTexts <- MCIPTexts
    DomainTexts <- MCDomainTexts
    StreamTexts = {"proxies", "tls", "dns", "..", ""}
    DateTexts <- MCDateTexts
INVARIANTS
    SampleBounded
    NothingDropped
    ObservedOnce
    EndpointExact
    MeteredDeclared
PROPERTIES
    SampleEnds
CHECK_DEADLOCK FALSE
