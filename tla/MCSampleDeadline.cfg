SPECIFICATION ToolsSpec
CONSTANTS
    DefaultCount = 2
    MaxCount = 3
    OutputLimit = 4
    ReadLimit = 7
    MaxLine = 2
    Bases <- MCDefaultBase
    MaxIPs = 2
    StreamTimeout = 1500
    IPTexts <- MCIPTexts
    DomainTexts <- MCDomainTexts
    StreamTexts = {"proxies", "tls", "dns", "..", ""}
    DateTexts <- MCDateTexts
INVARIANT
    DeadlineKeepsSample
CHECK_DEADLOCK FALSE
