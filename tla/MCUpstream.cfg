SPECIFICATION Spec
CONSTANTS
    Calls = {c1, c2}
    MaxScrapes = 2
SYMMETRY Symmetry
INVARIANTS
    OutcomesAccounted
    AnsweredSeen
    ScrapesGrow
    ResultsFaithful
CHECK_DEADLOCK FALSE
