SPECIFICATION Spec
CONSTANTS
    Tx = {t1, t2}
    Dests <- D1
    CodeOf <- SameCode
    Parsed = {}
    Counts <- OneOrTwo
    Overrides = {}
    Edits <- Recounts
    MaxNo <- TwoEach
    MaxId = 2
    Ops <- AllOps
    SetTo = {"LOADING_IN_PROGRESS"}
    LowCapacity = 2040
    OtherCapacity = 2640
    Yeg1Extra = 4
    MinVolume = 10
    NoCount = NoCount
    Lines <- Boundaries
    Null = Null
    Keep = Keep
    Nobody = Nobody
INVARIANTS TypeOK PrintedOnCurrentFile
PROPERTIES HistoryStays CommittedCountsMatch
SYMMETRY Interchangeable
