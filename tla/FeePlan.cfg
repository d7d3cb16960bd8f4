CONSTANTS
    WordBits = 14
    V2 = TRUE
    gasFeeTransfer = 3
    gasFeeQuery = 1
    feeMultiplier = 3
    feeShift = 1
    gasFeePerByte = 1
    minimumGasBill = 20
    minimumGasOffer = 30
    dataEscrowPerRow = 2
    priceBase = 8
    priceSymbol = 4
    priceSeries = 5
    priceName = 4
    maxSymbolLength = 2
    maxNameLength = 3
    UnitsPerByte = 1
    EnvelopeSize = 2
    ScriptUnits = 9
    ScriptEvents = 2
    ScriptRows = 1
    Statements <- SomeStatements
    Counts = {0, 1, 2}
    Rows = {0, 2}
    Lengths = {0, 1, 2, 3}
    MaxCalls = 2
    MaxReturned = 1
SPECIFICATION Spec
CHECK_DEADLOCK FALSE
INVARIANTS
    BillCovered
    EscrowCovered
    ExactIsTheBill
    PlanInv
