SPECIFICATION DeskSpec
CONSTANTS
    A = A
    B = B
    Callers = {c1}
    NoRecord = NoRecord
    NoOrder = NoOrder
    NoSnapshot = NoSnapshot
    Scope = "paper"
    MaxRestarts = 0
    MaxClock = 2
    MaxThrows = 1
    Ids <- MCIds
    Payloads <- MCPayloads
    Instruments <- MCInstruments
    Intents <- MCIntents
    States = {}
    Features <- MCFeatures
    Quotes <- MCQuotes
    Times <- MCTimes
    Policy <- MCPolicy
    InitialHoldings <- MCHoldings
INVARIANTS
    ExposureWithinLimit
PROPERTIES
    OpenOrCloseExactly
    FillFreezesGate
    KillSwitchFreezes
