SPECIFICATION Spec
CONSTANTS
    A = A
    B = B
    NoRecord = NoRecord
    NoOrder = NoOrder
    Scope = "paper"
    MaxRestarts = 1
    Ids <- MCIds
    Payloads <- MCPayloads
    Instruments <- MCInstruments
    Intents <- MCIntents
    States <- MCStates
    Features <- MCFeatures
    Quotes <- MCQuotes
    Times <- MCTimes
    Policy <- MCPolicy
INVARIANTS
    OneReservationPerInstrument
    OneDispatchPerIntent
    HandedAsGranted
PROPERTIES
    FirstDecisionFinal
