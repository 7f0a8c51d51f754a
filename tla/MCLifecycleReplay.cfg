SPECIFICATION ReconstructionSpec
CONSTANTS
    MaxQuoteAge = 3
    CrossedRefs = {2}
    Model = "model"
    NoQuote = NoQuote
    NoAction = NoAction
    NoPosition = NoPosition
    NoAttempt = NoAttempt
    NoOutcome = NoOutcome
    NoReconstruction = NoReconstruction
    MaxAltered = 4
    Instruments = {1, 2}
    Universe <- MCUniverse
    QuoteUniverse <- MCQuotes
    MaxEvents = 6
    MaxQuotes = 2
INVARIANTS
    TypeOK
    FillsAlternate
    ConflictsActOnNothing
    NoOpportunitySkipped
    PrefixStable
    ReconstructionAccounts
    AlterationsAreRefused
PROPERTIES
    ImplementsCycle
CHECK_DEADLOCK FALSE
