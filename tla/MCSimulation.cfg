SPECIFICATION Spec
CONSTANTS
    MaxQuoteAge = 3
    CrossedRefs = {2}
    Model = "model"
    NoQuote = NoQuote
    NoAction = NoAction
    NoPosition = NoPosition
    Instruments = {1, 2}
    Window = 2
    MaxFeatureAge = 1
    Metadata <- MCMetadata
    Supplies <- MCSupplies
    OpportunityUniverse <- MCOpportunities
    QuoteUniverse <- MCQuotes
INVARIANTS
    DecisionsSeeTheReplay
    EverySignalActs
    SignalsAreFreshAndAlternate
    FutureRewritesNothing
CHECK_DEADLOCK FALSE
