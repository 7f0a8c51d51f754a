SPECIFICATION Spec
CONSTANTS
    MaxQuoteAge = 1
    CrossedRefs = {2}
    Model = "model"
    NoQuote = NoQuote
    QuoteUniverse <- MCQuotes
    AttemptUniverse <- MCAttempts
    MaxQuotes = 3
    MaxAttempts = 2
PROPERTIES
    OlderQuoteNeverRescues
    OutcomesChangeForCause
CHECK_DEADLOCK FALSE
