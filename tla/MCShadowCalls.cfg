SPECIFICATION CallsSpec
CONSTANTS
    Instruments = {1, 2}
    Window = 2
    MaximumBarAge = 1
    MaximumQuoteAge = 1
    MaximumFeatureAge = 2
    MaximumRecords = 5
    None = None
    Times = {2, 3, 4}
    Observations <- MCObservations
INVARIANTS ReplayReproduces AcceptedOnceInOrder SignalsAreCurrent
    EvidenceIsCurrent
PROPERTY TerminalIsFinal
