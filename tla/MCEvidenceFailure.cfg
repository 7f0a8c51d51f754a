SPECIFICATION Spec
CONSTANTS
    Instruments = {1}
    Window = 1
    MaximumBarAge = 1
    MaximumQuoteAge = 1
    MaximumFeatureAge = 1
    MaximumRecords = 5
    None = None
    Attempts = 2
    Times = {1, 2}
    Frames <- MCFrames
    Observations <- MCObservations
    MaxFailures = 1
    MaxRegressions = 1
PROPERTY ReconnectsOnlyAfterTransportLoss
CHECK_DEADLOCK FALSE
