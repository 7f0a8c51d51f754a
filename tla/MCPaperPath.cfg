SPECIFICATION Spec
CONSTANTS
    MinExponent <- MCMinExponent
    ClientId <- MCClientId
    NoOrder = NoOrder
    NoError = NoError
    Raised = Raised
    Candidates <- MCCandidates
    Steps <- MCSteps
    ScriptLength = 2
    MaxCalls = 3
    MaxRestarts = 1
INVARIANTS
    ClientIdsNameOpportunities
    ConflictIffMateriallyChanged
    AcceptedOrderIsTheRequested
CHECK_DEADLOCK FALSE
