SPECIFICATION Spec
CONSTANTS
    P = 5
    Dealers = 3
    OldThreshold = 2
    NewThreshold = 2
    Player = {1, 2}
    Faulty = {1}
    Epoch = 2
    Standing <- MCStanding
    Drawn <- MCDrawn
    FaultySubmissions <- MCAlone
    FaultySubShares <- MCAloneShares
    FromState = FALSE
    None = None
INVARIANTS
    SamePolynomial
CHECK_DEADLOCK FALSE
