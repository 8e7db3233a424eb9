SPECIFICATION FairSpec
CONSTANTS
    P = 5
    Dealers = 4
    OldThreshold = 2
    NewThreshold = 2
    Player = {1, 2}
    Faulty = {1, 2}
    Epoch = 2
    Standing <- MCStanding
    Drawn <- MCDrawn
    FaultySubmissions <- MCColluding
    FaultySubShares <- MCColludingShares
    FromState = TRUE
    None = None
INVARIANTS
    TypeOK
    HonestSetKeepsKey
    CompleteHasEveryDealer
    SamePolynomial
    SecretPreserved
PROPERTIES
    ImplementsHandover
    HonestSetFinalizes
CHECK_DEADLOCK FALSE
