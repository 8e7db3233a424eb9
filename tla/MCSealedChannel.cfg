SPECIFICATION Spec
CONSTANTS
    P = 5
    Node = {1, 2}
    Faulty = {3}
    Key <- MCKey
    Session = 2
    Round = 2
    Past <- MCPast
    Polynomial <- MCPolynomial
    FaultyCommitment <- MCCommitment
    Arrivals <- MCArrivals
    FaultyPlaintext <- MCPlaintext
    None = None
INVARIANTS
    TypeOK
    HonestNotAccused
    PairNotSplit
    OpenersAgree
    SameBroadcastsOpen
PROPERTY
    ImplementsDelivery
CHECK_DEADLOCK FALSE
