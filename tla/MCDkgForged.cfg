SPECIFICATION CeremonySpec
CONSTANTS
    N = 3
    T = 2
    Epoch = 2
    None = None
    Faulty = {3}
    Replayed = {}
    FaultyPackages <- MCForging
    FaultySealed <- MCGoodSealed
    Fabricated <- MCNone
PROPERTY
    ImplementsOneKey
CHECK_DEADLOCK FALSE
