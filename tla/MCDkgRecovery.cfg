SPECIFICATION FairCeremony
CONSTANTS
    N = 3
    T = 2
    Epoch = 2
    None = None
    Faulty = {3}
    Replayed = {}
    FaultyPackages <- MCEquivocating
    FaultySealed <- MCGoodSealed
    Fabricated <- MCMadeUp
PROPERTIES
    RoundOneCompletes
    FinalizesOnceServed
CHECK_DEADLOCK FALSE
