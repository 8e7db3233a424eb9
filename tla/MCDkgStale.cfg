SPECIFICATION CeremonySpec
CONSTANTS
    N = 3
    T = 2
    Epoch = 2
    None = None
    Faulty = {}
    Replayed = {1}
    FaultyPackages <- MCNone
    FaultySealed <- MCNone
    Fabricated <- MCNone
INVARIANT
    HonestNeverDisqualified
CHECK_DEADLOCK FALSE
