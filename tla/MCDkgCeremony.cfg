SPECIFICATION CeremonySpec
CONSTANTS
    N = 3
    T = 2
    Epoch = 2
    None = None
    Faulty = {3}
    Replayed = {}
    FaultyPackages <- MCEquivocating
    FaultySealed <- MCFaultySealed
    Fabricated <- MCTwice
INVARIANTS
    CeremonyTypeOK
    StateDerivesKeyOfShare
    KeyWithoutCondemned
    HonestNotVotedOut
    HonestAccuserNeverFlagged
PROPERTY
    ImplementsOneKey
CHECK_DEADLOCK FALSE
