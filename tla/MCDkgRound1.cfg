SPECIFICATION Spec
CONSTANTS
    N = 3
    T = 2
    Epoch = 2
    None = None
    Faulty = {3}
    Replayed = {1}
    FaultyPackages <- MCFaultyPackages
INVARIANTS
    TypeOK
    ConfirmedAgree
    HonestDealerIntact
    CompleteAccountsForAll
    HandleOnlyShrinks
    LiveHandleHasQuorum
PROPERTY
    DisqualifiedStaysOut
CHECK_DEADLOCK FALSE
