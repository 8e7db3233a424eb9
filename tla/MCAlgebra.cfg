SPECIFICATION Spec
CONSTANTS
    P = 5
    Base = 6
    Word = 1
    Long = 2
    ScalarBytes = 2
    CoordinateBytes = 1
    DigestBytes = 1
    SigningDomain <- MCSigningDomain
    ComplaintDomain <- MCComplaintDomain
    EchoDomain <- MCEchoDomain
    Modulus = 5
    CurveA = 3
    CurveB = 2
    MaxList = 5
    Holder = {1, 2, 3}
    InnerT = 2
    Position = 3
    Flat = {1, 2}
    FaultyFlat = {2}
    Outer <- MCOuter
    Draws <- MCDraws
    Tails <- MCTails
    None = None
INVARIANTS
    AnswersWhereDefined
    RecoversConstant
    BatchSound
    EncodingsFaithful
    QuorumsReconstruct
CHECK_DEADLOCK FALSE
