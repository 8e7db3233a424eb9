SPECIFICATION Spec
CONSTANTS
    Holder = {1, 2, 3, 4}
    Corrupt = {4}
    Threshold = 3
    Session = {1}
    Message = {"pay", "burn"}
    Approved <- MCApproved
    Outer = {"o"}
    MaxDraws = 1
    MadeUp <- MCOwn
    None = None
INVARIANT
    AggregateIsResponse
CHECK_DEADLOCK FALSE
