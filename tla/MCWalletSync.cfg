CONSTANTS
    Conns = {c1, c2}
    Payments = {1}
    MaxTip = 2
    MaxVersion = 3
    MaxFaults = 2
    None = None
SPECIFICATION FairSpec
INVARIANTS NoInvariantFails OwnAnswers
PROPERTIES Follows PaymentsReachNode
