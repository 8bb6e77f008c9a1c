CONSTANTS
    Outputs = {1, 2, 3, 4, 5, 6, 7, 8, 9, 10}
    Amount <- MCAmount
    Gi <- MCGi
    Requests <- MCRequests
    NoRequest = NoRequest
    ChangeAddr = "me"
    Addrs = {"me", "friend"}
    NodeCount <- MCNodeCount
    Mixable <- MCMixable
    MinCount = 3
    DustLimit = 10
    DustThreshold = 10
    DustSplit = 5
    MinimumFee = 10
    FeePerByte = 2
    Median = 20
    HeaderSize = 1
    OutputSize = 1
    InputSize = 2
    MixSize = 1
    ExpectedChange = 1
    StackThreshold = 2
    StackStep = 2
    TwoThreshold = 2
    MaxDigit = 3
SPECIFICATION FairSpec
INVARIANTS
    PaidInFull
    RefusedRightly
    RingExact
PROPERTIES
    SearchEnds
