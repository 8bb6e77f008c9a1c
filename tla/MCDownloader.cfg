CONSTANTS
    tall = tall  short = short
    Clients = {tall, short}
    NoClient = NoClient
    Serves <- MCServes
    Top = 3
    Window = 2
    MaxBlocks = 2
    GoodLag = 0
    LagLimit = 0
    MaxFaults = 1
SPECIFICATION FairSpec
INVARIANTS
    CountersAgree
    NobodyForgotten
PROPERTIES
    Synchronises
