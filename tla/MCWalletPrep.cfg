CONSTANTS
    old = old  a1 = a1  a2 = a2  b1 = b1  b2 = b2
    Workers = {w1, w2}
    Blocks <- MCBlocks
    Answers <- MCAnswers
    Old = {old}
    NoBlock = NoBlock
    MaxWork = 6
SPECIFICATION FairSpec
INVARIANTS
    RedoneExact
    NothingLost
PROPERTIES
    SyncFinishes
