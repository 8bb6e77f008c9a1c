CONSTANTS
    g = g  a1 = a1  a2 = a2  a3 = a3  b1 = b1  b2 = b2  b3 = b3  c2 = c2  d2 = d2
    Blocks <- MCBlocks
    Genesis = g
    Path <- MCPath
    Difficulty <- MCDifficulty
    CommitEvery = 3
    MaxCrashes = 2
    Stamp <- MCStamp
    Body <- MCBody
    Tx <- MCTx
    Amounts = {1, 2}
    LockDelta = 1
SPECIFICATION Spec
INVARIANTS
    LedgerIsReplay
    NothingTraps
    GlobalIndexCacheExact
    NoDoubleSpend
PROPERTIES
    Refines
    SwitchEnds
