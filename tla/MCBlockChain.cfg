CONSTANTS
    g = g  a1 = a1  a2 = a2  a3 = a3  b1 = b1  b2 = b2  b3 = b3  c2 = c2
    Blocks <- MCBlocks
    Genesis = g
    Path <- MCPath
    Difficulty <- MCDifficulty
    Redoable <- MCRedoable
    CommitEvery = 3
    ImportChains <- MCImportChains
    MaxCrashes = 2
SPECIFICATION FairSpec
INVARIANTS
    TreeLinked
    TreeCounters
    TipHeaviest
PROPERTIES
    AdoptsHeavierBranch
    WorkLostOnlyToFailedBranch
    ImportModeEnds
