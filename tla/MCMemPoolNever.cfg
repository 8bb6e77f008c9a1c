CONSTANTS
    Txs <- MCTxs
    KeyImages = {1, 2, 3}
    Inputs <- MCInputs
    FeePerByte <- MCFee
    Size <- MCSize
    Semantic <- MCSemantic
    Redo <- MCRedo
    BlockBodies <- MCBodies
    MaxPoolSize = 4
    MaxHeight = 3
    MaxVersion = 6
SPECIFICATION Spec
INVARIANTS
    NeverBecauseCheckedAbove
