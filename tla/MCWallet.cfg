CONSTANTS
    Blocks <- MCBlocks
    Genesis = "g"
    Parent <- MCParent
    Height <- MCHeight
    Median <- MCHeight
    TxsOf <- MCTxsOf
    Txs <- MCTxs
    Ins <- MCIns
    OutsOf <- MCOutsOf
    Outputs <- MCOutputs
    Amount <- MCAmount
    Addr <- MCAddr
    AddrRank <- MCAddrRank
    Ki <- MCKi
    Unlock <- MCUnlock
    ByHeight = {5}
    k1 = k1
    k2 = k2
    NoKeyImage = NoKeyImage
    Absent = Absent
    Answers <- MCAnswers
    Day = 1
    MaxCrashes = 1
SPECIFICATION Spec
INVARIANTS UndoExact NothingTraps SpendableExact
PROPERTY PaymentKept
