----------------------------- MODULE ChainState -----------------------------
(***************************************************************************)
(* The ledger of BlockChainState.cpp under the block tree of BlockChain:   *)
(* spent key images, outputs by amount and global index with their spent   *)
(* flags, the output indices of each block, the transaction index and the  *)
(* time index.  add_block is taken apart into the undo_block and           *)
(* redo_block of single blocks, and a restart may come between any two.    *)
(*                                                                         *)
(* The specification implements BlockChain (Refines): whether a block can  *)
(* be redone, a constant there, is decided here from the ledger.           *)
(***************************************************************************)
EXTENDS Integers, Sequences, SequencesExt

CONSTANTS
    Blocks, Genesis, Path, Difficulty, CommitEvery, MaxCrashes,  \* see BlockChain
    Stamp,      \* Stamp[b]: the timestamp of b
    Body,       \* Body[b]: the transactions of b, the base transaction first
    Tx,         \* Tx[t]: inputs, number of outputs by amount, unlock height of t
    Amounts,    \* output amounts
    LockDelta   \* locked_tx_allowed_delta_blocks

Txs == DOMAIN Tx
Unknown == -1   \* an amount that is not in m_next_gi_for_amount

VARIABLES
    tree,     \* the tables of BlockChain
    ledger,   \* the tables of BlockChainState
    gi,       \* m_next_gi_for_amount, the cache of the next global index
    disk,     \* both groups of tables at the last commit
    job,      \* the running call of add_block
    crashes   \* how often the process was restarted

vars == <<tree, ledger, gi, disk, job, crashes>>

Height(b) == Len(Path[b]) - 1
Parent(b) == Path[b][Len(Path[b]) - 1]
Ins(t) == {Tx[t].ins[n] : n \in DOMAIN Tx[t].ins}
Keys(t) == {in.key : in \in Ins(t)}
BlockIns(b) == UNION {Ins(t) : t \in ToSet(Body[b])}
BlockKeys(b) == {in.key : in \in BlockIns(b)}

\* The tree of blocks, its difficulties and bounds: the assumptions of BlockChain.
ASSUME TreeAssumption ==
    /\ IsFiniteSet(Blocks) /\ Genesis \in Blocks
    /\ Path \in [Blocks -> Seq(Blocks)] /\ Path[Genesis] = <<Genesis>>
    /\ \A b \in Blocks :
          /\ Len(Path[b]) >= 1
          /\ Path[b][Len(Path[b])] = b
          /\ Path[b][1] = Genesis
          /\ \A i \in 1..Len(Path[b]) : Path[Path[b][i]] = SubSeq(Path[b], 1, i)
    /\ Difficulty \in [Blocks -> SUBSET Nat]
    /\ \A b \in Blocks : 0 \notin Difficulty[b]
    /\ Difficulty[Genesis] # {}
    /\ CommitEvery \in Nat \ {0, 1} /\ MaxCrashes \in Nat

\* Transactions.  A ring is the list of global indices; the code keeps
\* differences.  `signed' are the output keys the signature was made for.
\* validate_semantic refuses a key image that is in a transaction twice.
ASSUME TxAssumption ==
    \A t \in Txs :
        /\ Tx[t].unlock \in Nat
        /\ Tx[t].outs \in [Amounts -> Nat]
        /\ Tx[t].ins \in Seq(Ins(t))
        /\ \A in \in Ins(t) :
              /\ in.amount \in Amounts
              /\ in.ring \in Seq(Nat) \ {<<>>}
              /\ Len(in.signed) = Len(in.ring)
        /\ \A n, m \in DOMAIN Tx[t].ins : Tx[t].ins[n].key = Tx[t].ins[m].key => n = m

\* A signature over a ring of one output can be made for one key image only.
ASSUME RingAssumption ==
    \A t, u \in Txs : \A in \in Ins(t), jn \in Ins(u) :
        Len(in.ring) = 1 /\ Len(jn.ring) = 1 /\ in.signed[1] = jn.signed[1]
            => in.key = jn.key

(***************************************************************************)
(* What check_standalone_consensus guarantees of a block: only the base    *)
(* transaction has no inputs, and it names its height.  The genesis block  *)
(* holds nothing else.  A key image may well be in two transactions.       *)
(***************************************************************************)
ASSUME BodyAssumption ==
    /\ LockDelta \in Nat
    /\ Stamp \in [Blocks -> Nat]
    /\ Len(Body[Genesis]) = 1
    /\ \A b \in Blocks :
          /\ Body[b] \in Seq(Txs) /\ Body[b] # <<>>
          /\ \A n \in DOMAIN Body[b] : Tx[Body[b][n]].ins = <<>> <=> n = 1
          /\ \A d \in Blocks : Body[b][1] = Body[d][1] => Height(b) = Height(d)

-----------------------------------------------------------------------------
(***************************************************************************)
(* The ledger.  A put that finds its key, a del that does not, and a pop   *)
(* of another output than expected throw and end the process: `trap'.      *)
(***************************************************************************)
EmptyLedger ==
    [keys    |-> {},
     outs    |-> [a \in Amounts |-> <<>>],
     indices |-> [b \in Blocks |-> <<>>],
     pos     |-> {},     \* <<transaction, height>>
     stamps  |-> {},     \* <<timestamp, height>>
     trap    |-> FALSE]

\* The outputs of t with amount a, as push_amount_output stores them.
NewOuts(t, a, h) ==
    [i \in 1..Tx[t].outs[a] |->
        [key |-> <<t, a, i>>, unlock |-> Tx[t].unlock, height |-> h, spent |-> FALSE]]

\* The outputs of amount a of the first n transactions of b, and of all.
FirstOuts(b, n, a) ==
    FlattenSeq([m \in 1..n |-> NewOuts(Body[b][m], a, Height(b))])
BlockOuts(b, a) == FirstOuts(b, Len(Body[b]), a)

\* An input marks an output as spent only when its ring is that output alone.
Spends(in, a, i) == in.amount = a /\ in.ring = <<i - 1>>

SpendOutputs(outs, ins, a, spent) ==
    [i \in DOMAIN outs |->
        IF \E in \in ins : Spends(in, a, i)
          THEN [outs[i] EXCEPT !.spent = spent] ELSE outs[i]]

\* next_global_index_for_amount: from the cache, or from the last record.
NextGlobalIndex(l, g, a) == IF g[a] = Unknown THEN Len(l.outs[a]) ELSE g[a]

\* The global indices redo_block records for the outputs of b.
GlobalIndices(l, g, b) ==
    [n \in DOMAIN Body[b] |->
        [a \in Amounts |->
            [i \in 1..Tx[Body[b][n]].outs[a] |->
                NextGlobalIndex(l, g, a) + Len(FirstOuts(b, n - 1, a)) + i - 1]]]

\* Both redo_block: the block's delta is applied (key images, outputs, spent
\* flags), its indices are stored, then its time and its transactions.
RedoBlock(l, g, b) ==
    [keys    |-> l.keys \cup BlockKeys(b),
     outs    |-> [a \in Amounts |->
                    SpendOutputs(l.outs[a] \o BlockOuts(b, a), BlockIns(b), a, TRUE)],
     indices |-> [l.indices EXCEPT ![b] = GlobalIndices(l, g, b)],
     pos     |-> l.pos \cup {<<t, Height(b)>> : t \in ToSet(Body[b])},
     stamps  |-> l.stamps \cup {<<Stamp[b], Height(b)>>},
     trap    |-> \/ l.trap
                 \/ l.keys \cap BlockKeys(b) # {}
                 \/ l.indices[b] # <<>>
                 \/ \E p \in l.pos : p[1] \in ToSet(Body[b])
                 \/ <<Stamp[b], Height(b)>> \in l.stamps]

\* The outputs that remain of amount a when t is undone, and whether those
\* that go are the ones t has pushed.
Kept(l, t, a) == Len(l.outs[a]) - Tx[t].outs[a]
PopOk(l, t, a) ==
    /\ Kept(l, t, a) >= 0
    /\ \A i \in 1..Tx[t].outs[a] :
          LET o == l.outs[a][Kept(l, t, a) + i]
          IN  ~o.spent /\ o.unlock = Tx[t].unlock /\ o.key = <<t, a, i>>

\* Mutants of UndoTransaction: spent flags are not cleared, or key images are
\* not deleted.
UndoTransactionKeepsSpent(l, t) ==
    [l EXCEPT !.keys = @ \ Keys(t),
              !.outs = [a \in Amounts |-> SubSeq(l.outs[a], 1, Kept(l, t, a))]]
UndoTransactionKeepsKeys(l, t) ==
    [l EXCEPT !.outs = [a \in Amounts |->
                          SpendOutputs(SubSeq(l.outs[a], 1, Kept(l, t, a)), Ins(t), a, FALSE)]]

\* undo_transaction: the outputs are popped, then the inputs are freed.
UndoTransaction(l, t) ==
    [l EXCEPT !.keys = @ \ Keys(t),
              !.outs = [a \in Amounts |->
                          SpendOutputs(SubSeq(l.outs[a], 1, Kept(l, t, a)), Ins(t), a, FALSE)],
              !.trap = \/ @
                       \/ \E a \in Amounts : ~PopOk(l, t, a)
                       \/ ~(Keys(t) \subseteq l.keys)]

\* Mutant of UndoTransactions: first to last.
UndoTransactionsForward(l, b) ==
    LET undone[n \in 0..Len(Body[b])] ==
            IF n = 0 THEN l ELSE UndoTransaction(undone[n - 1], Body[b][n])
    IN  undone[Len(Body[b])]

\* The transactions of b are undone from the last to the first.
UndoTransactions(l, b) ==
    LET undone[n \in 0..Len(Body[b])] ==
            IF n = 0 THEN l
            ELSE UndoTransaction(undone[n - 1], Body[b][Len(Body[b]) + 1 - n])
    IN  undone[Len(Body[b])]

\* Both undo_block.
UndoBlock(l, b) ==
    LET u == UndoTransactions(l, b)
    IN  [keys    |-> u.keys,
         outs    |-> u.outs,
         indices |-> [l.indices EXCEPT ![b] = <<>>],
         pos     |-> {p \in l.pos : p[1] \notin ToSet(Body[b])},
         stamps  |-> l.stamps \ {<<Stamp[b], Height(b)>>},
         trap    |-> \/ u.trap
                     \/ l.indices[b] = <<>>
                     \/ \E t \in ToSet(Body[b]) : \A p \in l.pos : p[1] # t
                     \/ <<Stamp[b], Height(b)>> \notin l.stamps]

\* Mutant of Counted: pops leave the cache alone.
CountedPushes(l, g, b, n) ==
    [a \in Amounts |->
        IF BlockOuts(b, a) = <<>> \/ n < 0 THEN g[a]
        ELSE NextGlobalIndex(l, g, a) + Len(BlockOuts(b, a))]

\* The cache follows each output that is pushed (n = 1) or popped (n = -1).
Counted(l, g, b, n) ==
    [a \in Amounts |->
        IF BlockOuts(b, a) = <<>> THEN g[a]
        ELSE NextGlobalIndex(l, g, a) + n * Len(BlockOuts(b, a))]

\* Mutant of Found: the key image is not looked up.
FoundSpent(l, b, in) ==
    \A i \in DOMAIN in.ring :
        /\ in.ring[i] < Len(l.outs[in.amount])
        /\ Height(b) + LockDelta >= l.outs[in.amount][in.ring[i] + 1].unlock

\* start_work_get_error of the RingChecker: an input is unspent, and its ring
\* is there and unlocked.  It looks at the tables, not at the rest of the block.
Found(l, b, in) ==
    /\ in.key \notin l.keys
    /\ \A i \in DOMAIN in.ring :
          /\ in.ring[i] < Len(l.outs[in.amount])
          /\ Height(b) + LockDelta >= l.outs[in.amount][in.ring[i] + 1].unlock

\* signatures_valid: the ring signature fits the keys at the global indices.
SignatureOk(l, in) ==
    \A i \in DOMAIN in.ring : l.outs[in.amount][in.ring[i] + 1].key = in.signed[i]

\* One key image in two transactions of the block: store_keyimage of the
\* block's delta throws.
KeyTwice(b) ==
    \E n, m \in DOMAIN Body[b] : n # m /\ Keys(Body[b][n]) \cap Keys(Body[b][m]) # {}

AllFound(l, b) == \A in \in BlockIns(b) : Found(l, b, in)
CanRedo(l, b) ==
    /\ AllFound(l, b) /\ ~KeyTwice(b)
    /\ \A in \in BlockIns(b) : SignatureOk(l, in)

-----------------------------------------------------------------------------
(***************************************************************************)
(* What the tables of a chain should be, from the chain alone.             *)
(***************************************************************************)
ChainIns(c) == UNION {BlockIns(c[i]) : i \in DOMAIN c}
ChainOuts(c, a) == FlattenSeq([i \in DOMAIN c |-> BlockOuts(c[i], a)])

ReplayOuts(c, a) == SpendOutputs(ChainOuts(c, a), ChainIns(c), a, TRUE)

\* The outputs of b are numbered after those of its ancestors.
ReplayIndices(b) ==
    [n \in DOMAIN Body[b] |->
        [a \in Amounts |->
            [i \in 1..Tx[Body[b][n]].outs[a] |->
                Len(ChainOuts(SubSeq(Path[b], 1, Height(b)), a))
                    + Len(FirstOuts(b, n - 1, a)) + i - 1]]]

Replay(c) ==
    [keys    |-> {in.key : in \in ChainIns(c)},
     outs    |-> [a \in Amounts |-> ReplayOuts(c, a)],
     indices |-> [b \in Blocks |-> IF b \in ToSet(c) THEN ReplayIndices(b) ELSE <<>>],
     pos     |-> UNION {{<<t, i - 1>> : t \in ToSet(Body[c[i]])} : i \in DOMAIN c},
     stamps  |-> {<<Stamp[c[i]], i - 1>> : i \in DOMAIN c},
     trap    |-> FALSE]

\* Redoable by the chain that leads to the block, whatever else happened.
Redoable ==
    {b \in Blocks : b = Genesis \/ CanRedo(Replay(Path[Parent(b)]), b)}

-----------------------------------------------------------------------------
(***************************************************************************)
(* The abstract tree: while add_block runs, BlockChain is where it was     *)
(* when the call began.                                                    *)
(***************************************************************************)
BC == INSTANCE BlockChain WITH
        db <- (IF job.phase = "idle" THEN tree ELSE job.before),
        disk <- disk.tree, ImportChains <- {}

Idle == [phase |-> "idle", block |-> Genesis, before |-> BC!EmptyDb({}, <<>>)]

Genesised(l) == RedoBlock(l, [a \in Amounts |-> Unknown], Genesis)

Init ==
    /\ disk = [tree |-> BC!EmptyDb({}, <<>>), ledger |-> EmptyLedger]
    /\ \E w \in Difficulty[Genesis] : tree = BC!AddGenesis(disk.tree, w)
    /\ ledger = Genesised(disk.ledger)
    /\ gi = Counted(disk.ledger, [a \in Amounts |-> Unknown], Genesis, 1)
    /\ job = Idle
    /\ crashes = 0

Commits(ban) ==
    disk' = IF BC!CommitDue(tree') /\ ~ban
              THEN [tree |-> tree', ledger |-> ledger'] ELSE disk

\* The early returns: a known block, an orphan (NOTHING) or one that fails
\* check_standalone_consensus (BAN).
AddBlockReturns == job.phase = "idle" /\ UNCHANGED vars

\* A block that is not heavier than the tip is stored, and that is all.
AddSideBlock(b, w) ==
    /\ job.phase = "idle" /\ BC!Processable(b) /\ ~BC!Heavier(b, w)
    /\ tree' = BC!Stored(tree, b, w)
    /\ UNCHANGED <<ledger, gi, job, crashes>>
    /\ Commits(FALSE)

\* A heavier block is stored and the switch to its branch begins.
StartSwitch(b, w) ==
    /\ job.phase = "idle" /\ BC!Processable(b) /\ BC!Heavier(b, w)
    /\ tree' = BC!Stored(tree, b, w)
    /\ job' = [phase |-> "switch", block |-> b, before |-> tree]
    /\ UNCHANGED <<ledger, gi, disk, crashes>>

OnBranch == \E i \in DOMAIN Path[job.block] : Path[job.block][i] = BC!Tip(tree)

\* The tip is not an ancestor of the new block: undo it.
Undo ==
    /\ job.phase = "switch" /\ ~OnBranch
    /\ LET b == BC!Tip(tree)
       IN  /\ ledger' = UndoBlock(ledger, b)
           /\ gi' = Counted(ledger, gi, b, -1)
           /\ tree' = [tree EXCEPT !.chain = SubSeq(@, 1, Len(@) - 1)]
    /\ UNCHANGED <<disk, job, crashes>>

NextBlock == Path[job.block][Len(tree.chain) + 1]

\* The tip is an ancestor: redo the next block of the branch.
Redo ==
    /\ job.phase = "switch" /\ OnBranch /\ BC!Tip(tree) # job.block
    /\ CanRedo(ledger, NextBlock)
    /\ ledger' = RedoBlock(ledger, gi, NextBlock)
    /\ gi' = Counted(ledger, gi, NextBlock, 1)
    /\ tree' = BC!PushChain(tree, NextBlock)
    /\ UNCHANGED <<disk, job, crashes>>

\* Mutant of EndSwitch: a block that fails does not end the loop.
EndSwitchAtBlock ==
    /\ job.phase = "switch" /\ BC!Tip(tree) = job.block
    /\ job' = Idle
    /\ UNCHANGED <<tree, ledger, gi, crashes>>
    /\ Commits(FALSE)

\* The delta of the next block throws.  That is before its signatures are
\* awaited and before anything is stored; add_block catches it and exits.
DeltaThrows(b) == AllFound(ledger, b) /\ KeyTwice(b)
ExitProcess ==
    /\ job.phase = "switch" /\ OnBranch /\ BC!Tip(tree) # job.block
    /\ DeltaThrows(NextBlock)
    /\ job' = [phase |-> "exit", block |-> job.block, before |-> job.before]
    /\ UNCHANGED <<tree, ledger, gi, disk, crashes>>

\* The new tip is reached, or the next block fails: add_block returns.
EndSwitch ==
    /\ job.phase = "switch" /\ OnBranch
    /\ BC!Tip(tree) # job.block => ~CanRedo(ledger, NextBlock) /\ ~DeltaThrows(NextBlock)
    /\ job' = Idle
    /\ UNCHANGED <<tree, ledger, gi, crashes>>
    /\ Commits(BC!Tip(tree) # job.block /\ Parent(job.block) = BC!Tip(job.before))

\* next_global_index_for_amount of a query (get_random_outputs), or of the
\* redo_block that failed just before: it fills the cache.
LookUp(a) ==
    /\ job.phase = "idle" /\ gi[a] = Unknown
    /\ gi' = [gi EXCEPT ![a] = NextGlobalIndex(ledger, gi, a)]
    /\ UNCHANGED <<tree, ledger, disk, job, crashes>>

DbCommit ==
    /\ job.phase = "idle" /\ disk # [tree |-> tree, ledger |-> ledger]
    /\ disk' = [tree |-> tree, ledger |-> ledger]
    /\ UNCHANGED <<tree, ledger, gi, job, crashes>>

\* No process is left; someone may start it again.
Exited == job.phase = "exit" /\ UNCHANGED vars

\* The process ends at any point and starts from the last commit.
Restart ==
    /\ crashes < MaxCrashes
    /\ crashes' = crashes + 1
    /\ BC!Opened(disk.tree, tree')
    /\ ledger' = IF disk.tree.chain = <<>> THEN Genesised(disk.ledger) ELSE disk.ledger
    /\ gi' = IF disk.tree.chain = <<>>
               THEN Counted(disk.ledger, [a \in Amounts |-> Unknown], Genesis, 1)
               ELSE [a \in Amounts |-> Unknown]
    /\ job' = Idle
    /\ UNCHANGED disk

Next ==
    \/ AddBlockReturns
    \/ \E b \in Blocks : \E w \in Difficulty[b] : AddSideBlock(b, w) \/ StartSwitch(b, w)
    \/ Undo
    \/ Redo
    \/ EndSwitch
    \/ ExitProcess
    \/ Exited
    \/ \E a \in Amounts : LookUp(a)
    \/ DbCommit
    \/ Restart

\* add_block runs to its end unless the process does not.
Spec == Init /\ [][Next]_vars /\ WF_vars(Undo \/ Redo \/ EndSwitch \/ ExitProcess)

-----------------------------------------------------------------------------
\* Every global index that the chain's blocks have recorded leads to the output
\* it was recorded for.
IndicesLead ==
    \A b \in ToSet(tree.chain) : \A n \in DOMAIN Body[b], a \in Amounts :
        \A i \in 1..Tx[Body[b][n]].outs[a] :
            /\ ledger.indices[b][n][a][i] < Len(ledger.outs[a])
            /\ ledger.outs[a][ledger.indices[b][n][a][i] + 1].key = <<Body[b][n], a, i>>

\* undo_block is the exact inverse of redo_block: at every step of every
\* reorganization, and in every commit, the ledger is the one that the tip
\* chain alone determines.  No key image, spent flag, output, output index or
\* transaction position survives from an abandoned branch, and every recorded
\* global index leads to its output.
LedgerIsReplay ==
    /\ ledger = Replay(tree.chain)
    /\ disk.tree.chain # <<>> => disk.ledger = Replay(disk.tree.chain)
    /\ IndicesLead

\* No check of the ledger's tables ends the process: nothing is stored in them
\* twice, deleted when absent, or popped out of order (pop_amount_output's
\* invariants), whatever blocks come.  What does end it is a key image that is
\* twice in a block, in the delta, with the tables untouched (ExitProcess).
NothingTraps == ~ledger.trap

\* The cached next global index of an amount is the number of its outputs,
\* also after undone blocks and restarts.
GlobalIndexCacheExact ==
    \A a \in Amounts : gi[a] \in {Unknown, Len(ledger.outs[a])}

\* No key image is spent by two transactions of the main chain, of one block
\* or of two, and no transaction is on it twice, whichever branch it was first
\* seen on.
NoDoubleSpend ==
    LET c == tree.chain
    IN  \A i, j \in DOMAIN c : \A n \in DOMAIN Body[c[i]], m \in DOMAIN Body[c[j]] :
            LET t == Body[c[i]][n]
                u == Body[c[j]][m]
            IN  /\ t = u => i = j /\ n = m
                /\ \A x \in DOMAIN Tx[t].ins, y \in DOMAIN Tx[u].ins :
                      Tx[t].ins[x].key = Tx[u].ins[y].key => i = j /\ n = m /\ x = y

\* add_block as a whole does what BlockChain says, and nothing else is seen
\* between two calls: a reorganization that is undone and redone block by
\* block, interrupted by a failing block or by a restart, is one step of the
\* abstract tree, and what can be redone depends on the branch alone.
Refines == BC!Spec

\* The undo and redo loops end: add_block returns, or the process is over.
SwitchEnds == job.phase = "switch" ~> job.phase # "switch"
=============================================================================
