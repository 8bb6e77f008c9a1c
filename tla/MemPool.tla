------------------------------- MODULE MemPool -------------------------------
(***************************************************************************)
(* The transaction pool of BlockChainState.cpp: the transactions by hash,  *)
(* an index by key image, an index by fee per byte, the total size and the *)
(* pool version.  add_transaction admits a transaction, displacing pool    *)
(* transactions that spend the same key image and trimming the cheapest    *)
(* ones; a block that joins the tip chain evicts what it makes a double    *)
(* spend; a reorganization rebuilds the pool.                              *)
(*                                                                         *)
(* The tip chain is the sequence of the transaction sets of its blocks.    *)
(* reorganize_blocks and on_reorganization run in one call of add_block;   *)
(* they are taken apart here into one step per block and per transaction,  *)
(* and nothing else happens until `phase' is "idle" again.                 *)
(***************************************************************************)
EXTENDS Integers, Sequences, FiniteSets, FiniteSetsExt

CONSTANTS
    Txs,          \* transaction hashes, in their order
    KeyImages,    \* key images, in their order
    Inputs,       \* Inputs[t]: the key images t spends, in the order of its inputs
    FeePerByte,   \* fee / binary size, as the pool compares it
    Size,         \* binary size
    Semantic,     \* transactions that validate_semantic accepts
    Redo(_, _),   \* Redo(t, c): redo_transaction_get_error accepts t on chain c
    BlockBodies,  \* transaction sets that blocks carry
    MaxPoolSize,  \* MAX_POOL_SIZE
    MaxHeight,    \* bound on the length of the chain
    MaxVersion    \* bound on the pool version at which transactions arrive

NoTx == 0         \* Hash(), and a key image that is not in the index
Keys(t) == {Inputs[t][i] : i \in DOMAIN Inputs[t]}

ASSUME TxAssumption ==
    /\ Txs \subseteq Nat \ {NoTx} /\ IsFiniteSet(Txs)
    /\ KeyImages \subseteq Nat
    /\ Inputs \in [Txs -> Seq(KeyImages)]
    /\ FeePerByte \in [Txs -> Nat]
    /\ Size \in [Txs -> Nat \ {0}]
    /\ Semantic \subseteq Txs
    /\ BlockBodies \subseteq SUBSET Semantic
    /\ MaxPoolSize \in Nat \ {0} /\ MaxHeight \in Nat /\ MaxVersion \in Nat

\* The blocks' bodies are free of double spends: RingChecker and DeltaState.
ASSUME BodyAssumption ==
    \A B \in BlockBodies : \A t, u \in B : t # u => Keys(t) \cap Keys(u) = {}

VARIABLES
    mem,       \* the pool: transactions, both indices and the total size
    version,   \* m_tx_pool_version
    chain,     \* the transactions of the blocks of the tip chain
    spent,     \* the key images stored in the database
    phase,     \* "idle", or how far a reorganization has come
    old,       \* transactions of the former pool still to be added again
    undone,    \* transactions of undone blocks still to be added again
    undoneBlocks,   \* a block was undone
    last,      \* the last call of add_transaction and its result
    expected   \* history: what the running reorganization has to add again

vars == <<mem, version, chain, spent, phase, old, undone, undoneBlocks, last, expected>>

-----------------------------------------------------------------------------
\* The order of m_memory_state_fee_tx: by fee per byte, then by hash.
Rank(t) == <<FeePerByte[t], t>>
Below(p, q) == p[1] < q[1] \/ (p[1] = q[1] /\ p[2] < q[2])

SumSize(S) == MapThenSumSet(LAMBDA t : Size[t], S)

EmptyPool ==
    [txs |-> {}, ki |-> [k \in KeyImages |-> NoTx], fees |-> {}, size |-> 0]

\* Mutant of RemoveFromPool: only the first input's key image is erased.
RemoveFirstKeyOnly(m, R) ==
    [txs  |-> m.txs \ R,
     ki   |-> [k \in KeyImages |-> IF \E t \in R : k = Inputs[t][1] THEN NoTx ELSE m.ki[k]],
     fees |-> m.fees \ {Rank(t) : t \in R},
     size |-> m.size - SumSize(R)]

\* remove_from_pool of every transaction of R: all its records go.
RemoveFromPool(m, R) ==
    [txs  |-> m.txs \ R,
     ki   |-> [k \in KeyImages |-> IF \E t \in R : k \in Keys(t) THEN NoTx ELSE m.ki[k]],
     fees |-> m.fees \ {Rank(t) : t \in R},
     size |-> m.size - SumSize(R)]

\* The pool transactions that the index by key image names for the keys K.
Holders(m, K) == {t \in m.txs : \E k \in K : m.ki[k] = t}

Inserted(m, t) ==
    [txs  |-> m.txs \cup {t},
     ki   |-> [k \in KeyImages |-> IF k \in Keys(t) THEN t ELSE m.ki[k]],
     fees |-> m.fees \cup {Rank(t)},
     size |-> m.size + Size[t]]

\* Mutant of Trimmed: the pool may stay one transaction too large.
TrimmedLate(m) ==
    RemoveFromPool(m,
        {t \in m.txs :
            m.size - SumSize({u \in m.txs : Rank(u) \in m.fees /\ ~Below(Rank(t), Rank(u))})
                > MaxPoolSize})

\* The trimming loop: the cheapest transaction goes as long as the pool does
\* not fall below the limit by it.
Trimmed(m) ==
    RemoveFromPool(m,
        {t \in m.txs :
            m.size - SumSize({u \in m.txs : Rank(u) \in m.fees /\ ~Below(Rank(t), Rank(u))})
                >= MaxPoolSize})

-----------------------------------------------------------------------------
(***************************************************************************)
(* The early returns of add_transaction, in their order.                   *)
(***************************************************************************)
\* minimum_pool_fee_per_byte: the first record of the index by fee.
MinimalRank(m) ==
    IF m.fees = {} THEN <<0, NoTx>>
    ELSE CHOOSE p \in m.fees : \A q \in m.fees : ~Below(q, p)

\* Mutant of FullOfBetter: equal fees are not decided by the hash.
FullOfDearer(t) == mem.size >= MaxPoolSize /\ FeePerByte[t] < MinimalRank(mem)[1]

FullOfBetter(t) == mem.size >= MaxPoolSize /\ Below(Rank(t), MinimalRank(mem))

\* The first input in conflict with the pool decides; the loop ends there.
BelowFirstConflict(t) ==
    \E i \in DOMAIN Inputs[t] :
        /\ mem.ki[Inputs[t][i]] # NoTx
        /\ \A j \in 1 .. i - 1 : mem.ki[Inputs[t][j]] = NoTx
        /\ Below(Rank(t), Rank(mem.ki[Inputs[t][i]]))

Refusal(t) ==
    IF t \in mem.txs THEN "ALREADY_IN_POOL"
    ELSE IF FullOfBetter(t) \/ BelowFirstConflict(t) THEN "INCREASE_FEE"
    ELSE IF Keys(t) \cap spent # {} THEN "OUTPUT_ALREADY_SPENT"
    ELSE IF t \notin Semantic THEN "BAN"
    ELSE IF ~Redo(t, chain) THEN "FAILED_TO_REDO"
    ELSE "none"

\* The second loop, over the key images in their order: each conflicting pool
\* transaction is removed, until one is better than t.
BetterConflicts(t) ==
    {k \in Keys(t) : mem.ki[k] # NoTx /\ Below(Rank(t), Rank(mem.ki[k]))}

Displaced(t) ==
    Holders(mem, {k \in Keys(t) : \A b \in BetterConflicts(t) : k < b})

\* What a call of add_transaction does to the pool, the version and `last'.
Adds(t) ==
    \/ /\ Refusal(t) # "none"
       /\ last' = <<t, Refusal(t)>>
       /\ UNCHANGED <<mem, version>>
    \/ /\ Refusal(t) = "none" /\ BetterConflicts(t) # {}
       /\ mem' = RemoveFromPool(mem, Displaced(t))
       /\ last' = <<t, "INCREASE_FEE">>
       /\ UNCHANGED version
    \/ /\ Refusal(t) = "none" /\ BetterConflicts(t) = {}
       /\ mem' = Trimmed(Inserted(RemoveFromPool(mem, Displaced(t)), t))
       /\ version' = version + 1
       /\ last' = <<t, "BROADCAST_ALL">>

-----------------------------------------------------------------------------
Init ==
    /\ mem = EmptyPool /\ version = 2
    /\ chain = <<>> /\ spent = {}
    /\ phase = "idle" /\ old = {} /\ undone = {} /\ undoneBlocks = FALSE
    /\ last = <<NoTx, "none">> /\ expected = {}

\* A transaction from a peer or from the API.
AddTransaction(t) ==
    /\ phase = "idle" /\ version < MaxVersion
    /\ Adds(t)
    /\ UNCHANGED <<chain, spent, phase, old, undone, undoneBlocks, expected>>

\* Mutant of Redone: store_keyimage does not look into the pool.
RedoneWithoutEviction(B) ==
    LET K == UNION {Keys(t) : t \in B}
    IN  /\ Len(chain) < MaxHeight
        /\ K \cap spent = {}
        /\ \A t \in B : Redo(t, chain)
        /\ chain' = Append(chain, B)
        /\ spent' = spent \cup K
        /\ mem' = mem
        /\ version' = 2

\* redo_block and push_chain of a block with the transactions B.
Redone(B) ==
    LET K == UNION {Keys(t) : t \in B}
    IN  /\ Len(chain) < MaxHeight
        /\ K \cap spent = {}
        /\ \A t \in B : Redo(t, chain)
        /\ chain' = Append(chain, B)
        /\ spent' = spent \cup K
        /\ mem' = RemoveFromPool(mem, Holders(mem, K))
        /\ version' = 2

\* A block that extends the tip.
ExtendTip(B) ==
    /\ phase = "idle"
    /\ Redone(B)
    /\ UNCHANGED <<phase, old, undone, undoneBlocks, last, expected>>

\* reorganize_blocks: blocks are undone, then blocks are redone.
StartReorganize ==
    /\ phase = "idle"
    /\ phase' = "undo"
    /\ UNCHANGED <<mem, version, chain, spent, old, undone, undoneBlocks, last, expected>>

UndoBlock ==
    /\ phase = "undo" /\ chain # <<>>
    /\ LET B == chain[Len(chain)]
       IN  /\ spent' = spent \ UNION {Keys(t) : t \in B}
           /\ undone' = undone \cup B
    /\ chain' = SubSeq(chain, 1, Len(chain) - 1)
    /\ undoneBlocks' = TRUE
    /\ UNCHANGED <<mem, version, phase, old, last, expected>>

RedoBlock(B) ==
    /\ phase \in {"undo", "redo"}
    /\ phase' = "redo"
    /\ Redone(B)
    /\ undone' = undone \ B
    /\ UNCHANGED <<old, undoneBlocks, last, expected>>

\* Mutant of OnReorganization: the former pool is cleared and not kept.
OnReorganizationForgets ==
    /\ phase \in {"undo", "redo"}
    /\ phase' = "readd"
    /\ old' = {}
    /\ expected' = mem.txs \cup undone
    /\ mem' = IF undoneBlocks THEN EmptyPool ELSE mem
    /\ UNCHANGED <<version, chain, spent, undone, undoneBlocks, last>>

\* The branch is redone or a block of it failed: on_reorganization begins.
OnReorganization ==
    /\ phase \in {"undo", "redo"}
    /\ phase' = "readd"
    /\ old' = IF undoneBlocks THEN mem.txs ELSE {}
    /\ expected' = mem.txs \cup undone
    /\ mem' = IF undoneBlocks THEN EmptyPool ELSE mem
    /\ UNCHANGED <<version, chain, spent, undone, undoneBlocks, last>>

ReaddOld ==
    /\ phase = "readd"
    /\ \E t \in old :
          /\ \A u \in old : t <= u
          /\ Adds(t)
          /\ old' = old \ {t}
    /\ UNCHANGED <<chain, spent, phase, undone, undoneBlocks, expected>>

ReaddUndone ==
    /\ phase = "readd" /\ old = {}
    /\ \E t \in undone :
          /\ \A u \in undone : t <= u
          /\ Adds(t)
          /\ undone' = undone \ {t}
    /\ UNCHANGED <<chain, spent, phase, old, undoneBlocks, expected>>

FinishReorganization ==
    /\ phase = "readd" /\ old = {} /\ undone = {}
    /\ phase' = "idle" /\ undoneBlocks' = FALSE
    /\ version' = 2 /\ expected' = {}
    /\ UNCHANGED <<mem, chain, spent, old, undone, last>>

Next ==
    \/ \E t \in Txs : AddTransaction(t)
    \/ \E B \in BlockBodies : ExtendTip(B) \/ RedoBlock(B)
    \/ StartReorganize
    \/ UndoBlock
    \/ OnReorganization
    \/ ReaddOld
    \/ ReaddUndone
    \/ FinishReorganization

Spec == Init /\ [][Next]_vars

-----------------------------------------------------------------------------
Results == {"none", "ALREADY_IN_POOL", "INCREASE_FEE", "OUTPUT_ALREADY_SPENT",
            "BAN", "FAILED_TO_REDO", "BROADCAST_ALL"}

\* The types of the pool's tables, the chain and the reorganization's state.
TypeOK ==
    /\ mem \in [txs : SUBSET Txs, ki : [KeyImages -> Txs \cup {NoTx}],
               fees : SUBSET (Nat \X Txs), size : Nat]
    /\ version \in Nat
    /\ chain \in Seq(BlockBodies)
    /\ spent \subseteq KeyImages
    /\ phase \in {"idle", "undo", "redo", "readd"}
    /\ old \subseteq Txs /\ undone \subseteq Txs /\ expected \subseteq Txs
    /\ undoneBlocks \in BOOLEAN
    /\ last \in (Txs \cup {NoTx}) \X Results

\* The indices of m describe its transactions.
Exact(m) ==
    /\ \A k \in KeyImages, t \in Txs : m.ki[k] = t <=> t \in m.txs /\ k \in Keys(t)
    /\ m.fees = {Rank(t) : t \in m.txs}

\* Both indices agree with the pool: a key image leads to the one transaction
\* of the pool that spends it, and the index by fee lists every transaction
\* once, whatever was displaced, trimmed, evicted or added again.  This is
\* what the invariant() calls of add_transaction and remove_from_pool need.
IndicesExact == Exact(mem)

\* No transaction of the pool spends a key image that the chain has spent.
PoolUnspent == \A t \in mem.txs : Keys(t) \cap spent = {}

\* m_memory_state_total_size is the sum of the sizes, and the pool without
\* its cheapest transaction is below the limit.
PoolBounded ==
    /\ mem.size = SumSize(mem.txs)
    /\ mem.txs # {} => mem.size - Size[MinimalRank(mem)[2]] < MaxPoolSize

\* A transaction answered BROADCAST_ALL is in the pool: the trimming at the
\* end of add_transaction never hits the transaction just added.
AcceptedIsInPool ==
    [][version' = version + 1 => last'[1] \in mem'.txs]_vars

\* A reorganization loses no transaction: what was in the pool or in an
\* undone block, and can still be applied to the new tip, is in the pool when
\* on_reorganization ends, unless the pool is full.
ReorganizationKeeps ==
    phase = "readd" /\ old = {} /\ undone = {} =>
        \A t \in expected :
            Keys(t) \cap spent = {} /\ Redo(t, chain) =>
                t \in mem.txs \/ mem.size >= MaxPoolSize

\* What the comment "Never because checked above" says of the INCREASE_FEE
\* of add_transaction's second loop: a transaction that passed the first loop
\* has no better conflict left.
NeverBecauseCheckedAbove ==
    \A t \in Txs :
        phase = "idle" /\ Refusal(t) = "none" => BetterConflicts(t) = {}
=============================================================================
