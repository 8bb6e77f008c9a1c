------------------------------- MODULE Wallet -------------------------------
(***************************************************************************)
(* WalletState and WalletStateBasic: the wallet's copy of what the block   *)
(* chain says about its own money.  Blocks from the node are redone into a *)
(* key-value database; every change of a key goes with the old value into  *)
(* the undo record of the block, and a block that leaves the chain is      *)
(* undone from its record alone.  Beside the database the wallet keeps, in *)
(* memory, the transactions not yet in a block, and a queue of its own     *)
(* payments with a file for each.                                          *)
(*                                                                         *)
(* A handler that redoes a block makes many calls: `calls' holds the ones  *)
(* still to be run, and no other event is handled before it is empty.  A   *)
(* crash may come at any moment; the database falls back to its last       *)
(* commit, the files of the queue do not.                                  *)
(*                                                                         *)
(* Amounts of outputs are positive, and outputs are numbered in the order  *)
(* of amount and global index; any of them may have their key in common.   *)
(* All blocks are younger than the wallet.                                 *)
(***************************************************************************)
EXTENDS Integers, Sequences, FiniteSets, FiniteSetsExt

CONSTANTS
    Blocks, Genesis,  \* the blocks the node may have, in all branches
    Parent, Height,   \* previous_block_hash and height of a block
    Median,           \* timestamp_median of a block
    TxsOf,            \* transactions of a block, in order
    Txs,              \* all transactions the wallet hears of
    Ins,              \* key images of a transaction's inputs
    OutsOf,           \* its outputs to addresses of the wallet, in order
    Outputs,          \* all of those, natural numbers
    Amount, Addr, Ki, \* fields of an output
    AddrRank,         \* the order of addresses in a map
    Unlock,           \* its unlock time, 0 for none
    ByHeight,         \* outputs whose unlock time is a height
    NoKeyImage,       \* KeyImage{}, of an output without spend key
    Absent,           \* a key that is not in the database
    Answers,          \* bound: the answers of the node that are looked at
    Day,              \* expected_blocks_per_day
    MaxCrashes        \* bound on the number of restarts

ASSUME WalletAssumption ==
    /\ Genesis \in Blocks
    /\ Parent \in [Blocks -> Blocks] /\ Height \in [Blocks -> Nat]
    /\ Height[Genesis] = 0
    /\ \A b \in Blocks \ {Genesis} : Height[b] = Height[Parent[b]] + 1
    /\ TxsOf \in [Blocks -> Seq(Txs)] /\ OutsOf \in [Txs -> Seq(Outputs)]
    /\ Answers \subseteq Seq(Blocks)
    /\ Outputs \subseteq Nat /\ Unlock \in [Outputs -> Nat]
    /\ Amount \in [Outputs -> Nat \ {0}]
    /\ \A o, p \in Outputs : o < p => Amount[o] <= Amount[p]
    /\ AddrRank \in [{Addr[o] : o \in Outputs} -> Nat]
    /\ \A o, p \in Outputs : AddrRank[Addr[o]] = AddrRank[Addr[p]] => Addr[o] = Addr[p]
    /\ Day \in Nat \ {0} /\ MaxCrashes \in Nat

\* A block and those below it: what every set holds that has the block and
\* the parents of its blocks.
Ancestors(b) ==
    {a \in Blocks : \A S \in SUBSET Blocks :
        b \in S /\ (\A x \in S \ {Genesis} : Parent[x] \in S) => a \in S}
TxSet(b) == {TxsOf[b][i] : i \in DOMAIN TxsOf[b]}

\* What consensus guarantees of the node's blocks: no transaction is twice on
\* one branch, as a base transaction names its height and any other spends
\* key images.  An output belongs to one transaction, at one place of it.
ASSUME BranchAssumption ==
    /\ \A b \in Blocks :
          /\ \A i, j \in DOMAIN TxsOf[b] : TxsOf[b][i] = TxsOf[b][j] => i = j
          /\ \A a \in Ancestors(b) \ {b} : TxSet(a) \cap TxSet(b) = {}
    /\ \A t, u \in Txs : \A i \in DOMAIN OutsOf[t], j \in DOMAIN OutsOf[u] :
          OutsOf[t][i] = OutsOf[u][j] => t = u /\ i = j

VARIABLES
    db,       \* the tables under undo, by key
    cur,      \* current_undo_map
    chain,    \* header, undo record and, for the properties, former db, per block
    answer,   \* blocks of the node's answer that are still to be redone
    calls,    \* calls to be run, the next one first
    trapped,  \* a put found its key, a del did not: the process exits
    memTx,    \* keys of m_memory_state.m_transactions
    memOut,   \* outputs in m_memory_state.m_unspents
    pool,     \* m_pool_hashes
    queue,    \* payment_queue: remove_height per transaction, -1 for none
    files,    \* its files
    disk,     \* the last commit
    crashes

tables == <<db, cur, trapped>>
memory == <<memTx, memOut, pool, queue>>
vars == <<tables, chain, answer, calls, memory, files, disk, crashes>>

Heights == {Height[b] : b \in Blocks}
Addrs == {Addr[o] : o \in Outputs}
KeyImages == {Ki[o] : o \in Outputs} \cup UNION {Ins[t] : t \in Txs}
\* The balance of all addresses together is kept under the empty address.
AllAddrs == ""
Keys ==
    ({"unspent"} \X Heights \X Outputs) \cup ({"unlocked"} \X Heights \X Outputs)
    \cup ({"keyimage"} \X KeyImages) \cup ({"locked"} \X Outputs)
    \cup ({"balance"} \X (Addrs \cup {AllAddrs})) \cup ({"tx"} \X Txs)

\* What a key may hold tells it from one that is not there, and the empty
\* address and the null key image belong to nobody.  There are finitely many
\* 32-bit heights, and outputs.
ASSUME ValueAssumption ==
    /\ IsFiniteSet(Heights) /\ IsFiniteSet(Outputs)
    /\ AllAddrs \notin Addrs
    /\ \A t \in Txs : NoKeyImage \notin Ins[t]
    /\ Absent # TRUE /\ Absent \notin Heights /\ Absent \notin Heights \X Outputs
    /\ Absent \notin [locked : Int, spendable : Int]

NoUndo == [k \in {} |-> Absent]
Blank == [k \in Keys |-> Absent]
Tip == chain[Len(chain)].block
TipHeight == IF chain = <<>> THEN -1 ELSE Height[Tip]
Idle == calls = <<>> /\ ~trapped

-----------------------------------------------------------------------------
\* The database with undo.  An intermediate state of it is a record of the
\* tables, the undo map of the block and whether an operation failed.
Now == [db |-> db, cur |-> cur, trapped |-> trapped]

\* Mutant of RecordUndo: the last old value of a key wins, not the first.
RecordUndoLast(u, d, k) == [j \in DOMAIN u \cup {k} |-> IF j = k THEN d[k] ELSE u[j]]

\* record_undo: the value the key had before the block.
RecordUndo(u, d, k) == [j \in DOMAIN u \cup {k} |-> IF j \in DOMAIN u THEN u[j] ELSE d[k]]

PutWithUndo(s, k, v, nooverwrite) ==
    [db |-> [s.db EXCEPT ![k] = v], cur |-> RecordUndo(s.cur, s.db, k),
     trapped |-> s.trapped \/ (nooverwrite /\ s.db[k] # Absent)]

DelWithUndo(s, k, mustexist) ==
    [db |-> [s.db EXCEPT ![k] = Absent], cur |-> RecordUndo(s.cur, s.db, k),
     trapped |-> s.trapped \/ (mustexist /\ s.db[k] = Absent)]

\* Mutant of Restore: keys that were new in the block stay.
RestoreOldValues(d, u) ==
    [k \in Keys |-> IF k \in DOMAIN u /\ u[k] # Absent THEN u[k] ELSE d[k]]

\* undo_db_state: the tables with the values of an undo record put back.
Restore(d, u) == [k \in Keys |-> IF k \in DOMAIN u THEN u[k] ELSE d[k]]

Zero == [locked |-> 0, spendable |-> 0]
BalanceOf(d, a) == IF d[<<"balance", a>>] = Absent THEN Zero ELSE d[<<"balance", a>>]

\* modify_balance of one address: a balance of zero is not kept.
ModifyOne(s, a, dl, ds) ==
    LET was == BalanceOf(s.db, a)
        new == [locked |-> was.locked + dl, spendable |-> was.spendable + ds]
    IN  IF new = Zero THEN DelWithUndo(s, <<"balance", a>>, FALSE)
                      ELSE PutWithUndo(s, <<"balance", a>>, new, FALSE)

ModifyBalance(s, o, locked, spendable) ==
    ModifyOne(ModifyOne(s, Addr[o], locked * Amount[o], spendable * Amount[o]),
              AllAddrs, locked * Amount[o], spendable * Amount[o])

AddToUnspentIndex(s, o, h) ==
    PutWithUndo(ModifyBalance(s, o, 0, 1), <<"unspent", h, o>>, TRUE, TRUE)
RemoveFromUnspentIndex(s, o, h) ==
    DelWithUndo(ModifyBalance(s, o, 0, -1), <<"unspent", h, o>>, TRUE)

\* Both lock indices, by unlock time and by key image, are one table here; its
\* value is the height of the output.
AddToLockIndex(s, o, h) ==
    PutWithUndo(ModifyBalance(s, o, 1, 0), <<"locked", o>>, h, TRUE)

\* Mutant of RemoveFromLockIndex: the balance forgets the wrong side.
RemoveFromLockIndexTwice(s, o) ==
    DelWithUndo(ModifyBalance(s, o, -1, -1), <<"locked", o>>, TRUE)

RemoveFromLockIndex(s, o) ==
    DelWithUndo(ModifyBalance(s, o, -1, 0), <<"locked", o>>, TRUE)

\* read_by_keyimage and read_from_unspent_index: the height and number of the
\* output that stands for a key image, and whether it is unspent.
KnownKeyImage(d, k) == k # NoKeyImage /\ d[<<"keyimage", k>>] # Absent
Standing(d, k) == d[<<"keyimage", k>>]
StandingUnspent(d, k) ==
    KnownKeyImage(d, k) /\ d[<<"unspent", Standing(d, k)[1], Standing(d, k)[2]>>] # Absent

\* A second output with the same key image counts if it is larger and goes to
\* the same address.
Improves(d, o) ==
    KnownKeyImage(d, Ki[o]) =>
        LET p == Standing(d, Ki[o])[2] IN Amount[o] > Amount[p] /\ Addr[o] = Addr[p]
Spent(d, k) == KnownKeyImage(d, k) /\ ~StandingUnspent(d, k)

\* try_add_incoming_output
TryAddIncomingOutput(d, o) == ~Spent(d, Ki[o]) /\ (Unlock[o] # 0 \/ Improves(d, o))

\* The output takes the place of the one its key image stood for, if any.
TakePlace(s, o, h) ==
    LET k == Ki[o]
        freed == IF KnownKeyImage(s.db, k)
                 THEN RemoveFromUnspentIndex(s, Standing(s.db, k)[2], Standing(s.db, k)[1])
                 ELSE s
        added == AddToUnspentIndex(freed, o, h)
    IN  IF k = NoKeyImage THEN added
        ELSE PutWithUndo(added, <<"keyimage", k>>, <<h, o>>, ~KnownKeyImage(s.db, k))

\* add_incoming_output: of a spent key image it is ignored, locked it waits in
\* the lock index, and of two with one key image the larger stays.
AddIncomingOutput(s, o, h, just_unlocked) ==
    IF Spent(s.db, Ki[o]) THEN s
    ELSE IF Unlock[o] # 0 /\ ~just_unlocked THEN AddToLockIndex(s, o, h)
    ELSE IF ~Improves(s.db, o) THEN s
    ELSE TakePlace(s, o, h)

\* unlock of one output in the block at height `now'.
UnlockOutput(s, o, now) ==
    LET h == s.db[<<"locked", o>>]
    IN  PutWithUndo(AddIncomingOutput(RemoveFromLockIndex(s, o), o, h, TRUE),
                    <<"unlocked", now, o>>, h, TRUE)

\* The part of add_incoming_keyimage after the locked outputs are unlocked.
SpendKeyImage(s, k) ==
    IF StandingUnspent(s.db, k)
    THEN RemoveFromUnspentIndex(s, Standing(s.db, k)[2], Standing(s.db, k)[1])
    ELSE s

Locked(d) == {o \in Outputs : d[<<"locked", o>>] # Absent}
LockedWith(d, k) == {o \in Locked(d) : Ki[o] = k /\ k # NoKeyImage}
\* Outputs that the block at the tip unlocks.
Ripe(d, b) ==
    {o \in Locked(d) : Unlock[o] <= (IF o \in ByHeight THEN Height[b] ELSE Median[b])}

-----------------------------------------------------------------------------
\* parse_raw_transaction: whether a transaction is ours, and which of its
\* outputs and key images count, by the tables as they are before it.
Seen(d, k) == StandingUnspent(d, k) \/ LockedWith(d, k) # {}
OurKeyImages(d, t) == {k \in Ins[t] : Seen(d, k)}
Ours(d, t) == OutsOf[t] # <<>> \/ OurKeyImages(d, t) # {}
OutsSet(s) == {s[i] : i \in 1..Len(s)}
Accepted(d, t) == {o \in OutsSet(OutsOf[t]) : TryAddIncomingOutput(d, o)}
\* The same with their places in the transaction.
AcceptedAt(d, t) == {x \in (DOMAIN OutsOf[t]) \X Accepted(d, t) : OutsOf[t][x[1]] = x[2]}

Has(d, t) == d[<<"tx", t>>] # Absent

\* DeltaState: transactions that are taken in and out of the memory state.
MemAdd(ts, d) ==
    LET new == {t \in ts \ memTx : Ours(d, t)}
    IN  [tx |-> memTx \cup new,
         out |-> memOut \cup UNION {Accepted(d, t) : t \in new}]
MemUndo(m, ts) ==
    [tx |-> m.tx \ ts, out |-> m.out \ UNION {OutsSet(OutsOf[t]) : t \in ts \cap m.tx}]
Mem == [tx |-> memTx, out |-> memOut]
SetMem(m) == memTx' = m.tx /\ memOut' = m.out

Set(s) == db' = s.db /\ cur' = s.cur /\ trapped' = s.trapped

-----------------------------------------------------------------------------
\* The calls of redo_block.  A call is a tuple of its name and arguments.
Running(op) == calls # <<>> /\ calls[1][1] = op /\ ~trapped
Arg == calls[1][2]
Rest == Tail(calls)
Each(op, s) == [i \in 1..Len(s) |-> <<op, s[i]>>]
At == Height[answer[1]]

\* redo_transaction up to its parsing; the transaction leaves the memory.
RedoTransaction ==
    /\ Running("redo")
    /\ LET t == Arg
       IN  /\ pool' = pool \ {t}
           /\ SetMem(MemUndo(Mem, {t}))
           /\ calls' = IF Ours(db, t)
                       THEN <<<<"outputs", AcceptedAt(db, t)>>,
                              <<"keyimages", OurKeyImages(db, t)>>, <<"tx", t>>>> \o Rest
                       ELSE Rest
    /\ UNCHANGED <<tables, chain, answer, queue, files, disk, crashes>>

\* Outputs are handled address by address, and in the order of the
\* transaction: the keys of transfer_map_outputs are addresses.
Sooner(x, y) ==
    LET rank(z) == AddrRank[Addr[z[2]]]
    IN  rank(x) < rank(y) \/ (rank(x) = rank(y) /\ x[1] <= y[1])

\* add_incoming_output
AddOutput ==
    /\ Running("outputs")
    /\ IF Arg = {} THEN calls' = Rest /\ UNCHANGED tables
       ELSE \E x \in Arg : /\ \A y \in Arg : Sooner(x, y)
                           /\ Set(AddIncomingOutput(Now, x[2], At, FALSE))
                           /\ calls' = <<<<"outputs", Arg \ {x}>>>> \o Rest
    /\ UNCHANGED <<chain, answer, memory, files, disk, crashes>>

\* add_incoming_keyimage for one of the key images, which unlocks first.
AddKeyImage ==
    /\ Running("keyimages")
    /\ IF Arg = {} THEN calls' = Rest
       ELSE \E k \in Arg : calls' = <<<<"unlock", LockedWith(db, k)>>, <<"spend", k>>,
                                      <<"keyimages", Arg \ {k}>>>> \o Rest
    /\ UNCHANGED <<tables, chain, answer, memory, files, disk, crashes>>

\* unlock, the outputs in the order of their keys.
UnlockNext ==
    /\ Running("unlock")
    /\ IF Arg = {} THEN calls' = Rest /\ UNCHANGED tables
       ELSE \E o \in Arg : /\ \A p \in Arg : o <= p
                           /\ Set(UnlockOutput(Now, o, At))
                           /\ calls' = <<<<"unlock", Arg \ {o}>>>> \o Rest
    /\ UNCHANGED <<chain, answer, memory, files, disk, crashes>>

Spend ==
    /\ Running("spend")
    /\ Set(SpendKeyImage(Now, Arg))
    /\ calls' = Rest
    /\ UNCHANGED <<chain, answer, memory, files, disk, crashes>>

AddTransaction ==
    /\ Running("tx")
    /\ Set(PutWithUndo(Now, <<"tx", Arg>>, At, TRUE))
    /\ calls' = Rest
    /\ UNCHANGED <<chain, answer, memory, files, disk, crashes>>

\* The end of redo_block: what the block unlocks is read once.
UnlockBlock ==
    /\ Running("ripe")
    /\ calls' = <<<<"unlock", Ripe(db, answer[1])>>>> \o Rest
    /\ UNCHANGED <<tables, chain, answer, memory, files, disk, crashes>>

\* push_chain; the third field is kept for the properties.
Pushed(b) == chain \o <<[block |-> b, undo |-> cur, before |-> Restore(db, cur)]>>

PushChain ==
    /\ Running("push")
    /\ chain' = Pushed(answer[1])
    /\ cur' = NoUndo
    /\ answer' = Tail(answer)
    /\ calls' = Rest
    /\ UNCHANGED <<db, trapped, memory, files, disk, crashes>>

-----------------------------------------------------------------------------
\* Mutant of Fixed: a payment that left the chain is not looked for.
FixedForgets(ch, d) ==
    LET at == Height[ch[Len(ch)].block]
        new == [t \in Txs |-> IF queue[t] = 0 /\ Has(d, t) THEN d[<<"tx", t>>] + Day ELSE queue[t]]
        expired == {t \in Txs : new[t] > 0 /\ at >= new[t]}
    IN  [queue |-> [t \in Txs |-> IF t \in expired THEN -1 ELSE new[t]],
         mem |-> MemUndo(Mem, {t \in Txs \ pool : queue[t] = 0 /\ Has(d, t)}),
         files |-> files \ expired]

\* fix_payment_queue_after_undo_redo: payments that left the chain are in
\* memory again, those that came into it are not, unless the node's pool has
\* them, and the ones a day below the tip are forgotten with their files.  A
\* payment that changed its block keeps the height it had.
Fixed(ch, d) ==
    LET at == Height[ch[Len(ch)].block]
        removed_from_bc == {t \in Txs : queue[t] > 0 /\ ~Has(d, t)}
        added_to_bc == {t \in Txs : queue[t] = 0 /\ Has(d, t)}
        new == [t \in Txs |-> CASE t \in removed_from_bc -> 0
                                 [] t \in added_to_bc -> d[<<"tx", t>>] + Day
                                 [] OTHER -> queue[t]]
        expired == {t \in Txs : new[t] > 0 /\ at >= new[t]}
    IN  [queue |-> [t \in Txs |-> IF t \in expired THEN -1 ELSE new[t]],
         mem |-> MemUndo(MemAdd(removed_from_bc, d), added_to_bc \ pool),
         files |-> files \ expired]

FixPaymentQueue(ch, d) ==
    LET f == Fixed(ch, d)
    IN  queue' = f.queue /\ SetMem(f.mem) /\ files' = f.files /\ UNCHANGED pool

\* sync_with_blockchain.  An answer is a piece of one branch: the node starts
\* it at a block of the wallet's sparse chain or, for a young wallet, above;
\* the wallet may have popped blocks since it asked.
IsAnswer(s) ==
    /\ s # <<>>
    /\ \A i \in 1..Len(s) - 1 : Parent[s[i + 1]] = s[i] /\ s[i + 1] # Genesis

SyncBlocks(s) ==
    /\ Idle /\ IsAnswer(s)
    /\ answer' = s
    /\ calls' = <<<<"undo", Genesis>>>>
    /\ UNCHANGED <<tables, chain, memory, files, disk, crashes>>

\* The tip stays only if it is a block of the answer.
OnAnswer(b) == \E i \in 1..Len(answer) : answer[i] = b
PopChain ==
    /\ db' = Restore(db, chain[Len(chain)].undo)
    /\ chain' = SubSeq(chain, 1, Len(chain) - 1)
    /\ UNCHANGED <<cur, trapped>>

UndoBlock ==
    /\ Running("undo") /\ chain # <<>> /\ ~OnAnswer(Tip)
    /\ PopChain
    /\ UNCHANGED <<answer, calls, memory, files, disk, crashes>>

\* The blocks above the tip are redone, or all of them on an empty chain.
StartRedo ==
    /\ Running("undo") /\ (chain # <<>> => OnAnswer(Tip))
    /\ answer' = IF chain = <<>> THEN answer
                  ELSE SubSeq(answer, Height[Tip] - At + 2, Len(answer))
    /\ calls' = <<<<"next", Genesis>>>>
    /\ UNCHANGED <<tables, chain, memory, files, disk, crashes>>

RedoBlock ==
    /\ Running("next") /\ answer # <<>>
    /\ calls' = Each("redo", TxsOf[answer[1]])
                \o <<<<"ripe", Genesis>>, <<"push", Genesis>>, <<"next", Genesis>>>>
    /\ UNCHANGED <<tables, chain, answer, memory, files, disk, crashes>>

SyncEnds ==
    /\ Running("next") /\ answer = <<>>
    /\ FixPaymentQueue(chain, db)
    /\ calls' = <<>>
    /\ UNCHANGED <<tables, chain, answer, disk, crashes>>

-----------------------------------------------------------------------------
\* wallet_addresses_updated: an address turns out to be older, and the blocks
\* from height h on are undone, to be asked for again.  It ends in a commit.
WalletAddressesUpdated(h) ==
    /\ Idle
    /\ calls' = <<<<"rescan", h>>>>
    /\ UNCHANGED <<tables, chain, answer, memory, files, disk, crashes>>

RescanBlock ==
    /\ Running("rescan") /\ chain # <<>> /\ TipHeight >= Arg
    /\ PopChain
    /\ UNCHANGED <<answer, calls, memory, files, disk, crashes>>

\* fix_empty_chain
FixEmpty(ch, d) ==
    IF ch = <<>> THEN <<[block |-> Genesis, undo |-> NoUndo, before |-> d]>> ELSE ch

RescanEnds ==
    /\ Running("rescan") /\ (chain # <<>> => TipHeight < Arg)
    /\ chain' = FixEmpty(chain, db)
    /\ FixPaymentQueue(chain', db)
    /\ disk' = [db |-> db, chain |-> chain']
    /\ calls' = <<>>
    /\ UNCHANGED <<tables, answer, crashes>>

-----------------------------------------------------------------------------
\* sync_with_blockchain of the pool, for a transaction that is new in the
\* node's pool, and for one that is there no more.
PoolAdds(t) ==
    /\ Idle /\ t \notin pool
    /\ pool' = pool \cup {t}
    /\ SetMem(MemAdd({t}, db))
    /\ UNCHANGED <<tables, chain, answer, calls, queue, files, disk, crashes>>

\* remove_transaction_from_mempool keeps an unconfirmed payment of ours.
PoolRemoves(t) ==
    /\ Idle /\ t \in pool
    /\ pool' = pool \ {t}
    /\ SetMem(IF queue[t] = 0 THEN Mem ELSE MemUndo(Mem, {t}))
    /\ UNCHANGED <<tables, chain, answer, calls, queue, files, disk, crashes>>

\* The entry of a payment, and the memory with it.
Entry(t, d) == IF Has(d, t) THEN d[<<"tx", t>>] + Day ELSE 0

AddToPaymentQueue(t) ==
    /\ Idle /\ queue[t] = -1
    /\ files' = files \cup {t}
    /\ queue' = [queue EXCEPT ![t] = Entry(t, db)]
    /\ IF Has(db, t) THEN UNCHANGED <<memTx, memOut>> ELSE SetMem(MemAdd({t}, db))
    /\ UNCHANGED <<tables, chain, answer, calls, pool, disk, crashes>>

\* process_payment_queue_send_error: the node says that a payment conflicts
\* with the block at height h, more than a day below the tip.  Its entry goes
\* whatever the height in it.
ProcessPaymentQueueSendError(t, h) ==
    /\ Idle
    /\ TipHeight > h + Day
    /\ queue' = [queue EXCEPT ![t] = -1]
    /\ SetMem(IF t \in pool THEN Mem ELSE MemUndo(Mem, {t}))
    /\ files' = files \ {t}
    /\ UNCHANGED <<tables, chain, answer, calls, pool, disk, crashes>>

DbCommit ==
    /\ Idle
    /\ disk' = [db |-> db, chain |-> chain]
    /\ UNCHANGED <<tables, chain, answer, calls, memory, files, crashes>>

\* The process ends, in the middle of a handler too, and starts again: the
\* memory is built anew from the tables and the files of the queue.
Restart ==
    /\ crashes < MaxCrashes
    /\ crashes' = crashes + 1
    /\ db' = disk.db /\ cur' = NoUndo /\ trapped' = FALSE
    /\ chain' = FixEmpty(disk.chain, disk.db)
    /\ answer' = <<>> /\ calls' = <<>> /\ pool' = {}
    /\ queue' = [t \in Txs |-> IF t \in files THEN Entry(t, disk.db) ELSE -1]
    /\ memTx' = {t \in files : ~Has(disk.db, t) /\ Ours(disk.db, t)}
    /\ memOut' = UNION {Accepted(disk.db, t) : t \in memTx'}
    /\ UNCHANGED <<files, disk>>

Init ==
    /\ db = Blank /\ cur = NoUndo /\ trapped = FALSE
    /\ chain = FixEmpty(<<>>, Blank) /\ answer = <<>> /\ calls = <<>>
    /\ memTx = {} /\ memOut = {} /\ pool = {}
    /\ queue = [t \in Txs |-> -1] /\ files = {}
    /\ disk = [db |-> Blank, chain |-> <<>>] /\ crashes = 0

Redo ==
    \/ RedoTransaction \/ AddOutput \/ AddKeyImage \/ UnlockNext \/ Spend
    \/ AddTransaction \/ UnlockBlock \/ PushChain

Next ==
    \/ Redo \/ UndoBlock \/ StartRedo \/ RedoBlock \/ SyncEnds
    \/ \E s \in Answers : SyncBlocks(s)
    \/ \E h \in Heights : WalletAddressesUpdated(h)
    \/ RescanBlock \/ RescanEnds
    \/ \E t \in Txs : PoolAdds(t) \/ PoolRemoves(t) \/ AddToPaymentQueue(t)
    \/ \E t \in Txs, h \in Heights : ProcessPaymentQueueSendError(t, h)
    \/ DbCommit \/ Restart

Spec == Init /\ [][Next]_vars

-----------------------------------------------------------------------------
\* The tables at the last push, with the changes of the block at hand undone.
Base == Restore(db, cur)
BeforeBlock(i) == IF i > Len(chain) THEN Base ELSE chain[i].before

\* The undo record of every block of the chain leads from the tables as they
\* were after the block to those before it, whatever the block changed and
\* however often, so that a pop forgets the block and nothing else
\* (WalletStateBasic.cpp record_undo, push_chain, pop_chain).
UndoExact ==
    \A i \in 1..Len(chain) : Restore(BeforeBlock(i + 1), chain[i].undo) = chain[i].before

\* No put meets a key that must be new and no del misses one that must exist,
\* in any order of blocks, reorganizations, locks and duplicate key images:
\* otherwise walletd exits with a database error (WalletState.cpp
\* sync_with_blockchain, the catch).
NothingTraps == ~trapped

\* api_get_unlocked_outputs above a height, and is_memory_spent.
RecentlyUnlocked(h) ==
    {o \in Outputs : \E g \in Heights : g > h /\ db[<<"unlocked", g, o>>] # Absent}
MemorySpent(o) == \E t \in memTx : Ki[o] \in Ins[t]
Unspent == {x \in Heights \X Outputs : db[<<"unspent", x[1], x[2]>>] # Absent}

\* What api_add_unspent offers to a new transaction.
Offered(a, h) ==
    {x \in Unspent : /\ x[1] <= h /\ (a # AllAddrs => Addr[x[2]] = a)
                     /\ ~MemorySpent(x[2]) /\ x[2] \notin RecentlyUnlocked(h)}
Total(S) == MapThenSumSet(LAMBDA x : Amount[x[2]], S)

\* get_balance, the spendable part: the kept balance less what is too young,
\* recently unlocked or spent in memory, each found by its own index.
Spendable(a, h) ==
    LET mine == {x \in Unspent : a # AllAddrs => Addr[x[2]] = a}
        young == {x \in mine : x[1] > h}
        fresh == {x \in mine : /\ x[1] <= h /\ ~MemorySpent(x[2])
                               /\ \E g \in Heights : g > h /\ db[<<"unlocked", g, x[2]>>] = x[1]}
        used == {x \in mine : /\ x[1] <= h
                              /\ \E t \in memTx : \E k \in Ins[t] :
                                    KnownKeyImage(db, k) /\ Standing(db, k) = x}
    IN  BalanceOf(db, a).spendable - Total(young) - Total(fresh) - Total(used)

\* The spendable balance that is reported at any depth is the sum of exactly
\* the outputs that api_add_unspent offers for that depth, although the one is
\* a running sum corrected by three indices and the other a walk over the
\* unspent index (WalletStateBasic.cpp get_balance, api_add_unspent).  It says
\* nothing of what create_have_coins then makes of them: that leaves out the
\* outputs of the very height asked for (TransactionBuilder.cpp).
SpendableExact ==
    calls = <<>> =>
        \A a \in Addrs \cup {AllAddrs}, h \in Heights :
            h <= TipHeight => Spendable(a, h) = Total(Offered(a, h))

\* The file of a payment goes away only when the payment is in the wallet's
\* chain, or the node refused it for a conflict deep in its own: never
\* because of a reorganization or a restart at a bad moment (WalletState.cpp
\* fix_payment_queue_after_undo_redo).
PaymentKept ==
    [][\A t \in files \ files' :
            Has(db', t) \/ \E h \in Heights : ProcessPaymentQueueSendError(t, h)]_vars
=============================================================================
