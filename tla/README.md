# TLA+ specification of CryoNero

A verification project for the node and wallet in `src/`: TLA+ modules
translated from the C++ source, TLC configurations that check them on small
instances, and TLAPS proofs for every value of the constants. `PROJECT.json`
lists the components, runs, mutants, hazards and theorems, and maps each
definition to the lines it models.

## The system

`cryonerod` is a single-threaded event loop (`Node`) around a block chain kept
in LMDB; thread pools only check signatures and prepare data. `wallet_rpc`
follows a node over HTTP and keeps its own database.

| Component | State | Operations | Hard behaviour | What makes it correct |
|---|---|---|---|---|
| Block tree (`BlockChain`) | bodies, headers, tip chain, children counters, leaf index, import chain | `add_block`, `reorganize_blocks`, `internal_import`, `db_commit`, constructor | forks, failing branches, restart at the last commit, import against live blocks | the tree is closed under parents, counters are exact, the tip is the heaviest valid branch |
| Ledger (`BlockChainState`) | key images, outputs by amount, block output indices, transaction and time index, global index cache | `redo_block`, `undo_block`, `DeltaState::apply` | undo must invert redo; table checks end the process | ledger = replay of the tip chain; no double spend |
| Pool (`BlockChainState`) | transactions, index by key image, index by fee, total size, version | `add_transaction`, `remove_from_pool`, eviction, `on_reorganization` | several conflicts at once, the size limit, rebuild after a reorganization | indices exact, nothing spent in the pool, bounded, nothing lost |
| `RingCheckerMulticore` | queue, counters, errors, `quit` | `start_work_get_error`, `signatures_valid`, `thread_run`, destructor | late results, early returns, condition variables | the answer is the current block's; every call returns |
| Downloader (`Node::DownloaderV11`) | chain to fetch, download window, counters per client, prepared blocks | `advance_chain`, `advance_download`, message handlers, timers | disconnects inside handlers, late answers, missed blocks, recursion | counters agree; no cell is forgotten; the node gets every block |
| `PeerDB`, `P2P` | white, gray and exclusive lists, their tables, connections, reconnect timer | merge, just seen, delay, next peer, connect, disconnect | time-outs, a loop that disconnects on the way, restart | the node never stops trying; the tables are the lists |
| Wallet state (`WalletState`, `WalletStateBasic`) | own chain with undo records, outputs, locked outputs, balances, memory state, payment queue and its files | `redo_block`, `undo_block`, rescan, pool, queue, commit | reorganization, unlock by height and time, two outputs with one key image, crash in the middle of a handler | a pop forgets the block and nothing else; the balance is the sum of the outputs offered; no payment is dropped |
| `WalletPreparatorMulticore` | work, prepared blocks, work counter | `cancel_work`, `start_work`, `get_ready_work`, `thread_run`, destructor | threads still busy with an older answer | the blocks of the current answer only, and all of them |
| `WalletSync`, `http::Agent`, `http::Server`, long poll of `Node` | last status, one request, timers, connections, waiting clients | poll, sync, send payments; connect, resend, time out; postpone an answer | cut connections, late answers, restart of the node | answers go to their requests; the wallet catches up; payments come before the node |
| `UnspentSelector`, `TransactionBuilder` | coins, selection, fee, samples, rings | `select_optimal_outputs`, `optimize_amounts`, random outputs, `sign` | a search begun again and again; short samples | what is signed pays in full from ready outputs with the fee reckoned for it, rings are whole, a refusal is right |
| Storage (`DBlmdb`) | one write transaction | `put`, `del`, `commit_db_txn` | loss of everything since the last commit | atomic commits (assumed) |
| `Currency` | constants | difficulty, reward, limits | boundaries | pure functions |

Components call each other directly on the event loop: `Node` and the
downloader call `add_block`; `BlockChain` calls the virtual `redo_block`,
`undo_block`, `tip_changed` and `on_reorganization` of `BlockChainState`, which
uses the ring checker and changes the pool. So one call of `add_block` is atomic
for everybody but the checker's threads and a crash. The wallet's handlers are
atomic in the same way, but for the preparing threads and a crash.

## Modules

- **`BlockChain`** - the tree. `db` is what the process sees, `disk` the last
  commit. `AddBlock(b, w, r)` is one call of `add_block`: block `b` of
  difficulty `w` is stored, and the tip becomes `r`. `AddBlockNothing`,
  `AddBlockBan`: its early returns. `ImportBlock`, `ImportRefused`,
  `ImportEnd`: one call of `internal_import`. `DbCommit`: the timer.
  `Restart`: back to `disk`, and the constructors. A block's path is a constant
  (a hash commits to the ancestry), and so is the set of blocks that can be
  redone; a difficulty is chosen from a set, because the code computes it from
  windows that depend on the tip at arrival.
- **`ChainState`** - the ledger under that tree, with `add_block` taken apart:
  `StartSwitch`, `Undo` and `Redo` of one block each, `EndSwitch`; a restart may
  come between any two. Whether a block can be redone is computed from the
  ledger (`CanRedo`: key images, ring indices, unlock heights, keys the
  signature was made for). Nothing before the block's own delta compares the
  transactions of a block with each other: with one key image in two of them
  `store_keyimage` of the delta throws, and `add_block` ends the process
  (`ExitProcess`), whatever the signatures. `trap` records a failed `put`, `del`
  or pop of the tables, which ends the process in the code as well. `LookUp` is a
  query that fills the global index cache. It **implements `BlockChain`**: `Refines == BC!Spec`, where `db` is the
  tree, or what it was when the running call began, and `Redoable` is what the
  replay of each block's own branch admits.
- **`MemPool`** - the pool over a chain of transaction sets. `Adds(t)` is
  `add_transaction` as a whole: the refusals in their order (`Refusal`), the
  second conflict loop (`BetterConflicts`, `Displaced`), insertion and trimming.
  `ExtendTip`, `UndoBlock`, `RedoBlock` and the three steps of
  `on_reorganization` follow `reorganize_blocks`.
- **`RingChecker`** - the calling thread and the worker threads; the code between
  a lock of `mu` and its unlock or wait is one step. Both condition variables
  may wake up spuriously.
- **`Downloader`** - `stack` holds the calls that are still to be run
  (`advance_download`, `advance_chain`, the rest of `advance_download`), since
  `disconnect` calls `on_disconnect`, which calls `advance_download` again, in
  the middle of a loop that disconnects; no event is handled before it is empty.
  Each handler is an action that pushes its calls; `Run` takes one step of the
  top call. `inbox` holds the requests a client has not answered, `faults`
  counts what goes wrong (a lost request, a missed block, an empty or slow
  answer, a lost connection).
- **`Peers`** - `PeerDB` with the connections of `P2P`. A time to wait replaces
  the absolute times; `Tick` lets it pass. `loop` is `connect_all_nodelay`, a
  loop of several steps. `disk` is the open transaction, `saved` the last commit.
- **`WalletPrep`** - the wallet's thread and the preparing threads, with the
  loop of `sync_with_blockchain` that skips old blocks and may return in the
  middle of an answer.
- **`Wallet`** - the tables under undo are one function `db` from keys to
  values; `PutWithUndo` and `DelWithUndo` also extend the undo map `cur` of the
  block. `calls` holds the calls of a handler still to be run
  (`redo_transaction`, the loops over its accepted outputs and its key images,
  `unlock`, `push_chain`, ...), so that a crash may come between any two of them.
  Outputs of a transaction are added address by address (`Sooner`). The memory
  state, the payment queue and its files follow their handlers.
- **`WalletSync`** - `WalletSync` over `http::Agent` at one end of a set of
  connections, `http::Server` and the node's status, sync and send handlers with
  the long poll at the other. A connection may be cut by either side at any
  moment, with what is in flight; the node may restart. It takes a payment or
  refuses it: a fee too low is answered like a broadcast, after a wrong format or
  a conflict near the tip the wallet keeps the payment in its queue, after a
  conflict deep in the chain it drops it; `refused` remembers the refusals since
  the chain changed. `broken` records a failed
  `invariant()` of the code.
- **`Payment`** - `handle_create_transaction3`: `select_optimal_outputs` with the
  loops of `optimize_amounts` taken apart, the request for random outputs and the
  node's answer or failure, and `TransactionBuilder::sign` with its rings.
- **`*_proofs`** - theorems; **`MC*`** - instances for TLC. Operators named
  "Mutant of" are altered forms of the definition below them, used to show that
  the properties notice; no specification uses them.

## Runs

| Run | Instance | Checks |
|---|---|---|
| `blocktree` | 8 blocks in 3 branches, one not redoable, one of two difficulties, 2 import chains, 2 restarts, commit every 3 | `TreeLinked`, `TreeCounters`, `TipHeaviest`, `AdoptsHeavierBranch`, `WorkLostOnlyToFailedBranch`, `ImportModeEnds` |
| `ledger` | 9 blocks with transactions, a transaction in two branches, a double spend, a block with one key image in two transactions, a ring valid on one branch only, 2 restarts | `LedgerIsReplay`, `NothingTraps`, `GlobalIndexCacheExact`, `NoDoubleSpend`, `Refines`, `SwitchEnds` |
| `pool` | 6 transactions, 3 key images, equal and different fees, a malformed one, pool limit 4, 4 block bodies, height 3 | `IndicesExact`, `PoolUnspent`, `PoolBounded`, `ReorganizationKeeps`, `AcceptedIsInPool` |
| `pool_never` | as `pool` | `NeverBecauseCheckedAbove`, **violated** |
| `ringcheck` | 2 threads, 3 calls over 4 kinds of blocks | `AnswerExact`, `CallReturns`, `DestructorReturns` |
| `downloader` | 2 clients, one lagging, 3 blocks, window and block limit 2, 1 fault | `CountersAgree`, `NobodyForgotten`, `Synchronises` |
| `peers` | a seed and a peer, 2 connections, lists of one address, with and without an exclusive node | `NeverAsleep`, `DiskExact` |
| `peers_ban` | a peer, no seed and no exclusive node, 2 connections | `BanKept`, **violated** |
| `prep` | 2 threads, 2 answers that overlap with different blocks, one block older than the wallet, work counter up to 6 | `RedoneExact`, `NothingLost`, `SyncFinishes` |
| `wallet` | 6 blocks in 2 branches, 5 outputs at 2 addresses, a locked one, doubles of its key image of equal and of larger amount, a transaction that spends it, 6 answers, 1 restart | `UndoExact`, `NothingTraps`, `SpendableExact`, `PaymentKept` |
| `sync` | 2 connections, 1 payment, a change of the chain, a transaction of another, 2 faults | `NoInvariantFails`, `OwnAnswers`, `Follows`, `PaymentsReachNode` |
| `payment` | 2640 requests over 10 outputs with repeated amounts and dust, one not ready, few outputs at the node, one output of change expected and up to two made | `PaidInFull`, `RefusedRightly`, `RingExact`, `SearchEnds` |

`pool_never` states the comment "Never because checked above" of
`add_transaction` (BlockChainState.cpp:708). The loop above it stops at the
first conflicting input; a transaction with a cheaper first conflict and a
dearer second one passes it and is refused in the second loop, in which the
cheaper transaction has already been removed. The pool stays consistent
(`IndicesExact`).

`peers_ban` states the comment "empty for no ban" of `disconnect` (P2P.hpp:37):
a client that is disconnected with a reason is banned. `on_client_disconnected`
ignores the reason, and nothing calls `set_peer_banned`, so a peer waits only for
the reconnect period (300 s) that its attempt to connect was given, and not for
that of a ban (600 s). The instance has no seed and no exclusive node, whose ban
would be as short as their reconnect period.

**Bounds.** `MaxCrashes`, `MaxHeight`, `MaxVersion`, `MaxWork`, `MaxTip` and
`MaxFaults` bound counters only. A tree with three branches and heights up to 3
has every relation of two branches that `reorganize_blocks` distinguishes:
extension, fork at and above the genesis block, a failure at the first, at a
middle and at the last block of a branch, and a branch whose tip is at a commit
height. Two threads and three calls are enough for a result to arrive one and
two calls late. The pool instance has two conflicts of one transaction on both
sides of its fee, ties by hash, and sizes that reach the limit exactly and
overrun it. The downloader's window is smaller than the chain and as large as
the block limit, so a cell waits for a slot, and one fault at any place suffices
for a nested disconnect; the lag limit is 0, so the shorter client is dropped in
the middle of `advance_chain`. Both peer lists overflow. The wallet's branches hold
every order of a locked output, its doubles and their spending, within one
transaction and over several, and the answers begin at, above and below the
wallet's tip. Two faults let a request be lost, sent
again and lost again. In `payment` ten units stand for the code's million: stacks
of an amount are above and below the optimization threshold, selections too large
for the median and fees too low for the size occur, both passes over the
wallet's outputs, and a change of more outputs than `ExpectedChange`, as the code
has with more than 8.

**Fairness.** `ImportModeEnds`: the import steps are weakly fair, as `on_idle`
returns `true` and is called again while an import runs. `SwitchEnds`: the
running call of `add_block` goes on unless the process ends; it returns, or its
exception ends the process. `CallReturns`,
`DestructorReturns`, `SyncFinishes`: each thread that can run does run.
`Synchronises`: timers, `on_idle` and answers are strongly fair, because other
events may disable them for a step and enable them again while the event loop,
a queue in order of arrival, gets to each; clients answer what they do not lose,
P2P connects again (`NeverAsleep`), and the import ends. `Follows` and
`PaymentsReachNode`: the wallet's events, each connection's events at the server,
the start of a node that is down and the next block (of which there is always
one more up to the bound; a poll is answered only by a change) are weakly fair.
`Follows` is about the tip and the pool. `PaymentsReachNode` does not promise that
the node takes a payment: it says that a payment in the queue is in the pool after
the next block, or was refused since, or has left the queue.
`SearchEnds`: the handler goes on, and the node answers or its agent fails.
Faults, spurious wake-ups, arrivals, calls and restarts are never assumed.

## Proofs

- **`BlockChain_proofs`**, from the assumptions on the tree (`BlockAssumption`:
  paths are consistent; `DifficultyAssumption`: difficulty is positive, which
  `check_standalone_consensus` enforces with DIFFICULTY_OVERHEAD; the genesis
  block can be redone). The inductive invariant says of `db`, and of `disk` unless it
  is still unborn (no chain, at most bodies to import), that it is typed, linked, has
  exact counters, holds only redone blocks on the chain and has the heaviest tip.
  `disk` has to be part of it because `Restart` makes it the state. The counters
  need the linked tree: a new block has no stored children, since every
  stored header has its parent. `AddFacts` is the main lemma (what a call of
  `add_block` makes of a good state); the two action properties follow from it.
  `TypeCorrect` and `ChainRedoneAlways` are proved beside the run's properties.
- **`MemPool_proofs`**, in three layers, each inductive given the one before, for
  any transactions, fees, sizes and blocks and any positive limit (`TxAssumption`;
  `MAX_POOL_SIZE` is a positive constant, and with a limit of 0 a transaction would
  be accepted and trimmed at once). `Inv`: exact indices and no spent key image;
  exactness is needed to show that eviction through the key image index reaches
  every double spend. `SizeInv`: the size is the sum of the sizes, and without its
  first transaction in the order of trimming the pool is below the limit
  (`PoolBounded`). It is what makes an accepted transaction stay
  (`AcceptedIsInPool`): a full pool only takes one that is not ahead of all others,
  and trimming the first of them is already enough. The sum is a fold, a recursive
  function over sets in an order of its own; `SumIs` shows that it is the number of
  the pairs in `Units`, as two functions that satisfy the recursion would differ
  on a least set, and the laws of sums come from those of cardinalities.
  `ReorgInv`: the blocks of the chain spend different key images (`ChainSpent`), so
  what a reorganization has to add again spends none twice (`Apart`), no transaction
  is refused for another one, and each that still applies is in the pool or to be
  added until the pool is full (`Readding`); `ReorganizationKeeps` is its last state.
- **`ChainState_proofs`**, from assumptions on the tree, transactions, rings and
  bodies of blocks, of which any two, and any two of their transactions, may have
key images in common. Output tables are concatenations over the blocks of a chain; a
  recursion for them exists and is unique, as two would differ on a shortest
  sequence. `Sound(c)` is what a chain of redone blocks has: rings of a
  block spend outputs that were there, recorded indices lead to the outputs,
  key images of its transactions are apart, in different blocks because of the
  tables and within a block because of the delta. With it, redoing a block on the replay of a chain gives
  the replay of the longer one (`RedoIsReplay`) and undoing gives the shorter one
  (`UndoIsReplay`) with no operation failing. The invariant `LedgerOk /\ DiskOk /\
  JobOk` says so of the tables now and of the last commit, and
  `SwitchAt` says where between two branches a running `reorganize_blocks` is; its
  blocks above the fork are still or already replayed; a process that has exited
  in its delta is where the switch was. The
  refinement maps the tree to the one before a running switch, so undo, redo
  and look-up steps stutter, and a block on a side branch or the end of
  a switch, in either direction, is one `AddBlock` of `BlockChain`. Every theorem of
  `BlockChain` thus holds of `ChainState` too.
- **`Multicore_proofs`**, the two thread pools of Multicore.cpp. `RingChecker`, there an
  instance `RC` whose assumption on the work is a hypothesis (`RingWork`), for any
  number of threads: `ResultsAddUp` (queued,
  in flight and ready results are the posted inputs), and that the queue, the
  threads with the current `work_counter` and the errors hold inputs of the
  current block only (`OwnOnly`), that each wrong posted input is found, queued
  or in flight (`NoneMissed`), and that no local counter is ahead of the shared
  one (`Phases`). When `ready = total`, the cardinalities leave nothing queued or
  in flight, so `errors` is empty exactly for a good block.
  `WalletPrep`, for any number of threads and any answers: from
  `start_work` on the queue is the rest of the answer, and the prepared blocks
  and those with threads of the current `work_counter` are blocks of it, at their
  heights (`OwnWork`); before it there are none, because both `cancel_work` and
  `start_work` count up and no local counter is ahead (`Types`). With it, what
  `get_ready_work` hands out is the answer's block (`RedoneExact`), and a block
  only moves from the queue to a thread to the prepared ones (`NothingLost`).
- **`Peers_proofs`**, for any addresses, limits, times and number of connections: a
  place that is not free holds an address (`Places`), and a loop that has ended
  with a place to fill has left the timer running (`Awake`), which is stronger than
  `NeverAsleep` where an address is still to be made white. For `DiskExact` the
  lists and tables must hold addresses only (`Known`, `Tables`).
- **`WalletSync_proofs`**, for any number of connections, payments and faults
  (`SyncAssumption`: there is a connection, and `None` is neither connection nor
  message). `Turns`: a request at hand excludes the status timer, the reconnect
  timer runs only for a request without a connection, and an open connection may be
  written to exactly when there is no request; these are the conditions that the
  code's `invariant()` calls test. `PollsServed`: a long poll belongs to a client
  that waits. `OneTalk`: on the connection in use there is at most one of a request,
  an answer and a long poll, and it is of the request at hand. Connections given up
  may hold anything, which is why the invariant speaks of the one in use only.
- **`Wallet_proofs`**, for any blocks, branches, transactions, outputs and answers
  (`WalletAssumption`: heights follow parents; addresses have an order; outputs may
  share key image and amount). `Tables`: for every block of the chain, its undo record applied to the
  tables before the next block gives the tables before it; for the last block these
  are the tables now, with the record in progress undone (`Base`). Each `put`
  and `del` keeps what the record in progress leads back to (`Keeps`), and so do the
  loops over outputs, key images and transactions, by a least counterexample.
  `Calling`: records are in progress only within a block, whose calls end with its
  push. `OnDisk`: the same of the last commit, since `Restart` makes it the state.
  `PaymentKept` follows step by step.
  `NothingTraps` needs what consensus guarantees of the branch the wallet follows
  (`BranchAssumption`: no transaction twice on a branch; an output is at one place
  of one transaction). The tables are `Good` for the transactions up to the tip:
  keys of later ones are absent, a locked output is in no other table, a key image
  leads to an unspent or spent place. Every block of the chain, on disk as well,
  keeps tables that are `Good` before it, and every call still to be run can be
  made: what it is to add is not there (`CallOk`, `Apart`, `RestOk`), since the sets it
  works on were read before the calls in between.
  `SpendableExact` needs tables that are `Fine`: the balance of an address, and of
  all, is the sum of its unspent outputs (`Balanced`); the key image of an unspent
  output leads to it, a key image leads to an output that has it, and an unspent
  output was unlocked as what it is (`Indexed`). `Fair`: so are the tables now, those
  before the block at hand and before every block, and those on disk, so undo and
  `Restart` end in `Fine` tables too. What `get_balance` subtracts from the balance
  (too young, just unlocked, spent in memory) and what `api_add_unspent` offers
  are then four disjoint parts of the unspent outputs (`SpendableIs`); a sum is
  the number of units, as in `MemPool_proofs`. `ValueAssumption`: finitely many
  heights and outputs, and the marks for nothing (`Absent`, `NoKeyImage`, `AllAddrs`)
  are no values of the tables.
- **`Downloader_proofs`**, for any clients, window, limits and number of faults.
  `BookInv`: types and `CountersAgree`, with the counters as cardinalities of sets of
  cells; a client asked for the chain is connected. `CallInv` says why nothing is
  forgotten although handlers nest: a block being prepared is with a thread or
  done (`WithThreads`); whatever is to be assigned or asked for will be by a call
  that is still on the stack (`ToAssign`, `ToAsk`); `advance_chain` runs at once when
  it is called (`Nested`). Between two events the stack is empty, and
  `NobodyForgotten` is left.

Only model-checked:

- liveness (`ImportModeEnds`, `SwitchEnds`, `CallReturns`, `DestructorReturns`,
  `Synchronises`, `SyncFinishes`, `Follows`, `PaymentsReachNode`, `SearchEnds`), out
  of the prover's reach;
- `Payment`: a search with sums over selections that is begun again.

## Abstractions

- `check_standalone_consensus` is a nondeterministic BAN before anything is
  stored; a difficulty is a member of the block's set.
- `ChainState`: unlocking is by height (not by time); rings hold absolute
  indices; the checkpoint zone, in which
  signatures are not checked, is left out, and so is the import, which
  `BlockChain` has.
- `MemPool`: the chain is the transaction sets of its blocks, `Redo(t, c)` says
  whether `redo_transaction_get_error` accepts `t` on `c`.
- `Downloader`: one chain of blocks, of which a client has a prefix; among the
  clients that have a block any may be asked, where the code takes the fastest.
- `Peers`: which of the due addresses is tried first is left open.
- `Wallet`: outputs are numbered in the order of amount and index; all blocks are younger than the wallet; a branch has no
  transaction twice, and an output belongs to one (`BranchAssumption`).
- `WalletSync`: a message arrives whole or not at all; the node's tip is a number
  and one answer brings the wallet to it (`Wallet` and `WalletPrep` have the
  blocks); the pool version does not repeat while the node runs; the node's reasons
  to refuse a payment are left open, what follows from each is not.
- `Payment`: sizes, fees and amounts are scaled down; which output of an amount
  is taken is left to `CHOOSE`. The fee is reckoned for `ExpectedChange` outputs of
  change (8 in the code, with a TODO), which is no bound: `PaidInFull` says that it
  is enough for that size, and a change of more outputs lowers the fee per byte.
  `RefusedRightly` compares with the fee the search
  has reached: a selection enlarged by optimization may ask a higher fee than the
  smallest one would.
- An exception in `add_block` ends the process (`std::exit`): `ExitProcess` of
  `ChainState` for the one that a block can cause, a `Restart` for any other.
- A commit of LMDB is atomic and durable. `header_cache`, logging, formatting and byte
  encodings are left out.

## Not modelled

- Cryptography and hash functions (about a third of the lines in `src/src`):
  arithmetic on 256-bit numbers and byte permutations, out of TLC's reach. A
  hash is a model value, whether a signature checks a constant.
- JSON, binary serialisation, Base58, command lines, paths, logging, the parsers
  of HTTP: conversions without state; messages are records of what is read.
- asio, SSL and the database back ends: I/O. Their users see connections that are
  cut and transactions that are lost, which are modelled.
- The rest of `WalletNode`: its methods read the wallet state; its queue of
  requests to the node sends one at a time, so a tunnelled long poll delays the
  ones behind it. The wallet file and its formats.
- Miner, block file import and export, main programs: they call operations that
  are modelled.
- Difficulty and reward: arithmetic on the network's constants.

Four hazards have no property, because nothing in the repository says what should
hold: the pool version that starts again after a reorganization, the difficulty
height of a mining template, a late answer after a rescan, and the outputs at
exactly the confirmed height, which the balance includes and `create_have_coins`
leaves out.

## Plan

1. Pure operators against reference definitions: sparse chain, difficulty, reward,
   mining template.
2. Proofs: the selection part of `Payment` (`RefusedRightly`).
