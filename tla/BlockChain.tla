----------------------------- MODULE BlockChain -----------------------------
(***************************************************************************)
(* The block tree of BlockChain.cpp: every block whose parent is known is  *)
(* stored with its header, one branch of the tree is the main chain, and   *)
(* add_block moves the tip to a branch of larger cumulative difficulty.    *)
(* All tables live in one LMDB transaction: `db' is what the running       *)
(* process sees, `disk' is the last commit, which a restart goes back to.  *)
(*                                                                         *)
(* A call of add_block is one step here.  ChainState opens it up into the  *)
(* undo and redo of single blocks and implements this specification.       *)
(***************************************************************************)
EXTENDS Integers, Sequences, FiniteSets

CONSTANTS
    Blocks,        \* block hashes
    Genesis,       \* m_genesis_bid
    Path,          \* Path[b]: the blocks from the genesis block up to b
    Difficulty,    \* Difficulty[b]: what next_difficulty may give b
    Redoable,      \* blocks that redo_block accepts on top of their parent
    CommitEvery,   \* COMMIT_EVERY_N_BLOCKS
    ImportChains,  \* main chains of old-format databases to re-import
    MaxCrashes     \* bound on the number of restarts

(***************************************************************************)
(* A block hash commits to the whole ancestry of the block, so a block     *)
(* determines its path.  The difficulty is a set: it is computed when the  *)
(* block arrives, from windows whose lengths depend on the tip's height.   *)
(***************************************************************************)
ASSUME BlockAssumption ==
    /\ IsFiniteSet(Blocks)
    /\ Genesis \in Blocks
    /\ Path \in [Blocks -> Seq(Blocks)]
    /\ Path[Genesis] = <<Genesis>>
    /\ \A b \in Blocks :
          /\ Len(Path[b]) >= 1
          /\ Path[b][Len(Path[b])] = b
          /\ Path[b][1] = Genesis
          /\ \A i \in 1..Len(Path[b]) : Path[Path[b][i]] = SubSeq(Path[b], 1, i)

ASSUME DifficultyAssumption ==
    /\ Difficulty \in [Blocks -> SUBSET Nat]
    /\ \A b \in Blocks : 0 \notin Difficulty[b]
    /\ Difficulty[Genesis] # {}

ASSUME RedoAssumption == Redoable \subseteq Blocks /\ Genesis \in Redoable

ASSUME BoundAssumption ==
    /\ CommitEvery \in Nat \ {0, 1}   \* so that the genesis block is not committed at once
    /\ MaxCrashes \in Nat
    /\ ImportChains \subseteq Seq(Blocks)

VARIABLES
    db,       \* the tables as the process sees them
    disk,     \* the tables at the last commit
    crashes   \* how often the process was restarted

vars == <<db, disk, crashes>>

Height(b) == Len(Path[b]) - 1
Parent(b) == Path[b][Len(Path[b]) - 1]

-----------------------------------------------------------------------------
(***************************************************************************)
(* The tables: block bodies, headers (of which only the cumulative         *)
(* difficulty matters here, 0 where there is none), the tip chain, the     *)
(* children counters (1 means no record), the index of leaves by           *)
(* cumulative difficulty, and the chain an old-format database is being    *)
(* re-imported from.                                                       *)
(***************************************************************************)
Has(d, b) == d.cd[b] # 0                    \* read_header(b) succeeds
Headers(d) == {b \in Blocks : Has(d, b)}
Tip(d) == d.chain[Len(d.chain)]
TipHeight(d) == Len(d.chain) - 1
TipCd(d) == d.cd[Tip(d)]

EmptyDb(bodies, import) ==
    [blocks   |-> bodies,
     cd       |-> [b \in Blocks |-> 0],
     chain    |-> <<>>,
     children |-> [b \in Blocks |-> 1],
     tips     |-> {},
     import   |-> import]

StoreBlock(d, b) == [d EXCEPT !.blocks = @ \cup {b}]

StoreHeader(d, b, cd) == [d EXCEPT !.cd[b] = cd]

ModifyChildrenCounter(d, b, delta) ==
    LET counter == d.children[b] + delta
        leaf    == <<d.cd[b], b>>
    IN  [d EXCEPT !.children[b] = counter,
                  !.tips = IF counter = 0 THEN @ \cup {leaf} ELSE @ \ {leaf}]

PushChain(d, b) == [d EXCEPT !.chain = Append(@, b)]

-----------------------------------------------------------------------------
(***************************************************************************)
(* The constructors.  A database without a chain gets the genesis block by *)
(* add_block; one of an old format first loses every record but the bodies *)
(* of its main chain, which are imported again later.                      *)
(***************************************************************************)
AddGenesis(d, w) ==
    ModifyChildrenCounter(
        PushChain(StoreHeader(StoreBlock(d, Genesis), Genesis, w), Genesis),
        Genesis, -1)

StartInternalImport(chain) ==
    EmptyDb({chain[i] : i \in 1..Len(chain)}, chain)

Opened(d, e) ==
    \/ d.chain # <<>> /\ e = d
    \/ d.chain = <<>> /\ \E w \in Difficulty[Genesis] : e = AddGenesis(d, w)

Init ==
    /\ \/ disk = EmptyDb({}, <<>>)
       \/ \E c \in ImportChains : disk = StartInternalImport(c)
    /\ Opened(disk, db)
    /\ crashes = 0

-----------------------------------------------------------------------------
(***************************************************************************)
(* add_block.  The block and its header are stored whatever becomes of     *)
(* them.  A block heavier than the tip makes reorganize_blocks undo the    *)
(* chain down to the common ancestor and redo the new branch until a block *)
(* fails; there it stops and leaves the tip.                               *)
(***************************************************************************)
\* Mutant of Stored: the parent's counter is left alone.
StoredParentSkipped(d, b, w) ==
    ModifyChildrenCounter(
        StoreHeader(StoreBlock(d, b), b, d.cd[Parent(b)] + w), b, -1)

Stored(d, b, w) ==
    ModifyChildrenCounter(
        ModifyChildrenCounter(
            StoreHeader(StoreBlock(d, b), b, d.cd[Parent(b)] + w),
            Parent(b), 1),
        b, -1)

\* get_common_block: the common ancestor's position on both paths.
IsCommon(b1, b2, i) ==
    /\ i \in 1..Len(Path[b1]) /\ i \in 1..Len(Path[b2])
    /\ Path[b1][i] = Path[b2][i]
    /\ \A j \in i + 1 .. Len(Path[b1]) :
          j \in 1..Len(Path[b2]) => Path[b1][j] # Path[b2][j]

\* The tip after redoing the branch to b above its position i.
IsRedoneTip(b, i, r) ==
    \E n \in i..Len(Path[b]) :
        /\ \A j \in i + 1 .. n : Path[b][j] \in Redoable
        /\ n < Len(Path[b]) => Path[b][n + 1] \notin Redoable
        /\ r = Path[b][n]

\* Mutant of SwitchedTo: the old branch is not popped off the tip chain.
SwitchedToUnpopped(d, r) ==
    IF r = Tip(d) THEN d ELSE PushChain(d, r)

SwitchedTo(d, r) == [d EXCEPT !.chain = Path[r]]

\* Mutants of Heavier: the block's own difficulty is left out, heights are
\* compared, or the cumulative difficulty is compared with the tip's height.
HeavierParent(b, w) == w > 0 /\ db.cd[Parent(b)] > TipCd(db)
HeavierHeight(b, w) == w > 0 /\ Height(b) > TipHeight(db)
HeavierThanHeight(b, w) == db.cd[Parent(b)] + w > TipHeight(db)

Heavier(b, w) == db.cd[Parent(b)] + w > TipCd(db)

\* The block is new and its parent's header is known: add_block goes on.
Processable(b) ==
    /\ ~(b \in db.blocks /\ Has(db, b))
    /\ b # Genesis
    /\ Has(db, Parent(b))

\* What add_block makes of block b with difficulty w; r becomes the tip.
Adds(b, w, r) ==
    /\ Processable(b)
    /\ w \in Difficulty[b]
    /\ \E i \in 1..Len(Path[b]) :
          /\ IsCommon(Tip(db), b, i)
          /\ IF /\ Heavier(b, w)
                /\ \A j \in i + 1 .. Len(Path[b]) : Path[b][j] \in db.blocks \cup {b}
               THEN IsRedoneTip(b, i, r)
               ELSE r = Tip(db)

\* A block that extends the tip and fails is answered BAN, before the commit.
Banned(b, w) == Heavier(b, w) /\ Parent(b) = Tip(db) /\ b \notin Redoable

CommitDue(d) == TipHeight(d) % CommitEvery = CommitEvery - 1

\* The early returns: the block is known or an orphan (NOTHING), or it fails
\* check_standalone_consensus, which depends on the clock too (BAN).
AddBlockNothing(b) == ~Processable(b) /\ UNCHANGED vars
AddBlockBan(b) == Processable(b) /\ UNCHANGED vars

AddBlock(b, w, r) ==
    /\ Adds(b, w, r)
    /\ db' = SwitchedTo(Stored(db, b, w), r)
    /\ disk' = IF CommitDue(db') /\ ~Banned(b, w) THEN db' ELSE disk
    /\ UNCHANGED crashes

-----------------------------------------------------------------------------
(***************************************************************************)
(* internal_import, called from Node::on_idle while the tip is below the   *)
(* chain to import: add_block of the next block, until the chain ends or a *)
(* block is missing, refused or not adopted; then the import is forgotten. *)
(***************************************************************************)
Importing(d) == TipHeight(d) < Len(d.import)

HasNextImport ==
    /\ TipHeight(db) + 1 < Len(db.import)
    /\ db.import[TipHeight(db) + 2] \in db.blocks

NextImport == db.import[TipHeight(db) + 2]

ImportBlock ==
    /\ Importing(db) /\ HasNextImport
    /\ \E w \in Difficulty[NextImport] : AddBlock(NextImport, w, NextImport)

\* Mutant of FinishImport: the import chain is kept.
FinishImportKept(d) == d

FinishImport(d) == [d EXCEPT !.import = <<>>]

\* The next block is not imported: add_block has stored it, or ignored it.
ImportRefused ==
    /\ Importing(db) /\ HasNextImport
    /\ \/ \E w \in Difficulty[NextImport], r \in Blocks \ {NextImport} :
             /\ Adds(NextImport, w, r)
             /\ db' = FinishImport(SwitchedTo(Stored(db, NextImport, w), r))
       \/ /\ db' = FinishImport(db)   \* known, orphan or failing the checks
    /\ disk' = db'
    /\ UNCHANGED crashes

ImportEnd ==
    /\ Importing(db) /\ ~HasNextImport
    /\ db' = FinishImport(db)
    /\ disk' = db'
    /\ UNCHANGED crashes

-----------------------------------------------------------------------------
\* Node's commit timer, and the commit at a regular exit.
DbCommit ==
    /\ disk # db
    /\ disk' = db
    /\ UNCHANGED <<db, crashes>>

\* The process ends (a kill, or std::exit in add_block) and is started again.
Restart ==
    /\ crashes < MaxCrashes
    /\ crashes' = crashes + 1
    /\ Opened(disk, db')
    /\ UNCHANGED disk

ImportStep == ImportBlock \/ ImportRefused \/ ImportEnd

Next ==
    \/ \E b \in Blocks : AddBlockNothing(b) \/ AddBlockBan(b)
    \/ \E b, r \in Blocks : \E w \in Difficulty[b] : AddBlock(b, w, r)
    \/ ImportBlock
    \/ ImportRefused
    \/ ImportEnd
    \/ DbCommit
    \/ Restart

Spec == Init /\ [][Next]_vars

\* on_idle runs whenever the event loop is idle, so an import goes on.
FairSpec == Spec /\ WF_vars(ImportStep)

-----------------------------------------------------------------------------
\* The types of the tables and of the restart counter.
DbType ==
    [blocks : SUBSET Blocks, cd : [Blocks -> Nat],
     chain : Seq(Blocks), children : [Blocks -> Nat],
     tips : SUBSET (Nat \X Blocks), import : Seq(Blocks)]

\* Type correctness of the tables the process sees and of the committed ones.
TypeOK ==
    /\ db \in DbType
    /\ disk \in DbType
    /\ crashes \in 0..MaxCrashes

\* The tip chain table is exactly the ancestry of the tip, every stored
\* header has its body and the headers of all its ancestors, and cumulative
\* difficulty grows along every branch.
Linked(d) ==
    /\ d.chain # <<>>
    /\ d.chain = Path[Tip(d)]
    /\ Has(d, Tip(d))
    /\ Headers(d) \subseteq d.blocks
    /\ \A b \in Headers(d) : \A i \in 1..Len(Path[b]) : Has(d, Path[b][i])
    /\ \A b \in Headers(d) \ {Genesis} : d.cd[b] > d.cd[Parent(b)]

Children(d, b) == {c \in Headers(d) \ {Genesis} : Parent(c) = b}

\* The stored counter of a block is the number of its stored children, a
\* block without header has no counter record, and the index by cumulative
\* difficulty lists exactly the leaves of the tree.
CountersExact(d) ==
    /\ \A b \in Blocks :
          d.children[b] = IF Has(d, b) THEN Cardinality(Children(d, b)) ELSE 1
    /\ d.tips = {<<d.cd[b], b>> : b \in {x \in Headers(d) : Children(d, x) = {}}}

\* Only blocks that redo_block accepted are on the chain.
OnlyRedone(d) == \A i \in 1..Len(d.chain) : d.chain[i] \in Redoable

\* As long as every stored block can be redone, no stored block is heavier
\* than the tip: whatever the order of arrival, restarts included, add_block
\* has followed the branch of largest cumulative difficulty.
HeaviestTip(d) ==
    Headers(d) \subseteq Redoable => \A b \in Headers(d) : d.cd[b] <= TipCd(d)

OnBoth(P(_)) == P(db) /\ (disk.chain # <<>> => P(disk))

\* The invariants above, of the running process and of the last commit (what
\* the BlockChain constructor, read_tip and check_children_counter rely on).
TreeLinked == OnBoth(Linked)
TreeCounters == OnBoth(CountersExact)
ChainRedone == OnBoth(OnlyRedone)
TipHeaviest == OnBoth(HeaviestTip)

Valid(b) == \A i \in 1..Len(Path[b]) : Path[b][i] \in Redoable

\* When add_block stores a block that is heavier than the tip and whose whole
\* ancestry can be redone, that block becomes the tip, whatever reorganization
\* failed before.
AdoptsHeavierBranch ==
    [][\A b \in Headers(db') \ Headers(db) :
          Valid(b) /\ db'.cd[b] > TipCd(db) /\ crashes' = crashes
             => Tip(db') = b]_vars

\* Without a restart, the tip's cumulative difficulty shrinks only in a call
\* of add_block that stored a heavier block with a failing ancestor: the
\* reorganize_blocks that stops half-way and does not go back.
WorkLostOnlyToFailedBranch ==
    [][TipCd(db') < TipCd(db) =>
          \/ crashes' # crashes
          \/ \E b \in Headers(db') \ Headers(db) :
                db'.cd[b] > TipCd(db) /\ ~Valid(b)]_vars

\* The re-import of an old-format database ends: the tip reaches the known
\* import height, or the import is given up, and it stays so (until then
\* Node neither downloads nor accepts transactions).
ImportModeEnds == <>[]~Importing(db)
=============================================================================
