-------------------------- MODULE BlockChain_proofs --------------------------
(***************************************************************************)
(* Proofs about BlockChain, for every block tree, every difficulty and     *)
(* every commit period.                                                    *)
(***************************************************************************)
EXTENDS BlockChain, FiniteSetTheorems, TLAPS

\* Facts about paths: where a block's parent and its ancestors lie.
LEMMA PathFacts ==
    ASSUME NEW b \in Blocks
    PROVE  /\ Path[b] \in Seq(Blocks)
           /\ Len(Path[b]) \in Nat \ {0}
           /\ Path[b][Len(Path[b])] = b
           /\ Path[b][1] = Genesis
           /\ \A i \in 1..Len(Path[b]) :
                 /\ Path[b][i] \in Blocks
                 /\ Path[Path[b][i]] = SubSeq(Path[b], 1, i)
                 /\ Len(Path[Path[b][i]]) = i
<1>1. /\ Path[b] \in Seq(Blocks)
      /\ Len(Path[b]) \in Nat \ {0}
      /\ Path[b][Len(Path[b])] = b
      /\ Path[b][1] = Genesis
  BY BlockAssumption DEF BlockAssumption
<1>2. ASSUME NEW i \in 1..Len(Path[b])
      PROVE  /\ Path[b][i] \in Blocks
             /\ Path[Path[b][i]] = SubSeq(Path[b], 1, i)
             /\ Len(Path[Path[b][i]]) = i
  <2>1. Path[b][i] \in Blocks
    BY <1>1
  <2>2. Path[Path[b][i]] = SubSeq(Path[b], 1, i)
    BY BlockAssumption DEF BlockAssumption
  <2>3. QED
    BY <1>1, <2>1, <2>2
<1>3. QED
  BY <1>1, <1>2

\* The parent of a block other than the genesis block precedes it on its path.
LEMMA ParentFacts ==
    ASSUME NEW b \in Blocks, b # Genesis
    PROVE  /\ Len(Path[b]) >= 2
           /\ Parent(b) \in Blocks
           /\ Parent(b) # b
           /\ Len(Path[Parent(b)]) = Len(Path[b]) - 1
           /\ Path[b] = Append(Path[Parent(b)], b)
<1>1. Len(Path[b]) >= 2
  BY PathFacts
<1>2. Parent(b) \in Blocks /\ Len(Path[Parent(b)]) = Len(Path[b]) - 1
  BY PathFacts, <1>1 DEF Parent
<1>3. Parent(b) # b
  BY <1>2, PathFacts
<1>4. Path[Parent(b)] = SubSeq(Path[b], 1, Len(Path[b]) - 1)
  BY PathFacts, <1>1, SMTT(30) DEF Parent
<1>5. Path[b] = Append(Path[Parent(b)], b)
  BY PathFacts, <1>1, <1>4
<1>6. QED
  BY <1>1, <1>2, <1>3, <1>5

-----------------------------------------------------------------------------
\* What the tables of a running process satisfy: the invariant of the proofs.
Good(d) ==
    /\ d \in DbType
    /\ Linked(d)
    /\ CountersExact(d)
    /\ OnlyRedone(d)
    /\ HeaviestTip(d)

\* Tables before the genesis block was added.
Unborn(d) ==
    \E bodies \in SUBSET Blocks, import \in Seq(Blocks) : d = EmptyDb(bodies, import)

Inv ==
    /\ Good(db)
    /\ Good(disk) \/ Unborn(disk)
    /\ crashes \in 0..MaxCrashes

\* What modify_children_counter does to the tables.
LEMMA ModifyFields ==
    ASSUME NEW d \in DbType, NEW b \in Blocks, NEW delta \in Int,
           d.children[b] + delta \in Nat,
           NEW e, e = ModifyChildrenCounter(d, b, delta)
    PROVE  /\ e \in DbType
           /\ e.blocks = d.blocks /\ e.cd = d.cd
           /\ e.chain = d.chain /\ e.import = d.import
           /\ e.children[b] = d.children[b] + delta
           /\ \A x \in Blocks \ {b} : e.children[x] = d.children[x]
           /\ d.children[b] + delta = 0 => e.tips = d.tips \cup {<<d.cd[b], b>>}
           /\ d.children[b] + delta # 0 => e.tips = d.tips \ {<<d.cd[b], b>>}
<1> DEFINE n == d.children[b] + delta
           tips == IF n = 0 THEN d.tips \cup {<<d.cd[b], b>>}
                            ELSE d.tips \ {<<d.cd[b], b>>}
           children == [d.children EXCEPT ![b] = n]
<1>1. children \in [Blocks -> Nat]
  BY DEF DbType
<1>2. d.cd[b] \in Nat /\ d.tips \in SUBSET (Nat \X Blocks)
  BY DEF DbType
<1>3. tips \in SUBSET (Nat \X Blocks)
  BY <1>2
<1>4. e = [d EXCEPT !.children = children, !.tips = tips]
  BY DEF ModifyChildrenCounter, DbType
<1> HIDE DEF tips, children
<1>5. e \in DbType /\ e.children = children /\ e.tips = tips
      /\ e.blocks = d.blocks /\ e.cd = d.cd /\ e.chain = d.chain /\ e.import = d.import
  BY <1>1, <1>3, <1>4 DEF DbType
<1>6. QED
  BY <1>5 DEF DbType, tips, children

\* What add_block writes, table by table, for a block without a header.
LEMMA StoredFields ==
    ASSUME NEW d \in DbType, NEW b \in Blocks, b # Genesis, NEW w \in Nat,
           d.children[b] = 1,
           NEW e, e = Stored(d, b, w)
    PROVE  /\ e \in DbType
           /\ e.blocks = d.blocks \cup {b}
           /\ e.cd[b] = d.cd[Parent(b)] + w
           /\ \A x \in Blocks \ {b} : e.cd[x] = d.cd[x]
           /\ e.chain = d.chain /\ e.import = d.import
           /\ e.children[b] = 0
           /\ e.children[Parent(b)] = d.children[Parent(b)] + 1
           /\ \A x \in Blocks \ {b, Parent(b)} : e.children[x] = d.children[x]
           /\ e.tips = (d.tips \ {<<d.cd[Parent(b)], Parent(b)>>}) \cup {<<e.cd[b], b>>}
<1> DEFINE p == Parent(b)
           d1 == StoreBlock(d, b)
           d2 == StoreHeader(d1, b, d.cd[p] + w)
           d3 == ModifyChildrenCounter(d2, p, 1)
<1>1. p \in Blocks /\ p # b
  BY ParentFacts
<1>2. /\ d1 \in DbType /\ d1.blocks = d.blocks \cup {b} /\ d1.cd = d.cd
      /\ d1.chain = d.chain /\ d1.children = d.children
      /\ d1.tips = d.tips /\ d1.import = d.import
  BY DEF StoreBlock, DbType
<1>3. d.cd[p] \in Nat /\ d.cd[p] + w \in Nat /\ d.children[p] \in Nat
  BY <1>1 DEF DbType
<1> HIDE DEF d1
<1>4. /\ d2 \in DbType /\ d2.blocks = d1.blocks
      /\ d2.cd = [d1.cd EXCEPT ![b] = d.cd[p] + w]
      /\ d2.chain = d1.chain /\ d2.children = d1.children
      /\ d2.tips = d1.tips /\ d2.import = d1.import
  BY <1>2, <1>3 DEF StoreHeader, DbType
<1>5. /\ d2.cd[b] = d.cd[p] + w
      /\ \A x \in Blocks \ {b} : d2.cd[x] = d.cd[x]
  BY <1>1, <1>2, <1>4 DEF DbType
<1> HIDE DEF d2
<1>6. /\ d3 \in DbType /\ d3.blocks = d2.blocks /\ d3.cd = d2.cd
      /\ d3.chain = d2.chain /\ d3.import = d2.import
      /\ d3.children[p] = d.children[p] + 1
      /\ \A x \in Blocks \ {p} : d3.children[x] = d.children[x]
      /\ d3.tips = d2.tips \ {<<d.cd[p], p>>}
  <2>1. d2 \in DbType /\ p \in Blocks /\ 1 \in Int /\ d2.children[p] + 1 \in Nat \ {0}
    BY <1>1, <1>2, <1>3, <1>4
  <2>2. d2.children = d.children /\ d2.cd[p] = d.cd[p]
    BY <1>1, <1>2, <1>4, <1>5
  <2>3. d3 = ModifyChildrenCounter(d2, p, 1)
    OBVIOUS
  <2> HIDE DEF d3, p
  <2>4. QED
    BY <2>1, <2>2, <2>3, ModifyFields
<1> HIDE DEF d3
<1>7. e = ModifyChildrenCounter(d3, b, -1)
  BY DEF Stored, d1, d2, d3
<1>8. /\ e \in DbType /\ e.blocks = d3.blocks /\ e.cd = d3.cd
      /\ e.chain = d3.chain /\ e.import = d3.import
      /\ e.children[b] = 0
      /\ \A x \in Blocks \ {b} : e.children[x] = d3.children[x]
      /\ e.tips = d3.tips \cup {<<d3.cd[b], b>>}
  <2> DEFINE m == -1
  <2>1. m \in Int /\ d3.children[b] + m = 0 /\ 0 \in Nat
    BY <1>1, <1>6
  <2>2. e = ModifyChildrenCounter(d3, b, m)
    BY <1>7
  <2> HIDE DEF m
  <2>3. QED
    BY <2>1, <2>2, <1>6, ModifyFields
<1>9. QED
  BY <1>1, <1>2, <1>4, <1>5, <1>6, <1>8

\* Storing a block keeps the children counters and the index of leaves exact.
LEMMA StoredCounters ==
    ASSUME NEW d \in DbType, Linked(d), CountersExact(d),
           NEW b \in Blocks, b # Genesis, ~Has(d, b), Has(d, Parent(b)),
           NEW w \in Nat, w # 0,
           NEW e, e = Stored(d, b, w)
    PROVE  Headers(e) = Headers(d) \cup {b} /\ CountersExact(e)
<1> DEFINE p == Parent(b)
<1>1. p \in Blocks /\ p # b
  BY ParentFacts
<1>2. d.children[b] = 1
  BY DEF CountersExact
<1>3. /\ e \in DbType
      /\ e.cd[b] = d.cd[p] + w
      /\ \A x \in Blocks \ {b} : e.cd[x] = d.cd[x]
      /\ e.children[b] = 0
      /\ e.children[p] = d.children[p] + 1
      /\ \A x \in Blocks \ {b, p} : e.children[x] = d.children[x]
      /\ e.tips = (d.tips \ {<<d.cd[p], p>>}) \cup {<<e.cd[b], b>>}
  BY <1>2, StoredFields
<1>4. Headers(e) = Headers(d) \cup {b}
  <2>1. e.cd[b] # 0
    BY <1>1, <1>3 DEF DbType
  <2>2. QED
    BY <2>1, <1>3 DEF Headers, Has
<1>5. Children(e, b) = {}
  <2> SUFFICES ASSUME NEW c \in Headers(e) \ {Genesis}, Parent(c) = b
               PROVE  FALSE
    BY DEF Children
  <2>1. c # b /\ c \in Headers(d)
    BY <1>1, <1>4
  <2>2. c \in Blocks /\ Len(Path[c]) >= 2 /\ Len(Path[c]) \in Nat
    BY <2>1, ParentFacts, PathFacts DEF Headers
  <2>3. Has(d, Path[c][Len(Path[c]) - 1])
    BY <2>1, <2>2 DEF Linked
  <2>4. QED
    BY <2>3 DEF Parent
<1>6. Children(e, p) = Children(d, p) \cup {b} /\ b \notin Children(d, p)
  BY <1>4 DEF Children, Headers
<1>7. ASSUME NEW x \in Blocks, x # p
      PROVE  Children(e, x) = Children(d, x)
  BY <1>4, <1>7 DEF Children
<1>8. ASSUME NEW x \in Blocks
      PROVE  IsFiniteSet(Children(d, x)) /\ IsFiniteSet(Children(e, x))
  <2>1. Children(d, x) \subseteq Blocks /\ Children(e, x) \subseteq Blocks
    BY DEF Children, Headers
  <2>2. QED
    BY <2>1, FS_Subset, BlockAssumption DEF BlockAssumption
<1>9. ASSUME NEW x \in Blocks
      PROVE  e.children[x] = IF Has(e, x) THEN Cardinality(Children(e, x)) ELSE 1
  <2>1. CASE x = b
    <3>1. Has(e, b)
      BY <1>4 DEF Headers
    <3>2. QED
      BY <2>1, <3>1, <1>3, <1>5, FS_EmptySet
  <2>2. CASE x = p
    <3>1. Has(e, p) /\ Has(d, p)
      BY <1>1, <1>4 DEF Headers
    <3>2. d.children[p] = Cardinality(Children(d, p))
      BY <3>1, <1>1 DEF CountersExact
    <3>3. Cardinality(Children(e, p)) = Cardinality(Children(d, p)) + 1
      BY <1>1, <1>6, <1>8, FS_AddElement
    <3>4. QED
      BY <2>2, <3>1, <3>2, <3>3, <1>3
  <2>3. CASE x # b /\ x # p
    <3>1. Has(e, x) <=> Has(d, x)
      BY <2>3, <1>3 DEF Has
    <3>2. e.children[x] = d.children[x] /\ Children(e, x) = Children(d, x)
      BY <2>3, <1>3, <1>7
    <3>3. d.children[x] = IF Has(d, x) THEN Cardinality(Children(d, x)) ELSE 1
      BY DEF CountersExact
    <3>4. QED
      BY <3>1, <3>2, <3>3
  <2>4. QED
    BY <2>1, <2>2, <2>3
<1>10. e.tips = {<<e.cd[x], x>> : x \in {y \in Headers(e) : Children(e, y) = {}}}
  <2>1. d.tips = {<<d.cd[x], x>> : x \in {y \in Headers(d) : Children(d, y) = {}}}
    BY DEF CountersExact
  <2>2. {y \in Headers(e) : Children(e, y) = {}}
           = ({y \in Headers(d) : Children(d, y) = {}} \ {p}) \cup {b}
    <3>1. \A y \in Headers(e) : y \in Blocks
      BY DEF Headers
    <3>2. QED
      BY <3>1, <1>1, <1>4, <1>5, <1>6, <1>7
  <2>3. \A y \in Headers(d) : y # b /\ y \in Blocks /\ e.cd[y] = d.cd[y]
    BY <1>3 DEF Headers
  <2>4. QED
    BY <2>1, <2>2, <2>3, <1>3
<1>11. QED
  BY <1>4, <1>9, <1>10 DEF CountersExact

\* Tables without a genesis block.
LEMMA UnbornFields ==
    ASSUME NEW d, Unborn(d)
    PROVE  /\ d \in DbType /\ d.chain = <<>> /\ d.tips = {}
           /\ \A b \in Blocks : d.cd[b] = 0 /\ d.children[b] = 1
<1>1. PICK bodies \in SUBSET Blocks, import \in Seq(Blocks) : d = EmptyDb(bodies, import)
  BY DEF Unborn
<1>2. /\ [b \in Blocks |-> 0] \in [Blocks -> Nat]
      /\ [b \in Blocks |-> 1] \in [Blocks -> Nat]
      /\ <<>> \in Seq(Blocks)
  OBVIOUS
<1>3. QED
  BY <1>1, <1>2 DEF EmptyDb, DbType

\* The constructor's add_block of the genesis block yields good tables.
LEMMA GenesisGood ==
    ASSUME NEW d, Unborn(d), NEW w \in Difficulty[Genesis],
           NEW e, e = AddGenesis(d, w)
    PROVE  Good(e)
<1> DEFINE da == StoreBlock(d, Genesis)
           db1 == StoreHeader(da, Genesis, w)
           d1 == PushChain(db1, Genesis)
<1>1. Genesis \in Blocks /\ Path[Genesis] = <<Genesis>> /\ w \in Nat /\ w # 0
  BY BlockAssumption, DifficultyAssumption DEF BlockAssumption, DifficultyAssumption
<1>2. /\ d \in DbType /\ d.chain = <<>> /\ d.tips = {}
      /\ \A b \in Blocks : d.cd[b] = 0 /\ d.children[b] = 1
  BY UnbornFields
<1>3. /\ d1 \in DbType
      /\ d1.blocks = d.blocks \cup {Genesis} /\ d1.chain = <<Genesis>>
      /\ d1.cd[Genesis] = w /\ \A b \in Blocks \ {Genesis} : d1.cd[b] = 0
      /\ \A b \in Blocks : d1.children[b] = 1
      /\ d1.tips = {}
  <2>1. /\ da \in DbType /\ da.blocks = d.blocks \cup {Genesis} /\ da.cd = d.cd
        /\ da.chain = d.chain /\ da.children = d.children
        /\ da.tips = d.tips /\ da.import = d.import
    BY <1>1, <1>2 DEF StoreBlock, DbType
  <2> HIDE DEF da
  <2>2. /\ db1 \in DbType /\ db1.blocks = da.blocks
        /\ db1.cd = [da.cd EXCEPT ![Genesis] = w]
        /\ db1.chain = da.chain /\ db1.children = da.children
        /\ db1.tips = da.tips /\ db1.import = da.import
    BY <1>1, <2>1 DEF StoreHeader, DbType
  <2>3. db1.cd[Genesis] = w /\ \A b \in Blocks \ {Genesis} : db1.cd[b] = 0
    BY <1>1, <1>2, <2>1, <2>2 DEF DbType
  <2> HIDE DEF db1
  <2>4. db1.chain = <<>> /\ Append(<<>>, Genesis) = <<Genesis>> /\ <<Genesis>> \in Seq(Blocks)
    BY <1>1, <1>2, <2>1, <2>2
  <2>5. /\ d1 \in DbType /\ d1.blocks = db1.blocks /\ d1.cd = db1.cd
        /\ d1.chain = <<Genesis>> /\ d1.children = db1.children
        /\ d1.tips = db1.tips /\ d1.import = db1.import
    BY <2>2, <2>4 DEF PushChain, DbType
  <2>6. QED
    BY <1>2, <2>1, <2>2, <2>3, <2>5
<1>4. e = ModifyChildrenCounter(d1, Genesis, -1)
  BY DEF AddGenesis
<1> HIDE DEF d1, db1, da
<1>5. /\ e \in DbType /\ e.blocks = d1.blocks /\ e.cd = d1.cd /\ e.chain = d1.chain
      /\ e.children[Genesis] = 0
      /\ \A x \in Blocks \ {Genesis} : e.children[x] = d1.children[x]
      /\ e.tips = d1.tips \cup {<<d1.cd[Genesis], Genesis>>}
  <2> DEFINE m == -1
  <2>1. m \in Int /\ d1.children[Genesis] + m = 0 /\ 0 \in Nat /\ d1 \in DbType
    BY <1>1, <1>2, <1>3
  <2>2. e = ModifyChildrenCounter(d1, Genesis, m)
    BY <1>4
  <2> HIDE DEF m
  <2>3. QED
    BY <1>1, <2>1, <2>2, ModifyFields
<1>6. /\ e.chain = <<Genesis>> /\ Tip(e) = Genesis
      /\ e.cd[Genesis] = w
      /\ \A x \in Blocks \ {Genesis} : e.cd[x] = 0
      /\ Headers(e) = {Genesis}
  BY <1>1, <1>2, <1>3, <1>5 DEF Headers, Has, Tip
<1>7. Linked(e)
  BY <1>1, <1>3, <1>5, <1>6 DEF Linked, Has
<1>8. CountersExact(e)
  <2>1. \A x \in Blocks : Children(e, x) = {}
    BY <1>6 DEF Children
  <2>2. \A x \in Blocks :
           e.children[x] = IF Has(e, x) THEN Cardinality(Children(e, x)) ELSE 1
    <3>1. \A x \in Blocks : Has(e, x) <=> x = Genesis
      BY <1>1, <1>6 DEF Has
    <3>2. Cardinality({}) = 0
      BY FS_EmptySet
    <3>3. \A x \in Blocks : e.children[x] = IF x = Genesis THEN 0 ELSE 1
      BY <1>1, <1>3, <1>5
    <3>4. QED
      BY <2>1, <3>1, <3>2, <3>3
  <2>3. e.tips = {<<e.cd[b], b>> : b \in {x \in Headers(e) : Children(e, x) = {}}}
    BY <2>1, <1>1, <1>3, <1>5, <1>6
  <2>4. QED
    BY <2>2, <2>3 DEF CountersExact
<1>9. OnlyRedone(e) /\ HeaviestTip(e)
  BY <1>1, <1>6, RedoAssumption DEF OnlyRedone, HeaviestTip, TipCd, RedoAssumption
<1>10. QED
  BY <1>5, <1>7, <1>8, <1>9 DEF Good

\* A redone branch: what it means that reorganize_blocks ended with tip r.
LEMMA RedoneTip ==
    ASSUME NEW t \in Blocks, NEW b \in Blocks, NEW r,
           NEW i \in 1..Len(Path[b]), IsCommon(t, b, i), IsRedoneTip(b, i, r),
           \A j \in 1..Len(Path[t]) : Path[t][j] \in Redoable
    PROVE  /\ r \in Blocks
           /\ \A j \in 1..Len(Path[r]) : Path[r][j] \in Redoable
           /\ \E n \in 1..Len(Path[b]) :
                 /\ r = Path[b][n]
                 /\ n < Len(Path[b]) => Path[b][n + 1] \notin Redoable
<1>1. PICK n \in i..Len(Path[b]) :
         /\ \A j \in i + 1 .. n : Path[b][j] \in Redoable
         /\ n < Len(Path[b]) => Path[b][n + 1] \notin Redoable
         /\ r = Path[b][n]
  BY DEF IsRedoneTip
<1>2. n \in 1..Len(Path[b]) /\ Len(Path[b]) \in Nat
  BY PathFacts
<1>3. r \in Blocks /\ Path[r] = SubSeq(Path[b], 1, n)
  BY <1>1, <1>2, PathFacts
<1>4. ASSUME NEW j \in 1..n
      PROVE  Path[r][j] = Path[b][j]
  BY <1>2, <1>3, PathFacts
<1>5. ASSUME NEW j \in 1..i
      PROVE  Path[b][j] = Path[t][j]
  <2>1. i \in 1..Len(Path[t]) /\ Path[t][i] = Path[b][i]
    BY DEF IsCommon
  <2>2. Path[Path[t][i]] = SubSeq(Path[t], 1, i) /\ Path[Path[b][i]] = SubSeq(Path[b], 1, i)
    <3>1. Path[Path[t][i]] = SubSeq(Path[t], 1, i)
      BY <2>1, PathFacts
    <3>2. Path[Path[b][i]] = SubSeq(Path[b], 1, i)
      BY PathFacts
    <3>3. QED
      BY <3>1, <3>2
  <2>a. Path[t] \in Seq(Blocks) /\ i <= Len(Path[t]) /\ Len(Path[t]) \in Nat /\ i \in Nat
    BY <2>1, PathFacts
  <2>3. SubSeq(Path[t], 1, i)[j] = Path[t][j]
    BY <2>a
  <2>4. SubSeq(Path[b], 1, i)[j] = Path[b][j]
    BY PathFacts
  <2>5. QED
    BY <2>1, <2>2, <2>3, <2>4
<1>6. i \in 1..Len(Path[t]) /\ Len(Path[t]) \in Nat
  BY PathFacts DEF IsCommon
<1>7. ASSUME NEW j \in 1..n
      PROVE  Path[b][j] \in Redoable
  <2>1. CASE j <= i
    BY <2>1, <1>2, <1>5, <1>6
  <2>2. CASE j > i
    BY <2>2, <1>1, <1>2
  <2>3. QED
    BY <2>1, <2>2, <1>2
<1>8. Len(Path[r]) = n
  BY <1>1, <1>2, PathFacts
<1>9. QED
  BY <1>1, <1>2, <1>3, <1>4, <1>7, <1>8

\* One call of add_block that stores its block: the tables stay good, the
\* header is added, a valid heavier block becomes the tip, and the tip loses
\* difficulty only to a heavier branch with a failing block.
LEMMA AddFacts ==
    ASSUME Good(db), NEW b \in Blocks, NEW w \in Difficulty[b], NEW r,
           Adds(b, w, r),
           NEW e, e = SwitchedTo(Stored(db, b, w), r)
    PROVE  /\ Good(e)
           /\ Headers(e) = Headers(db) \cup {b}
           /\ b \notin Headers(db)
           /\ e.cd[b] = db.cd[Parent(b)] + w
           /\ Valid(b) /\ Heavier(b, w) => Tip(e) = b
           /\ TipCd(e) < TipCd(db) => Heavier(b, w) /\ ~Valid(b)
<1> DEFINE t == Tip(db)
           p == Parent(b)
           f == Stored(db, b, w)
<1>1. /\ db \in DbType /\ Linked(db) /\ CountersExact(db)
      /\ OnlyRedone(db) /\ HeaviestTip(db)
  BY DEF Good
<1>2. b # Genesis /\ Has(db, p) /\ ~Has(db, b)
  <2>1. b # Genesis /\ Has(db, p) /\ ~(b \in db.blocks /\ Has(db, b))
    BY DEF Adds, Processable
  <2>2. Has(db, b) => b \in db.blocks
    BY <1>1 DEF Linked, Headers
  <2>3. QED
    BY <2>1, <2>2
<1>3. w \in Nat /\ w # 0
  BY DifficultyAssumption DEF DifficultyAssumption
<1>4. p \in Blocks /\ p # b /\ Len(Path[b]) >= 2 /\ Len(Path[b]) \in Nat
      /\ Len(Path[p]) = Len(Path[b]) - 1 /\ Path[b] = Append(Path[p], b)
  BY <1>2, ParentFacts, PathFacts
<1>5. /\ t \in Blocks /\ db.chain = Path[t] /\ Has(db, t)
      /\ \A j \in 1..Len(Path[t]) : Path[t][j] \in Redoable
  <2>1. db.chain \in Seq(Blocks) /\ db.chain # <<>>
    BY <1>1 DEF DbType, Linked
  <2>2. t \in Blocks
    BY <2>1 DEF Tip
  <2>3. QED
    BY <1>1, <2>2 DEF Linked, OnlyRedone
<1>6. /\ f \in DbType
      /\ f.blocks = db.blocks \cup {b}
      /\ f.cd[b] = db.cd[p] + w
      /\ \A x \in Blocks \ {b} : f.cd[x] = db.cd[x]
  <2>1. db.children[b] = 1
    BY <1>1, <1>2 DEF CountersExact
  <2>2. QED
    BY <1>1, <1>2, <1>3, <2>1, StoredFields
<1>7. Headers(f) = Headers(db) \cup {b} /\ CountersExact(f)
  BY <1>1, <1>2, <1>3, StoredCounters
<1>8. ASSUME NEW j \in 1..Len(Path[b])
      PROVE  Path[b][j] \in Headers(db) \cup {b}
  <2>1. CASE j = Len(Path[b])
    BY <2>1, PathFacts
  <2>2. CASE j # Len(Path[b])
    <3>1. j \in 1..Len(Path[p]) /\ Path[p] \in Seq(Blocks)
      BY <2>2, <1>4, PathFacts
    <3>2. Path[b][j] = Path[p][j] /\ Path[p][j] \in Blocks
      BY <3>1, <1>4
    <3>3. p \in Headers(db)
      BY <1>2, <1>4 DEF Headers
    <3>4. Has(db, Path[p][j])
      BY <1>1, <3>1, <3>3 DEF Linked
    <3>5. QED
      BY <3>2, <3>4 DEF Headers
  <2>3. QED
    BY <2>1, <2>2
<1>9. PICK i \in 1..Len(Path[b]) :
         /\ IsCommon(t, b, i)
         /\ Heavier(b, w) => IsRedoneTip(b, i, r)
         /\ ~Heavier(b, w) => r = t
  <2>1. PICK i \in 1..Len(Path[b]) :
         /\ IsCommon(t, b, i)
         /\ IF /\ Heavier(b, w)
               /\ \A j \in i + 1 .. Len(Path[b]) : Path[b][j] \in db.blocks \cup {b}
              THEN IsRedoneTip(b, i, r)
              ELSE r = t
    BY DEF Adds
  <2>2. \A j \in i + 1 .. Len(Path[b]) : Path[b][j] \in db.blocks \cup {b}
    <3>1. Headers(db) \subseteq db.blocks
      BY <1>1 DEF Linked
    <3>2. i + 1 .. Len(Path[b]) \subseteq 1..Len(Path[b])
      BY <1>4
    <3>3. QED
      BY <3>1, <3>2, <1>8
  <2>3. QED
    BY <2>1, <2>2
<1>10. /\ r \in Blocks /\ r \in Headers(db) \cup {b}
       /\ \A j \in 1..Len(Path[r]) : Path[r][j] \in Redoable
       /\ Valid(b) /\ Heavier(b, w) => r = b
  <2>1. CASE Heavier(b, w)
    <3>1. /\ r \in Blocks
          /\ \A j \in 1..Len(Path[r]) : Path[r][j] \in Redoable
          /\ \E n \in 1..Len(Path[b]) :
                 /\ r = Path[b][n]
                 /\ n < Len(Path[b]) => Path[b][n + 1] \notin Redoable
      BY <2>1, <1>5, <1>9, RedoneTip
    <3>2. PICK n \in 1..Len(Path[b]) :
                 /\ r = Path[b][n]
                 /\ n < Len(Path[b]) => Path[b][n + 1] \notin Redoable
      BY <3>1
    <3>3. Valid(b) => n = Len(Path[b])
      BY <3>2, <1>4 DEF Valid
    <3>4. QED
      BY <3>1, <3>2, <3>3, <1>8, PathFacts
  <2>2. CASE ~Heavier(b, w)
    BY <2>2, <1>5, <1>9 DEF Headers
  <2>3. QED
    BY <2>1, <2>2
<1> HIDE DEF f
<1>11. /\ e \in DbType /\ e.chain = Path[r] /\ e.blocks = f.blocks /\ e.cd = f.cd
       /\ e.children = f.children /\ e.tips = f.tips
  <2>1. e = [f EXCEPT !.chain = Path[r]] /\ Path[r] \in Seq(Blocks)
    BY <1>10, PathFacts DEF SwitchedTo, f
  <2>2. QED
    BY <2>1, <1>6 DEF DbType
<1>12. Tip(e) = r /\ e.chain # <<>>
  <2>1. Len(Path[r]) # 0 /\ Path[r][Len(Path[r])] = r
    BY <1>10, PathFacts
  <2>2. Path[r] # <<>>
    BY <2>1
  <2>3. QED
    BY <2>1, <2>2, <1>11 DEF Tip
<1>13. Headers(e) = Headers(db) \cup {b}
  BY <1>7, <1>11 DEF Headers, Has
<1>14. Linked(e)
  <2>1. \A x \in Headers(e) : \A j \in 1..Len(Path[x]) : Has(e, Path[x][j])
    <3>1. ASSUME NEW x \in Headers(e), NEW j \in 1..Len(Path[x])
          PROVE  Path[x][j] \in Headers(e)
      <4>1. CASE x = b
        BY <4>1, <1>8, <1>13
      <4>2. CASE x # b
        <5>1. x \in Headers(db) /\ x \in Blocks
          BY <4>2, <1>13 DEF Headers
        <5>2. Has(db, Path[x][j])
          BY <5>1, <1>1 DEF Linked
        <5>3. Path[x][j] \in Blocks
          BY <5>1, PathFacts
        <5>4. QED
          BY <5>2, <5>3, <1>13 DEF Headers
      <4>3. QED
        BY <4>1, <4>2
    <3>2. QED
      BY <3>1 DEF Headers
  <2>2. \A x \in Headers(e) \ {Genesis} : e.cd[x] > e.cd[Parent(x)]
    <3> SUFFICES ASSUME NEW x \in Headers(e) \ {Genesis}
                 PROVE  e.cd[x] > e.cd[Parent(x)]
      OBVIOUS
    <3>1. CASE x = b
      <4>1. e.cd[b] = db.cd[p] + w /\ e.cd[p] = db.cd[p] /\ db.cd[p] \in Nat
        BY <1>1, <1>4, <1>6, <1>11 DEF DbType
      <4>2. QED
        BY <3>1, <4>1, <1>3
    <3>2. CASE x # b
      <4>1. x \in Headers(db) /\ x \in Blocks
        BY <3>2, <1>13 DEF Headers
      <4>2. Len(Path[x]) \in Nat /\ Len(Path[x]) >= 2 /\ Parent(x) \in Blocks
        BY <4>1, PathFacts, ParentFacts
      <4>3. Has(db, Parent(x))
        BY <4>1, <4>2, <1>1 DEF Linked, Parent
      <4>4. Parent(x) # b
        BY <4>3, <1>2
      <4>5. db.cd[x] > db.cd[Parent(x)]
        BY <4>1, <1>1 DEF Linked
      <4>6. QED
        BY <3>2, <4>1, <4>2, <4>4, <4>5, <1>6, <1>11
    <3>3. QED
      BY <3>1, <3>2
  <2>3. Headers(e) \subseteq e.blocks
    BY <1>1, <1>6, <1>11, <1>13 DEF Linked
  <2>4. Has(e, r)
    BY <1>10, <1>13 DEF Headers
  <2>5. QED
    BY <2>1, <2>2, <2>3, <2>4, <1>11, <1>12 DEF Linked
<1>15. CountersExact(e)
  <2>1. \A x : Has(e, x) <=> Has(f, x)
    BY <1>11 DEF Has
  <2>2. Headers(e) = Headers(f)
    BY <1>7, <1>13
  <2>3. \A x \in Blocks : Children(e, x) = Children(f, x)
    BY <2>2 DEF Children
  <2>4. \A x \in Headers(f) : x \in Blocks
    BY DEF Headers
  <2>5. /\ \A x \in Blocks :
             f.children[x] = IF Has(f, x) THEN Cardinality(Children(f, x)) ELSE 1
        /\ f.tips = {<<f.cd[x], x>> : x \in {y \in Headers(f) : Children(f, y) = {}}}
    BY <1>7 DEF CountersExact
  <2>6. {y \in Headers(e) : Children(e, y) = {}} = {y \in Headers(f) : Children(f, y) = {}}
    BY <2>2, <2>3, <2>4
  <2>7. QED
    BY <2>1, <2>3, <2>5, <2>6, <1>11 DEF CountersExact
<1>16. OnlyRedone(e)
  BY <1>10, <1>11 DEF OnlyRedone
<1>17. db.cd[p] \in Nat /\ db.cd[t] \in Nat /\ t # b
       /\ e.cd[b] = db.cd[p] + w /\ e.cd[t] = db.cd[t]
       /\ (Heavier(b, w) <=> e.cd[b] > db.cd[t])
  BY <1>1, <1>2, <1>4, <1>5, <1>6, <1>11 DEF DbType, Heavier, TipCd
<1>18. HeaviestTip(e)
  <2> SUFFICES ASSUME Headers(e) \subseteq Redoable, NEW x \in Headers(e)
               PROVE  e.cd[x] <= e.cd[r]
    BY <1>12 DEF HeaviestTip, TipCd
  <2>1. Valid(b)
    BY <1>8, <1>13 DEF Valid
  <2>2. \A y \in Headers(db) : db.cd[y] <= db.cd[t]
    BY <1>1, <1>13 DEF HeaviestTip, TipCd
  <2>3. \A y \in Headers(db) : y \in Blocks /\ y # b /\ e.cd[y] = db.cd[y] /\ db.cd[y] \in Nat
    BY <1>1, <1>2, <1>6, <1>11 DEF Headers, DbType
  <2>4. CASE Heavier(b, w)
    <3>1. r = b
      BY <2>1, <2>4, <1>10
    <3>2. QED
      BY <3>1, <2>2, <2>3, <2>4, <1>3, <1>13, <1>17
  <2>5. CASE ~Heavier(b, w)
    <3>1. r = t
      BY <2>5, <1>9
    <3>2. QED
      BY <3>1, <2>2, <2>3, <2>5, <1>3, <1>13, <1>17
  <2>6. QED
    BY <2>4, <2>5
<1>19. TipCd(e) < TipCd(db) => Heavier(b, w) /\ ~Valid(b)
  <2>1. TipCd(e) = e.cd[r] /\ TipCd(db) = db.cd[t]
    BY <1>12 DEF TipCd
  <2>2. ~Heavier(b, w) => r = t
    BY <1>9
  <2>3. Heavier(b, w) /\ Valid(b) => r = b
    BY <1>10
  <2>4. QED
    BY <2>1, <2>2, <2>3, <1>3, <1>17
<1>20. Good(e)
  BY <1>11, <1>14, <1>15, <1>16, <1>18 DEF Good
<1>21. QED
  BY <1>2, <1>10, <1>12, <1>13, <1>17, <1>19, <1>20 DEF Headers
-----------------------------------------------------------------------------
\* Forgetting the import changes no other table.
LEMMA FinishFacts ==
    ASSUME NEW d, Good(d), NEW e, e = FinishImport(d)
    PROVE  /\ Good(e)
           /\ Headers(e) = Headers(d) /\ e.cd = d.cd /\ Tip(e) = Tip(d)
<1>1. d \in DbType
  BY DEF Good
<1>2. /\ e \in DbType /\ e.cd = d.cd /\ e.chain = d.chain /\ e.blocks = d.blocks
      /\ e.children = d.children /\ e.tips = d.tips
  <2>1. <<>> \in Seq(Blocks)
    OBVIOUS
  <2>2. QED
    BY <1>1, <2>1 DEF FinishImport, DbType
<1>3. Headers(e) = Headers(d) /\ Tip(e) = Tip(d) /\ \A x : Has(e, x) <=> Has(d, x)
  BY <1>2 DEF Headers, Has, Tip
<1>4. Linked(e)
  BY <1>2, <1>3 DEF Good, Linked
<1>5. CountersExact(e)
  <2>1. \A x : Children(e, x) = Children(d, x)
    BY <1>3 DEF Children
  <2>2. {x \in Headers(e) : Children(e, x) = {}} = {x \in Headers(d) : Children(d, x) = {}}
    BY <2>1, <1>3
  <2>3. QED
    BY <2>1, <2>2, <1>2, <1>3 DEF Good, CountersExact
<1>6. OnlyRedone(e) /\ HeaviestTip(e)
  BY <1>2, <1>3 DEF Good, OnlyRedone, HeaviestTip, TipCd
<1>7. QED
  BY <1>2, <1>3, <1>4, <1>5, <1>6 DEF Good

\* The constructors turn a committed database into good tables.
LEMMA OpenedGood ==
    ASSUME NEW d, Good(d) \/ Unborn(d), NEW e, Opened(d, e)
    PROVE  Good(e)
<1>1. CASE Good(d)
  BY <1>1 DEF Good, Linked, Opened
<1>2. CASE Unborn(d)
  <2>1. PICK w \in Difficulty[Genesis] : e = AddGenesis(d, w)
    BY <1>2, UnbornFields DEF Opened
  <2>2. QED
    BY <1>2, <2>1, GenesisGood
<1>3. QED
  BY <1>1, <1>2

\* What a step that calls add_block, and may then forget the import, does.
Extends(b) ==
    /\ Good(db')
    /\ Headers(db') = Headers(db) \cup {b}
    /\ Valid(b) /\ db'.cd[b] > TipCd(db) => Tip(db') = b
    /\ TipCd(db') < TipCd(db) =>
          b \notin Headers(db) /\ db'.cd[b] > TipCd(db) /\ ~Valid(b)

\* A call of add_block that stores b adopts b if it is valid and heavier, and
\* gives up work only if b is heavier and has a failing ancestor.
LEMMA AddExtends ==
    ASSUME Good(db), NEW b \in Blocks, NEW w \in Difficulty[b], NEW r,
           Adds(b, w, r),
           NEW e, e = SwitchedTo(Stored(db, b, w), r),
           db' = e \/ db' = FinishImport(e)
    PROVE  Extends(b)
<1>1. /\ Good(e)
      /\ Headers(e) = Headers(db) \cup {b}
      /\ b \notin Headers(db)
      /\ e.cd[b] = db.cd[Parent(b)] + w
      /\ Valid(b) /\ Heavier(b, w) => Tip(e) = b
      /\ TipCd(e) < TipCd(db) => Heavier(b, w) /\ ~Valid(b)
  BY AddFacts
<1>2. Heavier(b, w) <=> e.cd[b] > TipCd(db)
  BY <1>1 DEF Heavier
<1>3. Good(db') /\ Headers(db') = Headers(e) /\ db'.cd = e.cd /\ Tip(db') = Tip(e)
  BY <1>1, FinishFacts
<1>4. TipCd(db') = TipCd(e)
  BY <1>3 DEF TipCd
<1>5. QED
  BY <1>1, <1>2, <1>3, <1>4 DEF Extends

\* Every step that is not a restart either calls add_block for one new block
\* or leaves the headers and the tip alone.
LEMMA StepFacts ==
    ASSUME Inv, Next
    PROVE  \/ crashes' = crashes /\ \E b \in Blocks : Extends(b)
           \/ /\ crashes' = crashes /\ Good(db')
              /\ Headers(db') = Headers(db) /\ db'.cd = db.cd /\ Tip(db') = Tip(db)
           \/ Restart
<1>1. Good(db)
  BY DEF Inv
<1>2. CASE \E b \in Blocks : AddBlockNothing(b) \/ AddBlockBan(b)
  BY <1>1, <1>2 DEF AddBlockNothing, AddBlockBan, vars
<1>3. ASSUME NEW b \in Blocks, NEW r, NEW w \in Difficulty[b], AddBlock(b, w, r)
      PROVE  crashes' = crashes /\ Extends(b)
  <2>1. Adds(b, w, r) /\ db' = SwitchedTo(Stored(db, b, w), r) /\ crashes' = crashes
    BY <1>3 DEF AddBlock
  <2>2. QED
    BY <1>1, <2>1, AddExtends
<1>4. HasNextImport => NextImport \in Blocks
  BY <1>1 DEF HasNextImport, NextImport, Good, DbType
<1>5. CASE ImportBlock
  <2>1. PICK w \in Difficulty[NextImport] : AddBlock(NextImport, w, NextImport)
    BY <1>5 DEF ImportBlock
  <2>2. NextImport \in Blocks
    BY <1>4, <1>5 DEF ImportBlock
  <2> HIDE DEF NextImport
  <2>3. QED
    BY <1>3, <2>1, <2>2
<1>6. CASE ImportRefused
  <2>1. CASE db' = FinishImport(db)
    BY <1>1, <1>6, <2>1, FinishFacts DEF ImportRefused
  <2>2. CASE \E w \in Difficulty[NextImport], r \in Blocks \ {NextImport} :
             /\ Adds(NextImport, w, r)
             /\ db' = FinishImport(SwitchedTo(Stored(db, NextImport, w), r))
    <3>1. NextImport \in Blocks
      BY <1>4, <1>6 DEF ImportRefused
    <3>2. PICK w \in Difficulty[NextImport], r \in Blocks :
             /\ Adds(NextImport, w, r)
             /\ db' = FinishImport(SwitchedTo(Stored(db, NextImport, w), r))
      BY <2>2
    <3>3. Extends(NextImport)
      BY <1>1, <3>1, <3>2, AddExtends
    <3>4. QED
      BY <1>6, <3>1, <3>3 DEF ImportRefused
  <2>3. QED
    BY <1>6, <2>1, <2>2 DEF ImportRefused
<1>7. CASE ImportEnd
  BY <1>1, <1>7, FinishFacts DEF ImportEnd
<1>8. CASE DbCommit
  BY <1>1, <1>8 DEF DbCommit
<1>9. QED
  BY <1>2, <1>3, <1>5, <1>6, <1>7, <1>8 DEF Next

\* The invariant holds initially and every step keeps it.
LEMMA InvInit == Init => Inv
<1> SUFFICES ASSUME Init PROVE Inv
  OBVIOUS
<1>1. Unborn(disk)
  <2>1. CASE disk = EmptyDb({}, <<>>)
    <3>1. {} \in SUBSET Blocks /\ <<>> \in Seq(Blocks)
      OBVIOUS
    <3>2. QED
      BY <2>1, <3>1 DEF Unborn
  <2>2. CASE \E c \in ImportChains : disk = StartInternalImport(c)
    <3>1. PICK c \in ImportChains : disk = EmptyDb({c[i] : i \in 1..Len(c)}, c)
      BY <2>2 DEF StartInternalImport
    <3>2. c \in Seq(Blocks)
      BY BoundAssumption DEF BoundAssumption
    <3>3. {c[i] : i \in 1..Len(c)} \in SUBSET Blocks
      BY <3>2
    <3>4. QED
      BY <3>1, <3>2, <3>3 DEF Unborn
  <2>3. QED
    BY <2>1, <2>2 DEF Init
<1>2. Good(db)
  BY <1>1, OpenedGood DEF Init
<1>3. crashes \in 0..MaxCrashes
  BY BoundAssumption DEF Init, BoundAssumption
<1>4. QED
  BY <1>1, <1>2, <1>3 DEF Inv

\* Every step, restarts included, keeps the invariant.
LEMMA InvStep == Inv /\ [Next]_vars => Inv'
<1> SUFFICES ASSUME Inv, [Next]_vars PROVE Inv'
  OBVIOUS
<1>1. CASE UNCHANGED vars
  BY <1>1 DEF vars, Inv
<1>2. CASE Restart
  <2>1. Good(db')
    BY <1>2, OpenedGood DEF Inv, Restart
  <2>2. crashes' \in 0..MaxCrashes
    BY <1>2, BoundAssumption DEF Inv, Restart, BoundAssumption
  <2>3. QED
    BY <1>2, <2>1, <2>2 DEF Inv, Restart
<1>3. CASE Next /\ ~Restart
  <2>1. Good(db') /\ crashes' = crashes
    BY <1>3, StepFacts DEF Extends
  <2>2. disk' = db' \/ disk' = disk \/ disk' = db
    BY <1>3 DEF Next, AddBlockNothing, AddBlockBan, AddBlock, ImportBlock,
                ImportRefused, ImportEnd, DbCommit, vars
  <2>3. QED
    BY <2>1, <2>2 DEF Inv
<1>4. QED
  BY <1>1, <1>2, <1>3

\* The invariant of the proofs, for every behaviour.
THEOREM Invariance == Spec => []Inv
BY InvInit, InvStep, PTL DEF Spec

\* What the invariant says of the running process and of the last commit.
LEMMA InvImplies ==
    Inv => TypeOK /\ TreeLinked /\ TreeCounters /\ ChainRedone /\ TipHeaviest
<1> SUFFICES ASSUME Inv
             PROVE  TypeOK /\ TreeLinked /\ TreeCounters /\ ChainRedone /\ TipHeaviest
  OBVIOUS
<1>1. CASE Good(disk)
  BY <1>1 DEF Inv, Good, TypeOK, TreeLinked, TreeCounters, ChainRedone, TipHeaviest, OnBoth
<1>2. CASE Unborn(disk)
  <2>1. disk \in DbType /\ disk.chain = <<>>
    BY <1>2, UnbornFields
  <2>2. QED
    BY <2>1 DEF Inv, Good, TypeOK, TreeLinked, TreeCounters, ChainRedone, TipHeaviest, OnBoth
<1>3. QED
  BY <1>1, <1>2 DEF Inv

\* Type correctness of the tables, committed or not (BlockChain's records).
THEOREM TypeCorrect == Spec => []TypeOK
BY Invariance, InvImplies, PTL

\* The tip chain is the tip's ancestry and the tree of headers is closed
\* under parents, through reorganizations, failed ones too, and restarts.
THEOREM TreeLinkedAlways == Spec => []TreeLinked
BY Invariance, InvImplies, PTL

\* The children counters and the index of leaves are exact, whatever
\* add_block, reorganize_blocks and restarts did.
THEOREM TreeCountersAlways == Spec => []TreeCounters
BY Invariance, InvImplies, PTL

\* No block that redo_block refuses is ever on the tip chain.
THEOREM ChainRedoneAlways == Spec => []ChainRedone
BY Invariance, InvImplies, PTL

\* While all stored blocks are redoable, the tip is a heaviest stored block.
THEOREM TipHeaviestAlways == Spec => []TipHeaviest
BY Invariance, InvImplies, PTL

\* A heavier block with a redoable ancestry is adopted at once by add_block.
THEOREM AdoptsHeavierBranchAlways == Spec => AdoptsHeavierBranch
<1>1. Inv /\ [Next]_vars =>
         [\A b \in Headers(db') \ Headers(db) :
            Valid(b) /\ db'.cd[b] > TipCd(db) /\ crashes' = crashes
               => Tip(db') = b]_vars
  <2> SUFFICES ASSUME Inv, Next, NEW b \in Headers(db') \ Headers(db),
                      Valid(b), db'.cd[b] > TipCd(db), crashes' = crashes
               PROVE  Tip(db') = b
    OBVIOUS
  <2>1. ~Restart
    BY DEF Restart, Inv
  <2>2. PICK c \in Blocks : Extends(c)
    BY <2>1, StepFacts
  <2>3. b = c
    BY <2>2 DEF Extends
  <2>4. QED
    BY <2>2, <2>3 DEF Extends
<1>2. QED
  BY <1>1, Invariance, PTL DEF Spec, AdoptsHeavierBranch

\* Without a restart the tip loses difficulty only when reorganize_blocks
\* stops at a block of a heavier branch that redo_block refuses.
THEOREM WorkLostOnlyToFailedBranchAlways == Spec => WorkLostOnlyToFailedBranch
<1>1. Inv /\ [Next]_vars =>
         [TipCd(db') < TipCd(db) =>
            \/ crashes' # crashes
            \/ \E b \in Headers(db') \ Headers(db) :
                  db'.cd[b] > TipCd(db) /\ ~Valid(b)]_vars
  <2> SUFFICES ASSUME Inv, Next, TipCd(db') < TipCd(db), crashes' = crashes
               PROVE  \E b \in Headers(db') \ Headers(db) :
                         db'.cd[b] > TipCd(db) /\ ~Valid(b)
    OBVIOUS
  <2>1. ~Restart
    BY DEF Restart, Inv
  <2>2. TipCd(db) \in Nat
    BY DEF Inv, Good, Linked, DbType, TipCd, Tip
  <2>3. PICK c \in Blocks : Extends(c)
    BY <2>1, <2>2, StepFacts DEF TipCd
  <2>4. QED
    BY <2>3 DEF Extends
<1>2. QED
  BY <1>1, Invariance, PTL DEF Spec, WorkLostOnlyToFailedBranch
=============================================================================
