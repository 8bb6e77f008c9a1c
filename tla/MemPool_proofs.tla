---------------------------- MODULE MemPool_proofs ----------------------------
(***************************************************************************)
(* Proofs about MemPool for all transactions, fees, sizes, blocks and pool *)
(* limits: the indices are exact, the pool holds no spent key image and is *)
(* bounded, what is accepted stays, and a reorganization loses nothing.    *)
(***************************************************************************)
EXTENDS MemPool, FiniteSetTheorems, WellFoundedInduction, TLAPS

\* The tables of m are well-typed and its indices exact.
GoodPool(m) ==
    /\ m.txs \subseteq Txs
    /\ m.ki \in [KeyImages -> Txs \cup {NoTx}]
    /\ Exact(m)

Inv ==
    /\ GoodPool(mem)
    /\ PoolUnspent
    /\ old \subseteq Txs
    /\ undone \subseteq Txs
    /\ chain \in Seq(BlockBodies)

\* A transaction spends key images, and is not the null hash.
LEMMA KeysType ==
    ASSUME NEW t \in Txs
    PROVE  Keys(t) \subseteq KeyImages /\ t # NoTx
BY TxAssumption DEF TxAssumption, Keys

\* The indices of the empty pool are exact.
LEMMA EmptyGood == GoodPool(EmptyPool)
<1>1. NoTx \notin Txs
  BY KeysType
<1>2. [k \in KeyImages |-> NoTx] \in [KeyImages -> Txs \cup {NoTx}]
  OBVIOUS
<1>3. QED
  BY <1>1, <1>2 DEF GoodPool, EmptyPool, Exact

\* remove_from_pool keeps the indices exact.
LEMMA RemoveGood ==
    ASSUME NEW m, GoodPool(m), NEW R \in SUBSET m.txs,
           NEW e, e = RemoveFromPool(m, R)
    PROVE  GoodPool(e) /\ e.txs = m.txs \ R
<1>1. /\ m.txs \subseteq Txs /\ NoTx \notin Txs
      /\ m.ki \in [KeyImages -> Txs \cup {NoTx}]
      /\ \A k \in KeyImages, t \in Txs : m.ki[k] = t <=> t \in m.txs /\ k \in Keys(t)
      /\ m.fees = {Rank(t) : t \in m.txs}
  BY KeysType DEF GoodPool, Exact
<1>2. /\ e.txs = m.txs \ R
      /\ e.ki = [k \in KeyImages |-> IF \E t \in R : k \in Keys(t) THEN NoTx ELSE m.ki[k]]
      /\ e.fees = m.fees \ {Rank(t) : t \in R}
  BY DEF RemoveFromPool
<1>3. e.ki \in [KeyImages -> Txs \cup {NoTx}]
  BY <1>1, <1>2
<1>4. ASSUME NEW k \in KeyImages, NEW t \in Txs
      PROVE  e.ki[k] = t <=> t \in e.txs /\ k \in Keys(t)
  <2>1. CASE \E r \in R : k \in Keys(r)
    <3>1. PICK r \in R : k \in Keys(r)
      BY <2>1
    <3>2. m.ki[k] = r
      BY <1>1, <3>1
    <3>3. e.ki[k] = NoTx
      BY <1>2, <2>1
    <3>4. QED
      BY <1>1, <1>2, <3>1, <3>2, <3>3
  <2>2. CASE ~\E r \in R : k \in Keys(r)
    BY <1>1, <1>2, <2>2
  <2>3. QED
    BY <2>1, <2>2
<1>5. e.fees = {Rank(t) : t \in e.txs}
  BY <1>1, <1>2 DEF Rank
<1>6. QED
  BY <1>1, <1>2, <1>3, <1>4, <1>5 DEF GoodPool, Exact

\* Adding a transaction whose key images are not in the index does, too.
LEMMA InsertGood ==
    ASSUME NEW m, GoodPool(m), NEW t \in Txs,
           \A k \in Keys(t) : m.ki[k] = NoTx,
           NEW e, e = Inserted(m, t)
    PROVE  GoodPool(e) /\ e.txs = m.txs \cup {t}
<1>1. /\ m.txs \subseteq Txs /\ NoTx \notin Txs /\ Keys(t) \subseteq KeyImages
      /\ m.ki \in [KeyImages -> Txs \cup {NoTx}]
      /\ \A k \in KeyImages, u \in Txs : m.ki[k] = u <=> u \in m.txs /\ k \in Keys(u)
      /\ m.fees = {Rank(u) : u \in m.txs}
  BY KeysType DEF GoodPool, Exact
<1>2. /\ e.txs = m.txs \cup {t}
      /\ e.ki = [k \in KeyImages |-> IF k \in Keys(t) THEN t ELSE m.ki[k]]
      /\ e.fees = m.fees \cup {Rank(t)}
  BY DEF Inserted
<1>3. e.ki \in [KeyImages -> Txs \cup {NoTx}]
  BY <1>1, <1>2
<1>4. ASSUME NEW k \in KeyImages, NEW u \in Txs
      PROVE  e.ki[k] = u <=> u \in e.txs /\ k \in Keys(u)
  <2>1. CASE k \in Keys(t)
    <3>1. u \in m.txs => k \notin Keys(u)
      BY <1>1, <2>1
    <3>2. QED
      BY <1>2, <2>1, <3>1
  <2>2. CASE k \notin Keys(t)
    BY <1>1, <1>2, <2>2
  <2>3. QED
    BY <2>1, <2>2
<1>5. e.fees = {Rank(u) : u \in e.txs}
  BY <1>1, <1>2 DEF Rank
<1>6. QED
  BY <1>1, <1>2, <1>3, <1>4, <1>5 DEF GoodPool, Exact

\* A transaction that add_transaction accepts joins what it does not displace.
LEMMA AddedPool ==
    ASSUME GoodPool(mem), NEW t \in Txs, BetterConflicts(t) = {},
           NEW m1, m1 = RemoveFromPool(mem, Displaced(t)), NEW m2, m2 = Inserted(m1, t)
    PROVE  /\ GoodPool(m2) /\ m2.txs = (mem.txs \ Displaced(t)) \cup {t}
           /\ m2.size = mem.size - SumSize(Displaced(t)) + Size[t]
<1>1. Displaced(t) \subseteq mem.txs
  BY DEF Displaced, Holders
<1>2. GoodPool(m1) /\ m1.txs = mem.txs \ Displaced(t)
  BY <1>1, RemoveGood
<1>3. \A k \in Keys(t) : m1.ki[k] = NoTx
  <2> SUFFICES ASSUME NEW k \in Keys(t), m1.ki[k] # NoTx
               PROVE  FALSE
    OBVIOUS
  <2>1. k \in KeyImages /\ m1.ki[k] \in Txs
    BY <1>2, KeysType DEF GoodPool
  <2>2. m1.ki[k] \in mem.txs /\ m1.ki[k] \notin Displaced(t) /\ k \in Keys(m1.ki[k])
    BY <1>2, <2>1 DEF GoodPool, Exact
  <2>3. mem.ki[k] = m1.ki[k]
    BY <2>1, <2>2 DEF GoodPool, Exact
  <2>4. m1.ki[k] \in Holders(mem, Keys(t))
    BY <2>2, <2>3 DEF Holders
  <2>5. Displaced(t) = Holders(mem, Keys(t))
    BY DEF Displaced, Holders
  <2>6. QED
    BY <2>2, <2>4, <2>5
<1>4. GoodPool(m2) /\ m2.txs = m1.txs \cup {t}
  BY <1>2, <1>3, InsertGood
<1>5. m1.size = mem.size - SumSize(Displaced(t)) /\ m2.size = m1.size + Size[t]
  BY DEF RemoveFromPool, Inserted
<1>6. QED
  BY <1>2, <1>4, <1>5

\* One call of add_transaction keeps the pool good and unspent.
LEMMA AddsGood ==
    ASSUME GoodPool(mem), PoolUnspent, NEW t \in Txs, Adds(t)
    PROVE  GoodPool(mem') /\ \A u \in mem'.txs : Keys(u) \cap spent = {}
<1>1. Displaced(t) \subseteq mem.txs
  BY DEF Displaced, Holders
<1>2. CASE Refusal(t) # "none" /\ UNCHANGED <<mem, version>>
  BY <1>2 DEF PoolUnspent
<1>3. CASE mem' = RemoveFromPool(mem, Displaced(t))
  <2>1. GoodPool(mem') /\ mem'.txs = mem.txs \ Displaced(t)
    BY <1>1, <1>3, RemoveGood
  <2>2. QED
    BY <2>1 DEF PoolUnspent
<1>4. CASE /\ Refusal(t) = "none" /\ BetterConflicts(t) = {}
           /\ mem' = Trimmed(Inserted(RemoveFromPool(mem, Displaced(t)), t))
  <2>1. PICK m1 : m1 = RemoveFromPool(mem, Displaced(t))
    OBVIOUS
  <2>2. PICK m2 : m2 = Inserted(m1, t)
    OBVIOUS
  <2> DEFINE R == {x \in m2.txs :
                     m2.size - SumSize({u \in m2.txs : Rank(u) \in m2.fees /\ ~Below(Rank(x), Rank(u))})
                        >= MaxPoolSize}
  <2>3. GoodPool(m2) /\ m2.txs = (mem.txs \ Displaced(t)) \cup {t}
    BY <1>4, <2>1, <2>2, AddedPool
  <2>4. mem' = RemoveFromPool(m2, R)
    BY <1>4, <2>1, <2>2 DEF Trimmed
  <2>5. R \subseteq m2.txs
    OBVIOUS
  <2> HIDE DEF R
  <2>6. GoodPool(mem') /\ mem'.txs = m2.txs \ R
    BY <2>3, <2>4, <2>5, RemoveGood
  <2>7. Keys(t) \cap spent = {}
    BY <1>4 DEF Refusal
  <2>8. QED
    BY <2>3, <2>6, <2>7 DEF PoolUnspent
<1>5. QED
  BY <1>2, <1>3, <1>4 DEF Adds

\* A block that joins the chain evicts every pool transaction it conflicts with.
LEMMA RedoneGood ==
    ASSUME GoodPool(mem), PoolUnspent, NEW B \in BlockBodies, Redone(B)
    PROVE  GoodPool(mem') /\ PoolUnspent'
<1> DEFINE K == UNION {Keys(t) : t \in B}
<1>1. spent' = spent \cup K /\ mem' = RemoveFromPool(mem, Holders(mem, K))
  BY DEF Redone
<1>2. K \subseteq KeyImages
  BY KeysType, TxAssumption DEF TxAssumption
<1> HIDE DEF K
<1>3. Holders(mem, K) \subseteq mem.txs
  BY DEF Holders
<1>4. GoodPool(mem') /\ mem'.txs = mem.txs \ Holders(mem, K)
  BY <1>1, <1>3, RemoveGood
<1>5. ASSUME NEW t \in mem'.txs, NEW k \in Keys(t), k \in spent'
      PROVE  FALSE
  <2>1. t \in mem.txs /\ t \in Txs /\ t \notin Holders(mem, K)
    BY <1>4 DEF GoodPool
  <2>2. k \notin spent
    BY <2>1 DEF PoolUnspent
  <2>3. k \in K /\ k \in KeyImages
    BY <1>1, <1>2, <1>5, <2>2
  <2>4. mem.ki[k] = t
    BY <2>1, <2>3 DEF GoodPool, Exact
  <2>5. QED
    BY <2>1, <2>3, <2>4 DEF Holders
<1>6. QED
  BY <1>4, <1>5 DEF PoolUnspent

\* The invariant holds at start: pool and chain are empty.
LEMMA InvInit == Init => Inv
<1>1. <<>> \in Seq(BlockBodies)
  OBVIOUS
<1>2. EmptyPool.txs = {}
  BY DEF EmptyPool
<1>3. QED
  BY <1>1, <1>2, EmptyGood DEF Init, Inv, PoolUnspent

\* Every step keeps the invariant, the steps of a reorganization included.
LEMMA InvStep == Inv /\ [Next]_vars => Inv'
<1> SUFFICES ASSUME Inv, [Next]_vars PROVE Inv'
  OBVIOUS
<1> USE DEF Inv
<1>1. CASE UNCHANGED vars
  BY <1>1 DEF vars, PoolUnspent
<1>2. ASSUME NEW t \in Txs, AddTransaction(t) PROVE Inv'
  <2>1. Adds(t) /\ UNCHANGED <<chain, spent, old, undone>>
    BY <1>2 DEF AddTransaction
  <2>2. QED
    BY <2>1, AddsGood DEF PoolUnspent
<1>3. ASSUME NEW B \in BlockBodies, ExtendTip(B) PROVE Inv'
  <2>1. Redone(B) /\ UNCHANGED <<old, undone>> /\ chain' = Append(chain, B)
    BY <1>3 DEF ExtendTip, Redone
  <2>2. QED
    BY <2>1, RedoneGood
<1>4. ASSUME NEW B \in BlockBodies, RedoBlock(B) PROVE Inv'
  <2>1. Redone(B) /\ undone' = undone \ B /\ old' = old /\ chain' = Append(chain, B)
    BY <1>4 DEF RedoBlock, Redone
  <2>2. QED
    BY <2>1, RedoneGood
<1>5. CASE StartReorganize
  BY <1>5 DEF StartReorganize, PoolUnspent
<1>6. CASE UndoBlock
  <2>1. chain # <<>> /\ chain' = SubSeq(chain, 1, Len(chain) - 1) /\ mem' = mem /\ old' = old
    BY <1>6 DEF UndoBlock
  <2>2. chain[Len(chain)] \in BlockBodies
    BY <2>1
  <2>3. chain[Len(chain)] \subseteq Txs
    BY <2>2, TxAssumption DEF TxAssumption
  <2>4. spent' \subseteq spent /\ undone' = undone \cup chain[Len(chain)]
    BY <1>6 DEF UndoBlock
  <2>5. chain' \in Seq(BlockBodies)
    BY <2>1
  <2>6. QED
    BY <2>1, <2>3, <2>4, <2>5 DEF PoolUnspent
<1>7. CASE OnReorganization
  <2>1. EmptyPool.txs = {}
    BY DEF EmptyPool
  <2>2. /\ mem' = mem \/ mem' = EmptyPool
        /\ old' \subseteq mem.txs
        /\ spent' = spent /\ undone' = undone /\ chain' = chain
    BY <1>7 DEF OnReorganization
  <2>3. QED
    BY <2>1, <2>2, EmptyGood DEF PoolUnspent, GoodPool
<1>8. CASE ReaddOld
  <2>1. PICK t \in old : Adds(t) /\ old' = old \ {t}
    BY <1>8 DEF ReaddOld
  <2>2. UNCHANGED <<chain, spent, undone>>
    BY <1>8 DEF ReaddOld
  <2>3. QED
    BY <2>1, <2>2, AddsGood DEF PoolUnspent
<1>9. CASE ReaddUndone
  <2>1. PICK t \in undone : Adds(t) /\ undone' = undone \ {t}
    BY <1>9 DEF ReaddUndone
  <2>2. UNCHANGED <<chain, spent, old>>
    BY <1>9 DEF ReaddUndone
  <2>3. QED
    BY <2>1, <2>2, AddsGood DEF PoolUnspent
<1>10. CASE FinishReorganization
  BY <1>10 DEF FinishReorganization, PoolUnspent
<1>11. QED
  BY <1>1, <1>2, <1>3, <1>4, <1>5, <1>6, <1>7, <1>8, <1>9, <1>10 DEF Next

\* The inductive invariant: exact indices, no spent key image in the pool.
THEOREM Invariance == Spec => []Inv
BY InvInit, InvStep, PTL DEF Spec

\* The indices by key image and by fee always describe exactly the pool's
\* transactions: the invariant() calls of add_transaction and
\* remove_from_pool cannot fail.
THEOREM IndicesExactAlways == Spec => []IndicesExact
<1>1. Inv => IndicesExact
  BY DEF Inv, GoodPool, IndicesExact
<1>2. QED
  BY <1>1, Invariance, PTL

\* The pool never holds a transaction whose key image is in the chain, during
\* a reorganization included.
THEOREM PoolUnspentAlways == Spec => []PoolUnspent
<1>1. Inv => PoolUnspent
  BY DEF Inv
<1>2. QED
  BY <1>1, Invariance, PTL

-----------------------------------------------------------------------------
(***************************************************************************)
(* Sums of sizes.  SumSize is a fold, a recursive function that takes the  *)
(* elements in an order of its own; it counts pairs, as many of each       *)
(* transaction as its size, and what holds of cardinalities holds of it.   *)
(***************************************************************************)
Units(S) == {p \in Txs \X Nat : p[1] \in S /\ p[2] \in 1..Size[p[1]]}

LEMMA UnitsOfOne ==
    ASSUME NEW t \in Txs
    PROVE  IsFiniteSet(Units({t})) /\ Cardinality(Units({t})) = Size[t]
<1> DEFINE f == [i \in 1..Size[t] |-> <<t, i>>]
<1>1. Size[t] \in Nat
  BY TxAssumption DEF TxAssumption
<1>2. f \in [1..Size[t] -> Units({t})]
  BY <1>1 DEF Units
<1>3. \A i, j \in 1..Size[t] : f[i] = f[j] => i = j
  OBVIOUS
<1>4. ASSUME NEW p \in Units({t}) PROVE \E i \in 1..Size[t] : f[i] = p
  <2>1. p = <<p[1], p[2]>> /\ p[1] = t /\ p[2] \in 1..Size[t]
    BY DEF Units
  <2>2. QED
    BY <2>1
<1>5. f \in Bijection(1..Size[t], Units({t}))
  BY <1>2, <1>3, <1>4 DEF Bijection, Injection, IsInjective, Surjection
<1>6. ExistsBijection(1..Size[t], Units({t}))
  BY <1>5 DEF ExistsBijection
<1>7. IsFiniteSet(1..Size[t]) /\ Cardinality(1..Size[t]) = Size[t]
  BY <1>1, FS_Interval, SMTT(30)
<1>8. QED
  BY <1>6, <1>7, FS_Bijection

LEMMA UnitsFinite ==
    ASSUME NEW S \in SUBSET Txs
    PROVE  IsFiniteSet(Units(S)) /\ Cardinality(Units(S)) \in Nat
<1> DEFINE U == {Units({t}) : t \in S}
           g == [t \in S |-> Units({t})]
<1>1. IsFiniteSet(S)
  BY TxAssumption, FS_Subset DEF TxAssumption
<1>2. g \in Surjection(S, U)
  BY DEF Surjection
<1>3. IsFiniteSet(U)
  BY <1>1, <1>2, FS_Surjection
<1>4. \A V \in U : IsFiniteSet(V)
  BY UnitsOfOne
<1>5. Units(S) \in SUBSET UNION U
  BY DEF Units
<1> HIDE DEF U
<1>6. IsFiniteSet(UNION U)
  BY <1>3, <1>4, FS_UNION
<1>7. IsFiniteSet(Units(S))
  BY <1>5, <1>6, FS_Subset
<1>8. QED
  BY <1>7, FS_CardinalityType

LEMMA UnitsTogether ==
    ASSUME NEW S \in SUBSET Txs, NEW T \in SUBSET Txs, S \cap T = {}
    PROVE  Cardinality(Units(S \cup T)) = Cardinality(Units(S)) + Cardinality(Units(T))
<1>1. Units(S \cup T) = Units(S) \cup Units(T)
  BY DEF Units
<1>2. Units(S) \cap Units(T) = {}
  BY DEF Units
<1>3. /\ IsFiniteSet(Units(S)) /\ IsFiniteSet(Units(T))
      /\ Cardinality(Units(S)) \in Nat /\ Cardinality(Units(T)) \in Nat
  BY UnitsFinite
<1>4. PICK A, B : A = Units(S) /\ B = Units(T)
  OBVIOUS
<1>5. IsFiniteSet(A) /\ IsFiniteSet(B) /\ A \cap B = {}
  BY <1>2, <1>3, <1>4
<1>6. Cardinality(A \cup B) = Cardinality(A) + Cardinality(B) - Cardinality(A \cap B)
  BY <1>5, FS_Union
<1>7. Cardinality(A \cap B) = 0
  BY <1>5, FS_EmptySet
<1>8. Cardinality(A \cup B) = Cardinality(A) + Cardinality(B)
  BY <1>3, <1>4, <1>6, <1>7
<1>9. Units(S \cup T) = A \cup B
  BY <1>1, <1>4, Zenon
<1>10. QED
  BY <1>4, <1>8, <1>9, Zenon

\* The function of the fold.
One(s) == CHOOSE x \in s : TRUE
IsSum(f, S) == f = [s \in SUBSET S |-> IF s = {} THEN 0 ELSE Size[One(s)] + f[s \ {One(s)}]]

LEMMA UnitsAreSum ==
    ASSUME NEW S \in SUBSET Txs
    PROVE  IsSum([s \in SUBSET S |-> Cardinality(Units(s))], S)
<1> DEFINE f == [s \in SUBSET S |-> Cardinality(Units(s))]
<1>1. ASSUME NEW s \in SUBSET S, s # {}
      PROVE  f[s] = Size[One(s)] + f[s \ {One(s)}]
  <2>1. PICK x \in s : x = One(s)
    BY <1>1 DEF One
  <2>2. x \in Txs /\ {x} \in SUBSET Txs /\ s \ {x} \in SUBSET Txs /\ {x} \cup (s \ {x}) = s /\ s \ {x} \in SUBSET S
    OBVIOUS
  <2>3. Cardinality(Units({x} \cup (s \ {x}))) = Cardinality(Units({x})) + Cardinality(Units(s \ {x}))
    BY <2>2, UnitsTogether
  <2>4. Cardinality(Units({x})) = Size[x]
    BY <2>2, UnitsOfOne
  <2>5. QED
    BY <2>1, <2>2, <2>3, <2>4
<1>2. Cardinality(Units({})) = 0
  BY FS_EmptySet DEF Units
<1>3. \A s \in SUBSET S : f[s] = IF s = {} THEN 0 ELSE Size[One(s)] + f[s \ {One(s)}]
  BY <1>1, <1>2
<1>4. f = [s \in SUBSET S |-> f[s]]
  OBVIOUS
<1> HIDE DEF f
<1>5. IsSum(f, S)
  BY <1>3, <1>4 DEF IsSum
<1>6. QED
  BY <1>5 DEF f

\* A set of sets of transactions that is not empty has a least member.
LEMMA SubsetsWellFounded ==
    ASSUME NEW S \in SUBSET Txs
    PROVE  IsWellFoundedOn(StrictSubsetOrdering(S), SUBSET S)
<1>1. IsFiniteSet(S)
  BY TxAssumption, FS_Subset DEF TxAssumption
<1>2. QED
  BY <1>1, FS_FiniteSubsetsOfFinite, FS_StrictSubsetOrderingWellFounded

\* There is one such function: two would differ on a least set.
LEMMA SumUnique ==
    ASSUME NEW S \in SUBSET Txs, NEW f, IsSum(f, S), NEW g, IsSum(g, S)
    PROVE  f[S] = g[S]
<1> DEFINE D == {s \in SUBSET S : f[s] # g[s]}
<1>1. IsWellFoundedOn(StrictSubsetOrdering(S), SUBSET S)
  BY SubsetsWellFounded
<1>2. \A s \in SUBSET S : /\ f[s] = IF s = {} THEN 0 ELSE Size[One(s)] + f[s \ {One(s)}]
                          /\ g[s] = IF s = {} THEN 0 ELSE Size[One(s)] + g[s \ {One(s)}]
  BY DEF IsSum
<1>3. D \subseteq SUBSET S
  OBVIOUS
<1>4. ASSUME D # {} PROVE FALSE
  <2>1. PICK s \in D : \A r \in D : <<r, s>> \notin StrictSubsetOrdering(S)
    BY <1>1, <1>3, <1>4, WFMin
  <2>2. s \in SUBSET S /\ f[s] # g[s]
    OBVIOUS
  <2>3. s # {}
    BY <1>2, <2>2
  <2>4. One(s) \in s
    BY <2>3 DEF One
  <2>5. PICK r \in SUBSET S : r = s \ {One(s)}
    BY <2>2
  <2>6. <<r, s>> \in StrictSubsetOrdering(S)
    BY <2>2, <2>4, <2>5 DEF StrictSubsetOrdering
  <2>7. f[r] = g[r]
    BY <2>1, <2>6
  <2>8. QED
    BY <1>2, <2>2, <2>3, <2>5, <2>7
<1>5. QED
  BY <1>4

LEMMA SumIs ==
    ASSUME NEW S \in SUBSET Txs
    PROVE  SumSize(S) = Cardinality(Units(S))
<1> DEFINE f == CHOOSE h : IsSum(h, S)
           g == [s \in SUBSET S |-> Cardinality(Units(s))]
<1>1. SumSize(S) = f[S]
  BY DEF SumSize, MapThenSumSet, MapThenFoldSet, IsSum, One
<1>2. IsSum(g, S)
  BY UnitsAreSum
<1>3. IsSum(f, S)
  BY <1>2
<1>4. g[S] = Cardinality(Units(S))
  OBVIOUS
<1> HIDE DEF f, g
<1>5. f[S] = g[S]
  BY <1>2, <1>3, SumUnique
<1>6. QED
  BY <1>1, <1>4, <1>5

\* The laws of sums.
LEMMA SumNat ==
    ASSUME NEW S \in SUBSET Txs
    PROVE  SumSize(S) \in Nat
BY SumIs, UnitsFinite

LEMMA SumEmpty == SumSize({}) = 0
<1>1. Units({}) = {}
  BY DEF Units
<1>2. {} \in SUBSET Txs
  OBVIOUS
<1>3. QED
  BY <1>1, <1>2, SumIs, FS_EmptySet

LEMMA SumOne ==
    ASSUME NEW t \in Txs
    PROVE  SumSize({t}) = Size[t] /\ Size[t] \in Nat
<1>1. {t} \in SUBSET Txs
  OBVIOUS
<1>2. QED
  BY <1>1, SumIs, UnitsOfOne, TxAssumption DEF TxAssumption

LEMMA SumTogether ==
    ASSUME NEW S \in SUBSET Txs, NEW T \in SUBSET Txs, S \cap T = {}
    PROVE  SumSize(S \cup T) = SumSize(S) + SumSize(T)
<1>1. S \cup T \in SUBSET Txs
  OBVIOUS
<1>2. QED
  BY <1>1, SumIs, UnitsTogether

LEMMA SumWithout ==
    ASSUME NEW S \in SUBSET Txs, NEW R \in SUBSET S
    PROVE  SumSize(S \ R) = SumSize(S) - SumSize(R) /\ SumSize(R) <= SumSize(S)
<1>1. /\ R \in SUBSET Txs /\ S \ R \in SUBSET Txs /\ (S \ R) \cap R = {} /\ (S \ R) \cup R = S
  OBVIOUS
<1>2. SumSize((S \ R) \cup R) = SumSize(S \ R) + SumSize(R)
  BY <1>1, SumTogether
<1>3. SumSize(S) \in Nat /\ SumSize(R) \in Nat /\ SumSize(S \ R) \in Nat
  BY <1>1, SumNat
<1>4. QED
  BY <1>1, <1>2, <1>3

-----------------------------------------------------------------------------
(***************************************************************************)
(* The order of the pool: t is ahead of u when it is trimmed before it.    *)
(***************************************************************************)
Ahead(t, u) == Below(Rank(t), Rank(u))
Least(S, t) == t \in S /\ \A u \in S : ~Ahead(u, t)

\* The transactions of S that the trimming reaches no later than x.
Under(S, x) == {u \in S : ~Ahead(x, u)}

LEMMA Order ==
    /\ \A t \in Txs : ~Ahead(t, t)
    /\ \A t, u \in Txs : Ahead(t, u) \/ Ahead(u, t) \/ t = u
    /\ \A t, u \in Txs : Ahead(t, u) => ~Ahead(u, t)
    /\ \A t, u, v \in Txs : Ahead(t, u) /\ Ahead(u, v) => Ahead(t, v)
<1>1. \A t \in Txs : FeePerByte[t] \in Nat /\ t \in Nat
  BY TxAssumption DEF TxAssumption
<1>2. \A t, u \in Txs : Ahead(t, u) <=> \/ FeePerByte[t] < FeePerByte[u]
                                        \/ (FeePerByte[t] = FeePerByte[u] /\ t < u)
  BY DEF Ahead, Below, Rank
<1>3. \A t \in Txs : ~Ahead(t, t)
  BY <1>1, <1>2
<1>4. \A t, u \in Txs : Ahead(t, u) \/ Ahead(u, t) \/ t = u
  BY <1>1, <1>2
<1>5. \A t, u \in Txs : Ahead(t, u) => ~Ahead(u, t)
  BY <1>1, <1>2
<1>6. \A t, u, v \in Txs : Ahead(t, u) /\ Ahead(u, v) => Ahead(t, v)
  BY <1>1, <1>2
<1>7. QED
  BY <1>3, <1>4, <1>5, <1>6

\* A pool has a first and a last transaction in this order.
LEMMA HasLeast ==
    ASSUME NEW S \in SUBSET Txs, S # {}
    PROVE  \E t \in S : Least(S, t)
<1> DEFINE Before(x) == {u \in S : Ahead(u, x)}
           D == {Before(x) : x \in S}
<1>1. IsWellFoundedOn(StrictSubsetOrdering(S), SUBSET S)
  BY SubsetsWellFounded
<1>2. D \subseteq SUBSET S /\ D # {}
  OBVIOUS
<1>3. PICK d \in D : \A c \in D : <<c, d>> \notin StrictSubsetOrdering(S)
  BY <1>1, <1>2, WFMin
<1>4. PICK x \in S : d = Before(x)
  BY <1>3
<1>5. ASSUME NEW u \in S, Ahead(u, x) PROVE FALSE
  <2>1. PICK c \in D : c = Before(u)
    OBVIOUS
  <2>2. c \subseteq d /\ u \in d /\ u \notin c
    BY <1>4, <1>5, <2>1, Order
  <2>3. c \in SUBSET S /\ d \in SUBSET S
    BY <1>4, <2>1
  <2>4. <<c, d>> \in StrictSubsetOrdering(S)
    BY <2>2, <2>3 DEF StrictSubsetOrdering
  <2>5. QED
    BY <1>3, <2>1, <2>4
<1>6. QED
  BY <1>5 DEF Least

LEMMA HasGreatest ==
    ASSUME NEW S \in SUBSET Txs, S # {}
    PROVE  \E t \in S : \A u \in S : ~Ahead(t, u)
<1> DEFINE Behind(x) == {u \in S : Ahead(x, u)}
           D == {Behind(x) : x \in S}
<1>1. IsWellFoundedOn(StrictSubsetOrdering(S), SUBSET S)
  BY SubsetsWellFounded
<1>2. D \subseteq SUBSET S /\ D # {}
  OBVIOUS
<1>3. PICK d \in D : \A c \in D : <<c, d>> \notin StrictSubsetOrdering(S)
  BY <1>1, <1>2, WFMin
<1>4. PICK x \in S : d = Behind(x)
  BY <1>3
<1>5. ASSUME NEW u \in S, Ahead(x, u) PROVE FALSE
  <2>1. PICK c \in D : c = Behind(u)
    OBVIOUS
  <2>2. c \subseteq d /\ u \in d /\ u \notin c
    BY <1>4, <1>5, <2>1, Order
  <2>3. c \in SUBSET S /\ d \in SUBSET S
    BY <1>4, <2>1
  <2>4. <<c, d>> \in StrictSubsetOrdering(S)
    BY <2>2, <2>3 DEF StrictSubsetOrdering
  <2>5. QED
    BY <1>3, <2>1, <2>4
<1>6. QED
  BY <1>5

\* The first record of the index by fee is that of the first transaction.
LEMMA MinimalIs ==
    ASSUME NEW m, GoodPool(m), NEW t, Least(m.txs, t)
    PROVE  MinimalRank(m) = Rank(t)
<1>1. m.txs \subseteq Txs /\ m.fees = {Rank(u) : u \in m.txs} /\ t \in m.txs
  BY DEF GoodPool, Exact, Least
<1>2. Rank(t) \in m.fees /\ \A q \in m.fees : ~Below(q, Rank(t))
  BY <1>1 DEF Least, Ahead
<1>3. MinimalRank(m) = CHOOSE p \in m.fees : \A q \in m.fees : ~Below(q, p)
  BY <1>2 DEF MinimalRank
<1>4. PICK p \in m.fees : p = MinimalRank(m) /\ \A q \in m.fees : ~Below(q, p)
  BY <1>2, <1>3
<1>5. PICK u \in m.txs : p = Rank(u)
  BY <1>1
<1>6. ~Ahead(t, u) /\ ~Ahead(u, t)
  BY <1>2, <1>4, <1>5 DEF Ahead
<1>7. QED
  BY <1>1, <1>4, <1>5, <1>6, Order

-----------------------------------------------------------------------------
\* The size is exact, and the pool without its first transaction is below the limit.
Sized(m) ==
    /\ m.size = SumSize(m.txs)
    /\ \A t \in m.txs : Least(m.txs, t) => m.size - Size[t] < MaxPoolSize

\* The sum of a part and one more transaction is no more than the whole.
LEMMA SumPart ==
    ASSUME NEW S \in SUBSET Txs, NEW t \in S
    PROVE  SumSize(S \ {t}) = SumSize(S) - Size[t] /\ Size[t] <= SumSize(S)
<1>1. {t} \in SUBSET S /\ t \in Txs
  OBVIOUS
<1>2. QED
  BY <1>1, SumWithout, SumOne

\* Removing transactions keeps the size exact and the pool bounded.
LEMMA RemoveSized ==
    ASSUME NEW m, GoodPool(m), Sized(m), NEW R \in SUBSET m.txs,
           NEW e, e = RemoveFromPool(m, R)
    PROVE  Sized(e)
<1>1. m.txs \in SUBSET Txs /\ R \in SUBSET Txs /\ e.txs = m.txs \ R /\ e.size = m.size - SumSize(R)
  BY RemoveGood DEF GoodPool, RemoveFromPool
<1>2. m.size = SumSize(m.txs) /\ m.size \in Nat /\ SumSize(R) \in Nat
  BY <1>1, SumNat DEF Sized
<1>3. e.size = SumSize(e.txs)
  BY <1>1, <1>2, SumWithout
<1>4. ASSUME NEW t \in e.txs, Least(e.txs, t) PROVE e.size - Size[t] < MaxPoolSize
  <2>1. PICK l \in m.txs : Least(m.txs, l)
    BY <1>1, <1>4, HasLeast
  <2>2. m.size - Size[l] < MaxPoolSize
    BY <2>1 DEF Sized
  <2>3. Size[l] \in Nat /\ Size[t] \in Nat /\ MaxPoolSize \in Nat
    BY <1>1, <1>4, TxAssumption DEF TxAssumption
  <2>4. CASE l \in R
    <3>1. Size[l] <= SumSize(R)
      BY <1>1, <2>4, SumPart
    <3>2. QED
      BY <1>1, <1>2, <2>2, <2>3, <3>1
  <2>5. CASE l \notin R
    <3>1. l = t
      BY <1>1, <1>4, <2>1, <2>5, Order DEF Least
    <3>2. QED
      BY <1>1, <1>2, <2>2, <2>3, <3>1
  <2>6. QED
    BY <2>4, <2>5
<1>5. QED
  BY <1>3, <1>4 DEF Sized

\* The trimming makes a pool bounded, and stops before it falls below the limit.
LEMMA TrimSized ==
    ASSUME NEW m, GoodPool(m), m.size = SumSize(m.txs), NEW e, e = Trimmed(m)
    PROVE  /\ GoodPool(e) /\ Sized(e) /\ e.txs \subseteq m.txs
           /\ \A x \in m.txs :
                 x \notin e.txs => m.size - SumSize(Under(m.txs, x)) >= MaxPoolSize
           /\ (e.txs = m.txs /\ e.size = m.size) \/ e.size >= MaxPoolSize
<1> DEFINE R == {x \in m.txs : m.size - SumSize(Under(m.txs, x)) >= MaxPoolSize}
<1>1. m.txs \in SUBSET Txs /\ m.fees = {Rank(t) : t \in m.txs}
  BY DEF GoodPool, Exact
<1>2. ASSUME NEW x \in m.txs
      PROVE  {u \in m.txs : Rank(u) \in m.fees /\ ~Below(Rank(x), Rank(u))} = Under(m.txs, x)
  BY <1>1 DEF Under, Ahead
<1>3. e = RemoveFromPool(m, R)
  <2>1. {x \in m.txs : m.size - SumSize({u \in m.txs : Rank(u) \in m.fees /\ ~Below(Rank(x), Rank(u))})
                           >= MaxPoolSize} = R
    BY <1>2
  <2>2. QED
    BY <2>1 DEF Trimmed
<1>4. R \in SUBSET m.txs /\ R \in SUBSET Txs
  BY <1>1
<1>5. \A x \in m.txs : x \in R <=> m.size - SumSize(Under(m.txs, x)) >= MaxPoolSize
  OBVIOUS
<1> HIDE DEF R
<1>6. GoodPool(e) /\ e.txs = m.txs \ R /\ e.size = m.size - SumSize(R)
  BY <1>3, <1>4, RemoveGood DEF RemoveFromPool
<1>7. /\ m.size \in Nat /\ SumSize(R) \in Nat /\ MaxPoolSize \in Nat
      /\ \A x \in m.txs : SumSize(Under(m.txs, x)) \in Nat /\ Size[x] \in Nat
  <2>1. \A x \in m.txs : Under(m.txs, x) \in SUBSET Txs
    BY <1>1 DEF Under
  <2>2. QED
    <3>1. m.size \in Nat
      BY <1>1, SumNat
    <3>2. SumSize(R) \in Nat
      BY <1>4, SumNat
    <3>3. \A x \in m.txs : SumSize(Under(m.txs, x)) \in Nat
      BY <2>1, SumNat
    <3>4. MaxPoolSize \in Nat /\ \A x \in m.txs : Size[x] \in Nat
      BY <1>1, TxAssumption DEF TxAssumption
    <3>5. QED
      BY <3>1, <3>2, <3>3, <3>4
<1>8. e.size = SumSize(e.txs)
  BY <1>1, <1>4, <1>6, SumWithout
<1>9. ASSUME NEW t \in e.txs, Least(e.txs, t) PROVE e.size - Size[t] < MaxPoolSize
  <2>1. t \in m.txs /\ t \notin R /\ t \in Txs
    BY <1>1, <1>6, <1>9
  <2>2. m.size - SumSize(Under(m.txs, t)) < MaxPoolSize
    BY <1>5, <1>7, <2>1
  <2>3. Under(m.txs, t) \subseteq R \cup {t}
    BY <1>1, <1>6, <1>9, <2>1, Order DEF Under, Least
  <2>4. R \cup {t} \in SUBSET Txs /\ {t} \in SUBSET Txs /\ R \cap {t} = {}
    BY <1>4, <2>1
  <2>5. SumSize(R \cup {t}) = SumSize(R) + Size[t]
    <3>1. SumSize(R \cup {t}) = SumSize(R) + SumSize({t})
      BY <1>4, <2>4, SumTogether
    <3>2. SumSize({t}) = Size[t]
      BY <2>1, SumOne
    <3>3. QED
      BY <3>1, <3>2
  <2>6. SumSize(Under(m.txs, t)) <= SumSize(R \cup {t})
    BY <2>3, <2>4, SumWithout
  <2>7. QED
    BY <1>6, <1>7, <2>1, <2>2, <2>5, <2>6
<1>10. ASSUME R # {} PROVE e.size >= MaxPoolSize
  <2>1. PICK g \in R : \A r \in R : ~Ahead(g, r)
    BY <1>4, <1>10, HasGreatest
  <2>2. g \in m.txs
    BY <1>4, <2>1
  <2>3. R \in SUBSET Under(m.txs, g) /\ Under(m.txs, g) \in SUBSET Txs
    BY <1>1, <1>4, <2>1 DEF Under
  <2>4. SumSize(R) <= SumSize(Under(m.txs, g))
    BY <2>3, SumWithout
  <2>5. m.size - SumSize(Under(m.txs, g)) >= MaxPoolSize
    BY <1>5, <2>1, <2>2
  <2>6. QED
    BY <1>6, <1>7, <2>2, <2>4, <2>5
<1>11. ASSUME R = {} PROVE e.txs = m.txs /\ e.size = m.size
  BY <1>6, <1>7, <1>11, SumEmpty
<1>12. Sized(e)
  BY <1>8, <1>9 DEF Sized
<1>13. QED
  BY <1>5, <1>6, <1>10, <1>11, <1>12

\* One call of add_transaction keeps the pool bounded, and the trimming at its
\* end spares the transaction that was added: a full pool takes only one that
\* is not ahead of all the others, and it was bounded without its first one.
LEMMA AddsSized ==
    ASSUME GoodPool(mem), Sized(mem), NEW t \in Txs, Adds(t), version \in Nat
    PROVE  /\ Sized(mem') /\ version' \in {version, version + 1}
           /\ version' = version + 1 => last'[1] \in mem'.txs
<1>1. Displaced(t) \in SUBSET mem.txs /\ mem.txs \in SUBSET Txs
  BY DEF Displaced, Holders, GoodPool
<1>2. CASE mem' = mem /\ version' = version
  <2>1. mem.txs = mem'.txs /\ mem.size = mem'.size
    BY <1>2
  <2>2. QED
    BY <1>2, <2>1 DEF Sized
<1>3. CASE mem' = RemoveFromPool(mem, Displaced(t)) /\ version' = version
  BY <1>1, <1>3, RemoveSized
<1>4. CASE /\ Refusal(t) = "none" /\ BetterConflicts(t) = {} /\ last'[1] = t
           /\ mem' = Trimmed(Inserted(RemoveFromPool(mem, Displaced(t)), t))
           /\ version' = version + 1
  <2>1. PICK m1 : m1 = RemoveFromPool(mem, Displaced(t))
    OBVIOUS
  <2>2. PICK m2 : m2 = Inserted(m1, t)
    OBVIOUS
  <2>3. PICK D : D = Displaced(t)
    OBVIOUS
  <2>4. /\ GoodPool(m2) /\ m2.txs = (mem.txs \ D) \cup {t}
        /\ m2.size = mem.size - SumSize(D) + Size[t]
    BY <1>4, <2>1, <2>2, <2>3, AddedPool
  <2>5. t \notin mem.txs /\ ~FullOfBetter(t)
    BY <1>4 DEF Refusal
  <2>6. /\ D \in SUBSET mem.txs /\ D \in SUBSET Txs /\ mem.txs \ D \in SUBSET Txs
        /\ {t} \in SUBSET Txs /\ (mem.txs \ D) \cap {t} = {}
    BY <1>1, <2>3, <2>5
  <2>7. /\ mem.size = SumSize(mem.txs) /\ mem.size \in Nat
        /\ SumSize(D) \in Nat /\ SumSize(D) <= mem.size
        /\ Size[t] \in Nat /\ MaxPoolSize \in Nat \ {0}
    <3>1. mem.size = SumSize(mem.txs)
      BY DEF Sized
    <3>2. SumSize(mem.txs) \in Nat /\ SumSize(D) \in Nat
      BY <1>1, <2>6, SumNat
    <3>3. SumSize(D) <= SumSize(mem.txs)
      BY <1>1, <2>6, SumWithout
    <3>4. QED
      BY <3>1, <3>2, <3>3, TxAssumption DEF TxAssumption
  <2>8. m2.size = SumSize(m2.txs)
    <3>1. SumSize((mem.txs \ D) \cup {t}) = SumSize(mem.txs \ D) + SumSize({t})
      BY <2>6, SumTogether
    <3>2. SumSize(mem.txs \ D) = SumSize(mem.txs) - SumSize(D)
      BY <1>1, <2>6, SumWithout
    <3>3. SumSize({t}) = Size[t]
      BY SumOne
    <3>4. QED
      BY <2>4, <2>7, <3>1, <3>2, <3>3
  <2>9. mem' = Trimmed(m2)
    BY <1>4, <2>1, <2>2
  <2>10. /\ Sized(mem')
         /\ t \notin mem'.txs => m2.size - SumSize(Under(m2.txs, t)) >= MaxPoolSize
    BY <2>4, <2>8, <2>9, TrimSized
  <2>11. ASSUME t \notin mem'.txs PROVE FALSE
    <3>1. PICK U : U = Under(m2.txs, t)
      OBVIOUS
    <3>2. U \in SUBSET Txs /\ t \in U /\ U \ {t} \in SUBSET Txs
      BY <2>4, <2>6, <3>1, Order DEF Under
    <3>3. SumSize(U \ {t}) = SumSize(U) - Size[t] /\ SumSize(U) \in Nat /\ SumSize(U \ {t}) \in Nat
      BY <3>2, SumPart, SumNat
    <3>4. mem.size - SumSize(D) - SumSize(U \ {t}) >= MaxPoolSize
      BY <2>4, <2>7, <2>10, <2>11, <3>1, <3>3
    <3>5. mem.size >= MaxPoolSize
      BY <2>7, <3>3, <3>4
    <3>6. mem.txs # {}
      BY <2>7, <3>5, SumEmpty
    <3>7. PICK l \in mem.txs : Least(mem.txs, l)
      BY <1>1, <3>6, HasLeast
    <3>8. mem.size - Size[l] < MaxPoolSize /\ l \in Txs /\ Size[l] \in Nat
      BY <1>1, <3>7, TxAssumption DEF Sized, TxAssumption
    <3>9. ~Ahead(t, l)
      <4>1. MinimalRank(mem) = Rank(l)
        BY <3>7, MinimalIs
      <4>2. QED
        BY <2>5, <3>5, <4>1 DEF FullOfBetter, Ahead
    <3>10. CASE l \in D
      <4>1. Size[l] <= SumSize(D)
        BY <2>6, <3>10, SumPart
      <4>2. QED
        BY <2>7, <3>3, <3>4, <3>8, <4>1
    <3>11. CASE l \notin D
      <4>1. l \in U \ {t}
        BY <2>4, <2>5, <3>1, <3>7, <3>9, <3>11 DEF Under
      <4>2. Size[l] <= SumSize(U \ {t})
        BY <3>2, <4>1, SumPart
      <4>3. QED
        BY <2>7, <3>3, <3>4, <3>8, <4>2
    <3>12. QED
      BY <3>10, <3>11
  <2>12. QED
    BY <1>4, <2>10, <2>11
<1>5. QED
  BY <1>2, <1>3, <1>4 DEF Adds

\* The empty pool is bounded.
LEMMA EmptySized == Sized(EmptyPool) /\ EmptyPool.txs = {} /\ EmptyPool.size = 0
BY SumEmpty DEF EmptyPool, Sized

SizeInv == Sized(mem) /\ version \in Nat /\ version >= 2

LEMMA SizeInit == Init => SizeInv
BY EmptySized DEF Init, SizeInv

\* A block that joins the chain only removes transactions.
LEMMA RedoneSized ==
    ASSUME Inv, SizeInv, NEW B \in BlockBodies, Redone(B)
    PROVE  SizeInv' /\ version' # version + 1
<1>1. mem' = RemoveFromPool(mem, Holders(mem, UNION {Keys(t) : t \in B})) /\ version' = 2
  BY DEF Redone
<1>2. Holders(mem, UNION {Keys(t) : t \in B}) \in SUBSET mem.txs
  BY DEF Holders
<1>3. Sized(mem')
  BY <1>1, <1>2, RemoveSized DEF Inv, SizeInv
<1>4. QED
  BY <1>1, <1>3 DEF SizeInv

\* What every step does to the size, the version and the transaction answered.
LEMMA SizeStep ==
    ASSUME Inv, SizeInv, [Next]_vars
    PROVE  SizeInv' /\ (version' = version + 1 => last'[1] \in mem'.txs)
<1> USE DEF SizeInv
<1>1. CASE mem' = mem /\ version' = version
  <2>1. Sized(mem')
    BY <1>1
  <2>2. QED
    BY <1>1, <2>1
<1>2. ASSUME NEW t \in Txs, Adds(t)
      PROVE  SizeInv' /\ (version' = version + 1 => last'[1] \in mem'.txs)
  BY <1>2, AddsSized DEF Inv
<1>3. ASSUME NEW B \in BlockBodies, Redone(B)
      PROVE  SizeInv' /\ (version' = version + 1 => last'[1] \in mem'.txs)
  BY <1>3, RedoneSized
<1>4. CASE OnReorganization
  <2>1. (mem' = mem \/ mem' = EmptyPool) /\ version' = version
    BY <1>4 DEF OnReorganization
  <2>2. Sized(mem')
    BY <2>1, EmptySized
  <2>3. QED
    BY <2>1, <2>2
<1>5. CASE FinishReorganization
  <2>1. mem' = mem /\ version' = 2
    BY <1>5 DEF FinishReorganization
  <2>2. Sized(mem')
    BY <2>1
  <2>3. QED
    BY <2>1, <2>2
<1>6. CASE ReaddOld
  <2>1. PICK t \in old : Adds(t)
    BY <1>6 DEF ReaddOld
  <2>2. QED
    BY <1>2, <2>1 DEF Inv
<1>7. CASE ReaddUndone
  <2>1. PICK t \in undone : Adds(t)
    BY <1>7 DEF ReaddUndone
  <2>2. QED
    BY <1>2, <2>1 DEF Inv
<1>8. CASE StartReorganize \/ UndoBlock \/ UNCHANGED vars
  <2>1. mem' = mem /\ version' = version
    BY <1>8 DEF StartReorganize, UndoBlock, vars
  <2>2. QED
    BY <1>1, <2>1
<1>9. CASE \E t \in Txs : AddTransaction(t)
  BY <1>2, <1>9 DEF AddTransaction
<1>10. CASE \E B \in BlockBodies : ExtendTip(B) \/ RedoBlock(B)
  BY <1>3, <1>10 DEF ExtendTip, RedoBlock
<1>11. QED
  BY <1>4, <1>5, <1>6, <1>7, <1>8, <1>9, <1>10 DEF Next

\* The second layer: the size is exact, and the pool bounded.
THEOREM SizeInvariance == Spec => []SizeInv
BY SizeInit, SizeStep, Invariance, PTL DEF Spec

\* m_memory_state_total_size is always the sum of the sizes of the pool's
\* transactions, and the pool without its cheapest transaction is below
\* MAX_POOL_SIZE: the trimming loop of add_transaction removes enough.
THEOREM PoolBoundedAlways == Spec => []PoolBounded
<1>1. ASSUME Inv, SizeInv PROVE PoolBounded
  <2>1. mem.txs \in SUBSET Txs /\ GoodPool(mem) /\ Sized(mem)
    BY <1>1 DEF Inv, SizeInv, GoodPool
  <2>2. ASSUME mem.txs # {} PROVE mem.size - Size[MinimalRank(mem)[2]] < MaxPoolSize
    <3>1. PICK l \in mem.txs : Least(mem.txs, l)
      BY <2>1, <2>2, HasLeast
    <3>2. MinimalRank(mem)[2] = l
      BY <2>1, <3>1, MinimalIs DEF Rank
    <3>3. QED
      BY <2>1, <3>1, <3>2 DEF Sized
  <2>3. QED
    BY <2>1, <2>2 DEF PoolBounded, Sized
<1>2. QED
  BY <1>1, Invariance, SizeInvariance, PTL

\* A transaction that add_transaction answers with BROADCAST_ALL is in the
\* pool afterwards: the trimming never hits the transaction just added.
THEOREM AcceptedIsInPoolAlways == Spec => AcceptedIsInPool
<1>1. Inv /\ SizeInv /\ [Next]_vars => [version' = version + 1 => last'[1] \in mem'.txs]_vars
  BY SizeStep
<1>2. QED
  BY <1>1, Invariance, SizeInvariance, PTL DEF Spec, AcceptedIsInPool

-----------------------------------------------------------------------------
(***************************************************************************)
(* A reorganization loses no transaction.  What it has to add again spends *)
(* no key image twice: an undone block is apart from the pool, since its   *)
(* key images were spent, and from the blocks undone before it, whose key  *)
(* images were not.  So no transaction added again is refused for another. *)
(***************************************************************************)
Apart(S) == \A t, u \in S : t # u => Keys(t) \cap Keys(u) = {}

\* The blocks of the chain spend different key images, all in the database.
ChainSpent ==
    \A i \in 1..Len(chain) : \A t \in chain[i] :
        /\ Keys(t) \subseteq spent
        /\ \A j \in 1..Len(chain) : j # i => \A u \in chain[j] : Keys(t) \cap Keys(u) = {}

\* While transactions are added again, none is lost.
Readding ==
    /\ expected \subseteq Semantic /\ Apart(expected)
    /\ mem.txs \cup old \cup undone \subseteq expected
    /\ \A t \in expected :
          Keys(t) \cap spent = {} /\ Redo(t, chain) =>
              t \in mem.txs \cup old \cup undone \/ mem.size >= MaxPoolSize

Reorganizing ==
    /\ phase \in {"idle", "undo", "redo", "readd"}
    /\ mem.txs \subseteq Semantic /\ undone \subseteq Semantic
    /\ phase = "idle" => undone = {}
    /\ phase \in {"undo", "redo"} => Apart(mem.txs \cup undone)
    /\ phase = "undo" => \A t \in undone : Keys(t) \cap spent = {}
    /\ phase = "readd" => Readding

ReorgInv == ChainSpent /\ Reorganizing

\* A call of add_transaction adds no other transaction, and only one that
\* validate_semantic accepts.
LEMMA AddsSemantic ==
    ASSUME NEW t \in Txs, Adds(t), mem.txs \subseteq Semantic
    PROVE  mem'.txs \subseteq Semantic
<1>1. Displaced(t) \in SUBSET mem.txs
  BY DEF Displaced, Holders
<1>2. CASE mem' = mem
  BY <1>2
<1>3. CASE mem' = RemoveFromPool(mem, Displaced(t))
  BY <1>1, <1>3 DEF RemoveFromPool
<1>4. CASE /\ Refusal(t) = "none"
           /\ mem' = Trimmed(Inserted(RemoveFromPool(mem, Displaced(t)), t))
  <2>1. t \in Semantic
    BY <1>4 DEF Refusal
  <2>2. mem'.txs \subseteq mem.txs \cup {t}
    BY <1>4 DEF Trimmed, Inserted, RemoveFromPool
  <2>3. QED
    BY <2>1, <2>2
<1>5. QED
  BY <1>2, <1>3, <1>4 DEF Adds

\* A transaction without conflicts joins the pool unless the pool is full or
\* the chain does not take it, and pushes no other out of a pool that is not.
LEMMA AddsApart ==
    ASSUME GoodPool(mem), Sized(mem), NEW t \in Semantic, Adds(t),
           \A u \in mem.txs : u # t => Keys(t) \cap Keys(u) = {}
    PROVE  /\ mem'.txs \subseteq mem.txs \cup {t}
           /\ mem.txs \subseteq mem'.txs \/ mem'.size >= MaxPoolSize
           /\ Keys(t) \cap spent = {} /\ Redo(t, chain) =>
                 t \in mem'.txs \/ mem'.size >= MaxPoolSize
           /\ mem.size >= MaxPoolSize => mem'.size >= MaxPoolSize
<1>1. t \in Txs /\ mem.txs \in SUBSET Txs
  BY TxAssumption DEF TxAssumption, GoodPool
<1>2. CASE t \in mem.txs
  <2>1. Refusal(t) # "none"
    BY <1>2 DEF Refusal
  <2>2. mem' = mem
    BY <2>1 DEF Adds
  <2>3. QED
    BY <1>2, <2>2
<1>3. CASE t \notin mem.txs
  <2>1. \A k \in Keys(t) : mem.ki[k] = NoTx
    <3> SUFFICES ASSUME NEW k \in Keys(t), mem.ki[k] # NoTx PROVE FALSE
      OBVIOUS
    <3>1. k \in KeyImages /\ mem.ki[k] \in Txs
      BY <1>1, KeysType DEF GoodPool
    <3>2. mem.ki[k] \in mem.txs /\ k \in Keys(mem.ki[k])
      BY <3>1 DEF GoodPool, Exact
    <3>3. QED
      BY <1>3, <3>2
  <2>2. BetterConflicts(t) = {} /\ Displaced(t) = {}
    <3>1. BetterConflicts(t) = {}
      BY <2>1 DEF BetterConflicts
    <3>2. ASSUME NEW u \in Displaced(t) PROVE FALSE
      BY <1>1, <2>1, KeysType DEF Displaced, Holders
    <3>3. QED
      BY <3>1, <3>2
  <2>3. ~BelowFirstConflict(t)
    BY <2>1 DEF BelowFirstConflict, Keys
  <2>4. CASE Refusal(t) # "none"
    <3>1. mem' = mem
      BY <2>4 DEF Adds
    <3>2. ASSUME Keys(t) \cap spent = {}, Redo(t, chain) PROVE mem.size >= MaxPoolSize
      BY <1>3, <2>3, <2>4, <3>2 DEF Refusal, FullOfBetter
    <3>3. QED
      BY <3>1, <3>2
  <2>5. CASE Refusal(t) = "none"
    <3>1. PICK m1 : m1 = RemoveFromPool(mem, Displaced(t))
      OBVIOUS
    <3>2. PICK m2 : m2 = Inserted(m1, t)
      OBVIOUS
    <3>3. mem' = Trimmed(m2)
      BY <2>2, <2>5, <3>1, <3>2 DEF Adds
    <3>4. /\ GoodPool(m2) /\ m2.txs = (mem.txs \ Displaced(t)) \cup {t}
          /\ m2.size = mem.size - SumSize(Displaced(t)) + Size[t]
      BY <1>1, <2>2, <3>1, <3>2, AddedPool
    <3>5. mem.size = SumSize(mem.txs) /\ mem.size \in Nat /\ Size[t] \in Nat /\ MaxPoolSize \in Nat
      BY <1>1, SumNat, TxAssumption DEF Sized, TxAssumption
    <3>6. m2.txs = mem.txs \cup {t} /\ m2.size = mem.size + Size[t]
      BY <2>2, <3>4, <3>5, SumEmpty
    <3>7. m2.size = SumSize(m2.txs)
      <4>1. {t} \in SUBSET Txs /\ mem.txs \cap {t} = {}
        BY <1>1, <1>3
      <4>2. SumSize(mem.txs \cup {t}) = SumSize(mem.txs) + SumSize({t})
        BY <1>1, <4>1, SumTogether
      <4>3. SumSize({t}) = Size[t]
        BY <1>1, SumOne
      <4>4. QED
        BY <3>5, <3>6, <4>2, <4>3
    <3>8. /\ mem'.txs \subseteq m2.txs
          /\ (mem'.txs = m2.txs /\ mem'.size = m2.size) \/ mem'.size >= MaxPoolSize
      BY <3>3, <3>4, <3>7, TrimSized
    <3>9. CASE mem'.size >= MaxPoolSize
      BY <3>6, <3>8, <3>9
    <3>10. CASE mem'.txs = m2.txs /\ mem'.size = m2.size
      BY <3>5, <3>6, <3>10
    <3>11. QED
      BY <3>8, <3>9, <3>10
  <2>6. QED
    BY <2>4, <2>5
<1>4. QED
  BY <1>2, <1>3

\* Adding one transaction again, whichever list it comes from.
LEMMA AddsReadding ==
    ASSUME Inv, SizeInv, Readding, NEW t \in old \cup undone, Adds(t),
           UNCHANGED <<chain, spent, expected>>,
           old' \cup undone' \subseteq old \cup undone,
           old \cup undone \subseteq old' \cup undone' \cup {t}
    PROVE  Readding'
<1>1. t \in expected /\ t \in Semantic
  BY DEF Readding
<1>2. \A u \in mem.txs : u # t => Keys(t) \cap Keys(u) = {}
  BY <1>1 DEF Readding, Apart
<1>3. GoodPool(mem) /\ Sized(mem)
  BY DEF Inv, SizeInv
<1>4. /\ mem'.txs \subseteq mem.txs \cup {t}
      /\ mem.txs \subseteq mem'.txs \/ mem'.size >= MaxPoolSize
      /\ Keys(t) \cap spent = {} /\ Redo(t, chain) =>
            t \in mem'.txs \/ mem'.size >= MaxPoolSize
      /\ mem.size >= MaxPoolSize => mem'.size >= MaxPoolSize
  BY <1>1, <1>2, <1>3, AddsApart
<1>5. mem'.txs \cup old' \cup undone' \subseteq expected
  BY <1>1, <1>4 DEF Readding
<1>6. ASSUME NEW u \in expected, Keys(u) \cap spent = {}, Redo(u, chain)
      PROVE  u \in mem'.txs \cup old' \cup undone' \/ mem'.size >= MaxPoolSize
  <2>1. u \in mem.txs \cup old \cup undone \/ mem.size >= MaxPoolSize
    BY <1>6 DEF Readding
  <2>2. CASE u = t
    BY <1>4, <1>6, <2>2
  <2>3. CASE u # t
    BY <1>4, <2>1, <2>3
  <2>4. QED
    BY <2>2, <2>3
<1>7. QED
  BY <1>5, <1>6 DEF Readding, Apart

\* A block whose key images are unspent joins a chain that has spent others.
LEMMA RedoneChain ==
    ASSUME Inv, ReorgInv, NEW B \in BlockBodies, Redone(B)
    PROVE  /\ ChainSpent' /\ mem'.txs \subseteq mem.txs
<1>1. /\ chain \in Seq(BlockBodies)
      /\ chain' = Append(chain, B) /\ mem'.txs \subseteq mem.txs
      /\ \A t \in B : Keys(t) \cap spent = {} /\ Keys(t) \subseteq spent'
      /\ spent \subseteq spent'
  BY DEF Inv, Redone, RemoveFromPool
<1>2. /\ Len(chain) \in Nat /\ Len(chain') = Len(chain) + 1
      /\ chain'[Len(chain) + 1] = B /\ \A i \in 1..Len(chain) : chain'[i] = chain[i]
  BY <1>1
<1>3. \A i \in 1..Len(chain') : i \in 1..Len(chain) \/ i = Len(chain) + 1
  BY <1>2
<1>4. ASSUME NEW i \in 1..Len(chain'), NEW t \in chain'[i]
      PROVE  Keys(t) \subseteq spent'
  <2>1. CASE i \in 1..Len(chain)
    BY <1>1, <1>2, <2>1, <1>4 DEF ReorgInv, ChainSpent
  <2>2. CASE i = Len(chain) + 1
    BY <1>1, <1>2, <1>4, <2>2
  <2>3. QED
    BY <1>3, <2>1, <2>2
<1>5. ASSUME NEW i \in 1..Len(chain'), NEW t \in chain'[i],
             NEW j \in 1..Len(chain'), j # i, NEW u \in chain'[j]
      PROVE  Keys(t) \cap Keys(u) = {}
  <2>1. CASE i \in 1..Len(chain) /\ j \in 1..Len(chain)
    BY <1>2, <2>1, <1>5 DEF ReorgInv, ChainSpent
  <2>2. CASE i \in 1..Len(chain) /\ j = Len(chain) + 1
    <3>1. Keys(t) \subseteq spent
      BY <1>2, <1>5, <2>2 DEF ReorgInv, ChainSpent
    <3>2. Keys(u) \cap spent = {}
      BY <1>1, <1>2, <1>5, <2>2
    <3>3. QED
      BY <3>1, <3>2
  <2>3. CASE j \in 1..Len(chain) /\ i = Len(chain) + 1
    <3>1. Keys(u) \subseteq spent
      BY <1>2, <1>5, <2>3 DEF ReorgInv, ChainSpent
    <3>2. Keys(t) \cap spent = {}
      BY <1>1, <1>2, <1>5, <2>3
    <3>3. QED
      BY <3>1, <3>2
  <2>4. QED
    BY <1>3, <1>5, <2>1, <2>2, <2>3
<1>6. QED
  BY <1>1, <1>4, <1>5 DEF ChainSpent

\* The transactions of a pool with exact indices are apart.
LEMMA PoolApart ==
    ASSUME Inv
    PROVE  Apart(mem.txs)
<1> SUFFICES ASSUME NEW t \in mem.txs, NEW u \in mem.txs, NEW k \in Keys(t) \cap Keys(u)
             PROVE  t = u
  BY DEF Apart
<1>1. t \in Txs /\ u \in Txs
  BY DEF Inv, GoodPool
<1>2. k \in KeyImages
  BY <1>1, KeysType
<1>3. QED
  BY <1>1, <1>2 DEF Inv, GoodPool, Exact

LEMMA ReorgInit == Init => ReorgInv
<1> SUFFICES ASSUME Init PROVE ReorgInv
  OBVIOUS
<1>1. mem.txs = {} /\ chain = <<>> /\ undone = {} /\ phase = "idle"
  BY EmptySized DEF Init
<1>2. Len(chain) = 0
  BY <1>1
<1>3. ChainSpent
  BY <1>2 DEF ChainSpent
<1>4. QED
  BY <1>1, <1>3 DEF ReorgInv, Reorganizing

\* The block that is undone becomes unspent; it is apart from the pool, from
\* the blocks that stay and from those undone before.
LEMMA UndoReorg ==
    ASSUME Inv, ReorgInv, UndoBlock
    PROVE  ReorgInv'
<1> DEFINE n == Len(chain)
           B == chain[n]
<1>1. /\ chain # <<>> /\ chain' = SubSeq(chain, 1, n - 1) /\ chain \in Seq(BlockBodies)
      /\ phase = "undo" /\ phase' = "undo" /\ mem' = mem
      /\ undone' = undone \cup B
      /\ spent' = spent \ UNION {Keys(t) : t \in B}
  BY DEF UndoBlock, Inv
<1>2. /\ n \in Nat /\ n # 0 /\ n \in 1..n /\ B \in BlockBodies
      /\ Len(chain') = n - 1 /\ \A i \in 1..n - 1 : chain'[i] = chain[i] /\ i \in 1..n /\ i # n
  <2>1. n \in Nat /\ n # 0
    BY <1>1
  <2>2. n \in 1..n /\ n - 1 \in Nat /\ n - 1 <= Len(chain)
    BY <2>1
  <2>3. B \in BlockBodies
    BY <1>1, <2>2
  <2>4. Len(chain') = n - 1 /\ \A i \in 1..n - 1 : chain'[i] = chain[i]
    <3>1. PICK k \in Nat : k = n - 1
      BY <2>2
    <3>2. chain' = SubSeq(chain, 1, k) /\ k <= Len(chain) /\ chain \in Seq(BlockBodies)
      BY <1>1, <2>2, <3>1
    <3>3. Len(chain') = k /\ \A i \in 1..k : chain'[i] = chain[i]
      BY <3>2
    <3>4. QED
      BY <3>1, <3>3
  <2>5. QED
    BY <2>1, <2>2, <2>3, <2>4
<1>3. \A t \in B : Keys(t) \subseteq spent /\ Keys(t) \cap spent' = {}
  BY <1>1, <1>2 DEF ReorgInv, ChainSpent
<1>4. B \subseteq Semantic
  BY <1>2, TxAssumption DEF TxAssumption
<1> HIDE DEF B, n
<1>5. ASSUME NEW i \in 1..Len(chain'), NEW t \in chain'[i]
      PROVE  /\ Keys(t) \subseteq spent'
             /\ \A j \in 1..Len(chain') : j # i => \A u \in chain'[j] : Keys(t) \cap Keys(u) = {}
  <2>1. i \in 1..n /\ i # n /\ t \in chain[i]
    BY <1>2, <1>5
  <2>2. /\ Keys(t) \subseteq spent
        /\ \A j \in 1..n : j # i => \A u \in chain[j] : Keys(t) \cap Keys(u) = {}
    BY <2>1 DEF ReorgInv, ChainSpent, n
  <2>3. \A u \in B : Keys(t) \cap Keys(u) = {}
    BY <1>2, <2>1, <2>2 DEF B
  <2>4. Keys(t) \subseteq spent'
    BY <1>1, <2>2, <2>3
  <2>5. QED
    BY <1>2, <2>2, <2>4
<1>6. ChainSpent'
  BY <1>5 DEF ChainSpent
<1>7. /\ \A t \in mem.txs : Keys(t) \cap spent = {}
      /\ \A t \in undone : Keys(t) \cap spent = {}
      /\ Apart(mem.txs \cup undone) /\ Apart(B)
  <2>1. Apart(B)
    BY <1>2, BodyAssumption DEF BodyAssumption, Apart
  <2>2. QED
    BY <1>1, <2>1 DEF Inv, PoolUnspent, ReorgInv, Reorganizing
<1>8. Apart(mem'.txs \cup undone')
  <2> SUFFICES ASSUME NEW t \in mem.txs \cup undone \cup B, NEW u \in mem.txs \cup undone \cup B, t # u
               PROVE  Keys(t) \cap Keys(u) = {}
    BY <1>1 DEF Apart
  <2>1. CASE t \in B /\ u \in B
    BY <1>7, <2>1 DEF Apart
  <2>2. CASE t \notin B /\ u \notin B
    BY <1>7, <2>2 DEF Apart
  <2>3. CASE t \in B /\ u \notin B
    BY <1>3, <1>7, <2>3
  <2>4. CASE t \notin B /\ u \in B
    BY <1>3, <1>7, <2>4
  <2>5. QED
    BY <2>1, <2>2, <2>3, <2>4
<1>9. \A t \in undone' : Keys(t) \cap spent' = {}
  BY <1>1, <1>3, <1>7
<1>10. mem'.txs \subseteq Semantic /\ undone' \subseteq Semantic
  BY <1>1, <1>4 DEF ReorgInv, Reorganizing
<1>11. QED
  BY <1>1, <1>6, <1>8, <1>9, <1>10 DEF ReorgInv, Reorganizing

\* Every step keeps what a reorganization needs.
LEMMA ReorgStep ==
    ASSUME Inv, SizeInv, ReorgInv, [Next]_vars
    PROVE  ReorgInv'
<1>1. CASE UNCHANGED vars
  BY <1>1 DEF vars, ReorgInv, ChainSpent, Reorganizing, Readding, Apart
<1>2. ASSUME NEW t \in Txs, AddTransaction(t) PROVE ReorgInv'
  <2>1. Adds(t) /\ phase = "idle" /\ UNCHANGED <<chain, spent, phase, undone>>
    BY <1>2 DEF AddTransaction
  <2>2. mem'.txs \subseteq Semantic
    BY <2>1, AddsSemantic DEF ReorgInv, Reorganizing
  <2>3. ChainSpent'
    BY <2>1 DEF ReorgInv, ChainSpent
  <2>4. QED
    BY <2>1, <2>2, <2>3 DEF ReorgInv, Reorganizing
<1>3. ASSUME NEW B \in BlockBodies, ExtendTip(B) PROVE ReorgInv'
  <2>1. Redone(B) /\ phase = "idle" /\ UNCHANGED <<phase, undone>>
    BY <1>3 DEF ExtendTip
  <2>2. ChainSpent' /\ mem'.txs \subseteq mem.txs
    BY <2>1, RedoneChain
  <2>3. QED
    BY <2>1, <2>2 DEF ReorgInv, Reorganizing
<1>4. ASSUME NEW B \in BlockBodies, RedoBlock(B) PROVE ReorgInv'
  <2>1. Redone(B) /\ phase \in {"undo", "redo"} /\ phase' = "redo" /\ undone' = undone \ B
    BY <1>4 DEF RedoBlock
  <2>2. ChainSpent' /\ mem'.txs \subseteq mem.txs
    BY <2>1, RedoneChain
  <2>3. Apart(mem'.txs \cup undone')
    BY <2>1, <2>2 DEF ReorgInv, Reorganizing, Apart
  <2>4. QED
    BY <2>1, <2>2, <2>3 DEF ReorgInv, Reorganizing
<1>5. CASE StartReorganize
  <2>1. phase = "idle" /\ phase' = "undo" /\ UNCHANGED <<mem, chain, spent, undone>>
    BY <1>5 DEF StartReorganize
  <2>2. undone = {} /\ ChainSpent' /\ Apart(mem.txs)
    BY <2>1, PoolApart DEF ReorgInv, Reorganizing, ChainSpent
  <2>3. Apart(mem'.txs \cup undone')
    BY <2>1, <2>2 DEF Apart
  <2>4. QED
    BY <2>1, <2>2, <2>3 DEF ReorgInv, Reorganizing
<1>6. CASE UndoBlock
  BY <1>6, UndoReorg
<1>7. CASE OnReorganization
  <2>1. /\ phase \in {"undo", "redo"} /\ phase' = "readd" /\ UNCHANGED <<chain, spent, undone>>
        /\ expected' = mem.txs \cup undone
        /\ \/ old' = mem.txs /\ mem' = EmptyPool
           \/ old' = {} /\ mem' = mem
    BY <1>7 DEF OnReorganization
  <2>2. mem'.txs \cup old' = mem.txs
    BY <2>1, EmptySized
  <2>3. Apart(expected') /\ expected' \subseteq Semantic
    BY <2>1 DEF ReorgInv, Reorganizing
  <2>4. Apart(expected)'
    BY <2>3 DEF Apart
  <2>5. Readding'
    BY <2>1, <2>2, <2>3, <2>4 DEF Readding
  <2>6. ChainSpent'
    BY <2>1 DEF ReorgInv, ChainSpent
  <2>7. QED
    BY <2>1, <2>2, <2>5, <2>6 DEF ReorgInv, Reorganizing
<1>8. ASSUME ReaddOld \/ ReaddUndone PROVE ReorgInv'
  <2>1. PICK t \in old \cup undone :
            /\ Adds(t)
            /\ old' \cup undone' \subseteq old \cup undone
            /\ old \cup undone \subseteq old' \cup undone' \cup {t}
            /\ undone' \subseteq undone
    BY <1>8 DEF ReaddOld, ReaddUndone
  <2>2. phase = "readd" /\ UNCHANGED <<chain, spent, phase, expected>>
    BY <1>8 DEF ReaddOld, ReaddUndone
  <2>3. Readding'
    BY <2>1, <2>2, AddsReadding DEF ReorgInv, Reorganizing
  <2>4. ChainSpent'
    BY <2>2 DEF ReorgInv, ChainSpent
  <2>5. mem'.txs \subseteq Semantic /\ undone' \subseteq Semantic
    BY <2>3 DEF Readding
  <2>6. QED
    BY <2>2, <2>3, <2>4, <2>5 DEF ReorgInv, Reorganizing
<1>9. CASE FinishReorganization
  <2>1. phase' = "idle" /\ undone' = {} /\ UNCHANGED <<mem, chain, spent>>
    BY <1>9 DEF FinishReorganization
  <2>2. ChainSpent'
    BY <2>1 DEF ReorgInv, ChainSpent
  <2>3. QED
    BY <2>1, <2>2 DEF ReorgInv, Reorganizing
<1>10. QED
  BY <1>1, <1>2, <1>3, <1>4, <1>5, <1>6, <1>7, <1>8, <1>9 DEF Next

\* The third layer: what a reorganization has to add again is kept.
THEOREM ReorgInvariance == Spec => []ReorgInv
BY ReorgInit, ReorgStep, Invariance, SizeInvariance, PTL DEF Spec

\* Whatever the blocks undone and redone, on_reorganization loses no
\* transaction of the pool or of an undone block that the new tip still
\* takes, unless the pool is full.
THEOREM ReorganizationKeepsAlways == Spec => []ReorganizationKeeps
<1>1. ReorgInv => ReorganizationKeeps
  BY DEF ReorgInv, Reorganizing, Readding, ReorganizationKeeps
<1>2. QED
  BY <1>1, ReorgInvariance, PTL
=============================================================================
