-------------------------- MODULE ChainState_proofs --------------------------
(***************************************************************************)
(* Proofs about ChainState, for every block tree and every transactions:   *)
(* the ledger is the replay of the tip chain at every step of every        *)
(* reorganization, and add_block implements the abstract block tree.       *)
(***************************************************************************)
EXTENDS ChainState, SequenceTheorems, WellFoundedInduction, TLAPS

\* A nonempty set of natural numbers has a least one.
LEMMA LeastNat ==
    ASSUME NEW T \in SUBSET Nat, T # {}
    PROVE  \E p \in T : \A q \in T : p <= q
<1>1. PICK p \in T : \A q \in T : ~(<<q, p>> \in OpToRel(<, Nat))
    BY NatLessThanWellFounded, WFMin
<1>2. ASSUME NEW q \in T PROVE p <= q
    <2>1. OpToRel(<, Nat) = {x \in Nat \X Nat : x[1] < x[2]}
        BY DEF OpToRel
    <2>2. q < p => <<q, p>> \in {x \in Nat \X Nat : x[1] < x[2]}
        OBVIOUS
    <2>3. ~(q < p)
        BY <1>1, <2>1, <2>2, Zenon
    <2>4. QED
        BY <2>3
<1>3. QED
    BY <1>2

-----------------------------------------------------------------------------
(***************************************************************************)
(* FlattenSeq.  Its recursive function exists and is unique, so flattening *)
(* one more sequence appends it.                                           *)
(***************************************************************************)
Flattens(ss, n, f) ==
    f = [i \in 1..n |-> IF i = 1 THEN ss[i] ELSE f[i - 1] \o ss[i]]

LEMMA FlattensAt ==
    ASSUME NEW ss, NEW n \in Nat, NEW f, Flattens(ss, n, f)
    PROVE  \A i \in 1..n : /\ i = 1 => f[i] = ss[i]
                           /\ i # 1 => f[i] = f[i - 1] \o ss[i]
<1>1. ASSUME NEW i \in 1..n PROVE f[i] = IF i = 1 THEN ss[i] ELSE f[i - 1] \o ss[i]
    BY Zenon DEF Flattens
<1>2. QED
    BY <1>1, Zenon

\* One more step of the recursion.
LEMMA FlattensStep ==
    ASSUME NEW S, NEW ss \in Seq(Seq(S)), NEW n \in Nat, n < Len(ss),
           NEW g, Flattens(ss, n, g), \A i \in 1..n : g[i] \in Seq(S)
    PROVE  \E f : Flattens(ss, n + 1, f) /\ \A i \in 1..n + 1 : f[i] \in Seq(S)
<1> DEFINE top == IF n = 0 THEN ss[1] ELSE g[n] \o ss[n + 1]
           f == [i \in 1..n + 1 |-> IF i = n + 1 THEN top ELSE g[i]]
<1>0. n + 1 \in 1..Len(ss) /\ ss[n + 1] \in Seq(S)
    OBVIOUS
<1>1. top \in Seq(S)
    <2>1. CASE n = 0
        BY <1>0, <2>1
    <2>2. CASE n # 0
        <3>1. g[n] \in Seq(S)
            BY <2>2
        <3>2. top = g[n] \o ss[n + 1]
            BY <2>2
        <3>3. QED
            BY <1>0, <3>1, <3>2
    <2>3. QED
        BY <2>1, <2>2
<1> HIDE DEF top
<1>2. /\ f[n + 1] = top
      /\ \A i \in 1..n : f[i] = g[i]
    OBVIOUS
<1>a. \A i \in 1..n : (i = 1 => g[i] = ss[i]) /\ (i # 1 => g[i] = g[i - 1] \o ss[i])
    BY FlattensAt
<1>3. ASSUME NEW i \in 1..n + 1
      PROVE  /\ i = 1 => f[i] = ss[i]
             /\ i # 1 => f[i] = f[i - 1] \o ss[i]
    <2>1. CASE i = n + 1 /\ n = 0
        BY <2>1, <1>2 DEF top
    <2>2. CASE i = n + 1 /\ n # 0
        <3>1. i - 1 = n /\ n \in 1..n /\ i # 1
            BY <2>2
        <3>2. f[i - 1] = g[n]
            BY <3>1, <1>2, Zenon
        <3>3. top = g[n] \o ss[i]
            BY <2>2 DEF top
        <3>4. f[i] = top
            BY <2>2, <1>2, Zenon
        <3>5. QED
            BY <3>1, <3>2, <3>3, <3>4, Zenon
    <2>3. CASE i # n + 1
        <3>1. i \in 1..n /\ n >= 1
            BY <2>3
        <3>2. f[i] = g[i]
            BY <3>1, <1>2
        <3>3. i = 1 => f[i] = ss[i]
            BY <3>1, <3>2, <1>a
        <3>4. ASSUME i # 1 PROVE f[i] = f[i - 1] \o ss[i]
            <4>1. i \in 2..n /\ i - 1 \in 1..n
                BY <3>1, <3>4
            <4>2. f[i - 1] = g[i - 1]
                BY <4>1, <1>2, Zenon
            <4>3. g[i] = g[i - 1] \o ss[i]
                BY <3>1, <3>4, <1>a, Zenon
            <4>4. QED
                BY <3>2, <4>2, <4>3, Zenon
        <3>5. QED
            BY <3>3, <3>4
    <2>4. QED
        BY <2>1, <2>2, <2>3
<1>4. f = [i \in 1..n + 1 |-> f[i]]
    OBVIOUS
<1> HIDE DEF f
<1>5. f = [i \in 1..n + 1 |-> IF i = 1 THEN ss[i] ELSE f[i - 1] \o ss[i]]
    <2>1. ASSUME NEW i \in 1..n + 1 PROVE f[i] = IF i = 1 THEN ss[i] ELSE f[i - 1] \o ss[i]
        BY <1>3, Zenon
    <2>2. QED
        BY <1>4, <2>1, Zenon
<1>6. ASSUME NEW i \in 1..n + 1 PROVE f[i] \in Seq(S)
    <2>1. CASE i = n + 1
        BY <1>1, <1>2, <2>1, Zenon
    <2>2. CASE i # n + 1
        <3>1. i \in 1..n
            BY <2>2
        <3>2. f[i] = g[i] /\ g[i] \in Seq(S)
            BY <3>1, <1>2, Zenon
        <3>3. QED
            BY <3>2, Zenon
    <2>3. QED
        BY <2>1, <2>2, Zenon
<1>7. QED
    BY <1>5, <1>6 DEF Flattens

LEMMA FlattensExists ==
    ASSUME NEW S, NEW ss \in Seq(Seq(S)), NEW n \in 0..Len(ss)
    PROVE  \E f : Flattens(ss, n, f) /\ \A i \in 1..n : f[i] \in Seq(S)
<1> DEFINE P(m) == \E f : Flattens(ss, m, f) /\ \A i \in 1..m : f[i] \in Seq(S)
           T == {m \in 0..Len(ss) : ~P(m)}
<1>1. SUFFICES ASSUME T # {} PROVE FALSE
    OBVIOUS
<1>2. T \subseteq Nat
    OBVIOUS
<1>3. PICK m \in T : \A q \in T : m <= q
    BY <1>1, <1>2, LeastNat
<1>4. P(0)
    <2>1. Flattens(ss, 0, [i \in 1..0 |-> IF i = 1 THEN ss[i] ELSE <<>>])
        BY DEF Flattens
    <2>2. QED
        BY <2>1
<1>5. m # 0 /\ m \in Nat /\ m - 1 \in 0..Len(ss)
    BY <1>4
<1>6. PICK k \in Nat : k = m - 1
    BY <1>5
<1>7. k \in 0..Len(ss) /\ k < Len(ss) /\ ~(m <= k) /\ k + 1 = m
    BY <1>5, <1>6
<1>8. P(k)
    BY <1>3, <1>7
<1>9. P(k + 1)
    BY <1>7, <1>8, FlattensStep
<1>10. QED
    BY <1>3, <1>7, <1>9

Agree(ss, tt, m) == \A i \in 1..m : ss[i] = tt[i]

LEMMA FlattensUnique ==
    ASSUME NEW ss, NEW tt, NEW m \in Nat, NEW k \in Nat, NEW f, NEW g,
           Flattens(ss, m, f), Flattens(tt, k, g), m <= k,
           Agree(ss, tt, m)
    PROVE  \A i \in 1..m : f[i] = g[i]
<1> DEFINE T == {i \in 1..m : f[i] # g[i]}
<1>1. SUFFICES ASSUME T # {} PROVE FALSE
    OBVIOUS
<1>2. T \subseteq Nat
    OBVIOUS
<1>3. PICK i \in T : \A q \in T : i <= q
    BY <1>1, <1>2, LeastNat
<1>4. i \in 1..m /\ i \in 1..k
    OBVIOUS
<1>a. \A j \in 1..m : (j = 1 => f[j] = ss[j]) /\ (j # 1 => f[j] = f[j - 1] \o ss[j])
    BY FlattensAt
<1>b. \A j \in 1..k : (j = 1 => g[j] = tt[j]) /\ (j # 1 => g[j] = g[j - 1] \o tt[j])
    BY FlattensAt
<1>5. i # 1
    BY <1>4, <1>a, <1>b DEF Agree
<1>6. i \in 2..m /\ i \in 2..k /\ i - 1 \in 1..m /\ ~(i <= i - 1)
    BY <1>4, <1>5
<1>7. f[i - 1] = g[i - 1]
    BY <1>3, <1>6
<1>8. f[i] = f[i - 1] \o ss[i] /\ g[i] = g[i - 1] \o tt[i]
    BY <1>4, <1>5, <1>a, <1>b, Zenon
<1>9. f[i] = g[i]
    BY <1>4, <1>7, <1>8, Zenon DEF Agree
<1>10. QED
    BY <1>9

LEMMA FlattenIs ==
    ASSUME NEW S, NEW ss \in Seq(Seq(S)), Len(ss) # 0, NEW f, Flattens(ss, Len(ss), f)
    PROVE  FlattenSeq(ss) = f[Len(ss)]
<1> DEFINE g == CHOOSE h : Flattens(ss, Len(ss), h)
<1>1. Flattens(ss, Len(ss), g)
    BY Zenon
<1>2. FlattenSeq(ss) = g[Len(ss)]
    BY Zenon DEF FlattenSeq, Flattens
<1> HIDE DEF g
<1>3. Len(ss) \in Nat /\ Len(ss) \in 1..Len(ss)
    OBVIOUS
<1>4. g[Len(ss)] = f[Len(ss)]
    <2>1. Agree(ss, ss, Len(ss))
        BY DEF Agree
    <2>2. QED
        BY <1>1, <1>3, <2>1, FlattensUnique
<1>5. QED
    BY <1>2, <1>4

LEMMA FlattenType ==
    ASSUME NEW S, NEW ss \in Seq(Seq(S))
    PROVE  FlattenSeq(ss) \in Seq(S)
<1>1. CASE Len(ss) = 0
    <2>1. ss = <<>>
        BY <1>1
    <2>2. FlattenSeq(ss) = ss
        BY <1>1, Zenon DEF FlattenSeq
    <2>3. <<>> \in Seq(S)
        OBVIOUS
    <2>4. QED
        BY <2>1, <2>2, <2>3, Zenon
<1>2. CASE Len(ss) # 0
    <2>1. Len(ss) \in Nat /\ Len(ss) \in 0..Len(ss) /\ Len(ss) \in 1..Len(ss)
        BY <1>2
    <2>2. PICK f : Flattens(ss, Len(ss), f) /\ \A i \in 1..Len(ss) : f[i] \in Seq(S)
        BY <2>1, FlattensExists
    <2>3. QED
        BY <1>2, <2>1, <2>2, FlattenIs
<1>3. QED
    BY <1>1, <1>2

LEMMA FlattenEmpty == FlattenSeq(<<>>) = <<>>
    BY DEF FlattenSeq

LEMMA FlattenAppend ==
    ASSUME NEW S, NEW ss \in Seq(Seq(S)), NEW s \in Seq(S)
    PROVE  FlattenSeq(Append(ss, s)) = FlattenSeq(ss) \o s
<1>0. PICK tt : tt = Append(ss, s)
    OBVIOUS
<1>1. /\ tt \in Seq(Seq(S)) /\ Len(tt) = Len(ss) + 1 /\ Len(ss) \in Nat
      /\ Len(tt) # 0 /\ Len(tt) \in 0..Len(tt) /\ Len(tt) \in Nat
      /\ tt[Len(tt)] = s
      /\ \A i \in 1..Len(ss) : ss[i] = tt[i]
    BY <1>0
<1>2. PICK f : Flattens(tt, Len(tt), f) /\ \A i \in 1..Len(tt) : f[i] \in Seq(S)
    BY <1>1, FlattensExists
<1>3. FlattenSeq(tt) = f[Len(tt)]
    BY <1>1, <1>2, FlattenIs
<1>a. \A j \in 1..Len(tt) : (j = 1 => f[j] = tt[j]) /\ (j # 1 => f[j] = f[j - 1] \o tt[j])
    BY <1>1, <1>2, FlattensAt
<1>b. Len(tt) \in 1..Len(tt)
    BY <1>1
<1>4. CASE Len(ss) = 0
    <2>1. FlattenSeq(tt) = s
        <3>1. Len(tt) = 1
            BY <1>1, <1>4
        <3>2. QED
            BY <1>1, <1>3, <3>1, <1>a, <1>b, Zenon
    <2>2. ss = <<>>
        BY <1>4
    <2>3. <<>> \o s = s
        OBVIOUS
    <2>4. QED
        BY <2>1, <2>2, <2>3, FlattenEmpty, <1>0
<1>5. CASE Len(ss) # 0
    <2>1. Len(ss) \in 0..Len(ss) /\ Len(ss) \in 1..Len(ss) /\ Len(ss) <= Len(tt)
        BY <1>1, <1>5
    <2>2. PICK g : Flattens(ss, Len(ss), g) /\ \A i \in 1..Len(ss) : g[i] \in Seq(S)
        BY <2>1, FlattensExists
    <2>3. FlattenSeq(ss) = g[Len(ss)]
        BY <1>5, <2>2, FlattenIs, Zenon
    <2>4. g[Len(ss)] = f[Len(ss)]
        <3>0. /\ Len(ss) \in Nat /\ Len(tt) \in Nat /\ Len(ss) <= Len(tt)
              /\ Flattens(ss, Len(ss), g) /\ Flattens(tt, Len(tt), f)
              /\ \A i \in 1..Len(ss) : ss[i] = tt[i]
            BY <1>1, <1>2, <2>1, <2>2
        <3>a. PICK m \in Nat : m = Len(ss)
            BY <3>0
        <3>b. PICK n \in Nat : n = Len(tt)
            BY <3>0
        <3>c. /\ m <= n /\ Flattens(ss, m, g) /\ Flattens(tt, n, f)
              /\ Agree(ss, tt, m)
            BY <3>0, <3>a, <3>b DEF Agree
        <3>1. \A i \in 1..m : g[i] = f[i]
            BY <3>c, FlattensUnique
        <3>2. QED
            BY <2>1, <3>1, <3>a
    <2>5. Len(tt) # 1 /\ Len(tt) - 1 = Len(ss)
        BY <1>1, <1>5
    <2>6. f[Len(tt)] = f[Len(ss)] \o s
        BY <1>1, <1>a, <1>b, <2>5, Zenon
    <2>7. QED
        BY <1>3, <2>3, <2>4, <2>6, <1>0
<1>6. QED
    BY <1>4, <1>5

-----------------------------------------------------------------------------
(***************************************************************************)
(* Facts about the constants.                                              *)
(***************************************************************************)
LEMMA PathFacts ==
    ASSUME NEW b \in Blocks
    PROVE  /\ Path[b] \in Seq(Blocks)
           /\ Len(Path[b]) \in Nat \ {0}
           /\ Path[b][Len(Path[b])] = b
           /\ Path[b][1] = Genesis
           /\ \A i \in 1..Len(Path[b]) :
                 /\ Path[b][i] \in Blocks
                 /\ Path[Path[b][i]] = SubSeq(Path[b], 1, i)
                 /\ Len(Path[Path[b][i]]) = i
<1>1. /\ Path[b] \in Seq(Blocks)
      /\ Len(Path[b]) \in Nat \ {0}
      /\ Path[b][Len(Path[b])] = b
      /\ Path[b][1] = Genesis
    BY TreeAssumption DEF TreeAssumption
<1>2. ASSUME NEW i \in 1..Len(Path[b])
      PROVE  /\ Path[b][i] \in Blocks
             /\ Path[Path[b][i]] = SubSeq(Path[b], 1, i)
             /\ Len(Path[Path[b][i]]) = i
    <2>1. Path[b][i] \in Blocks
        BY <1>1
    <2>2. Path[Path[b][i]] = SubSeq(Path[b], 1, i)
        BY TreeAssumption DEF TreeAssumption
    <2>3. QED
        BY <1>1, <2>1, <2>2
<1>3. QED
    BY <1>1, <1>2

\* The parent of a block other than the genesis block precedes it on its path.
LEMMA ParentFacts ==
    ASSUME NEW b \in Blocks, b # Genesis
    PROVE  /\ Len(Path[b]) >= 2
           /\ Parent(b) \in Blocks
           /\ Len(Path[Parent(b)]) = Len(Path[b]) - 1
           /\ Path[b] = Append(Path[Parent(b)], b)
<1>1. Len(Path[b]) >= 2
    BY PathFacts
<1>2. Parent(b) \in Blocks /\ Len(Path[Parent(b)]) = Len(Path[b]) - 1
    BY PathFacts, <1>1 DEF Parent
<1>4. Path[Parent(b)] = SubSeq(Path[b], 1, Len(Path[b]) - 1)
    BY PathFacts, <1>1, SMTT(30) DEF Parent
<1>5. Path[b] = Append(Path[Parent(b)], b)
    BY PathFacts, <1>1, <1>4
<1>6. QED
    BY <1>1, <1>2, <1>5

\* An output that nothing has spent yet, and any stored output.
Out == [key : Txs \X Amounts \X Nat, unlock : Nat, height : Nat, spent : BOOLEAN]
Fresh == {o \in Out : ~o.spent}

LEMMA BodyFacts ==
    ASSUME NEW b \in Blocks
    PROVE  /\ Body[b] \in Seq(Txs)
           /\ Len(Body[b]) \in Nat \ {0}
           /\ DOMAIN Body[b] = 1..Len(Body[b])
           /\ \A n \in 1..Len(Body[b]) : Body[b][n] \in Txs
           /\ Height(b) \in Nat
<1>1. Body[b] \in Seq(Txs) /\ Body[b] # <<>>
    BY BodyAssumption DEF BodyAssumption
<1>2. Height(b) \in Nat
    BY PathFacts DEF Height
<1>3. QED
    BY <1>1, <1>2

LEMMA TxFacts ==
    ASSUME NEW t \in Txs
    PROVE  /\ Tx[t].unlock \in Nat
           /\ \A a \in Amounts : Tx[t].outs[a] \in Nat
    BY TxAssumption DEF TxAssumption

LEMMA NewOutsFacts ==
    ASSUME NEW t \in Txs, NEW a \in Amounts, NEW h \in Nat
    PROVE  /\ NewOuts(t, a, h) \in Seq(Fresh)
           /\ Len(NewOuts(t, a, h)) = Tx[t].outs[a]
           /\ \A i \in 1..Tx[t].outs[a] :
                 /\ NewOuts(t, a, h)[i].key = <<t, a, i>>
                 /\ NewOuts(t, a, h)[i].unlock = Tx[t].unlock
<1>1. PICK k \in Nat : k = Tx[t].outs[a]
    BY TxFacts
<1>2. PICK u \in Nat : u = Tx[t].unlock
    BY TxFacts
<1> DEFINE s == [i \in 1..k |-> [key |-> <<t, a, i>>, unlock |-> u, height |-> h, spent |-> FALSE]]
<1>3. NewOuts(t, a, h) = s
    BY <1>1, <1>2 DEF NewOuts
<1>4. ASSUME NEW i \in 1..k
      PROVE  [key |-> <<t, a, i>>, unlock |-> u, height |-> h, spent |-> FALSE] \in Fresh
    BY DEF Fresh, Out
<1>5. s \in Seq(Fresh)
    BY <1>4
<1>6. Len(s) = k /\ \A i \in 1..k : s[i].key = <<t, a, i>> /\ s[i].unlock = u
    BY <1>5
<1>7. QED
    BY <1>1, <1>2, <1>3, <1>5, <1>6

OutsOf(s, t, a) ==
    \A i \in 1..Tx[t].outs[a] : s[i].key = <<t, a, i>> /\ s[i].unlock = Tx[t].unlock

LEMMA NewOutsOf ==
    ASSUME NEW t \in Txs, NEW a \in Amounts, NEW h \in Nat
    PROVE  OutsOf(NewOuts(t, a, h), t, a)
    BY NewOutsFacts DEF OutsOf

LEMMA FirstOutsFacts ==
    ASSUME NEW b \in Blocks, NEW a \in Amounts, NEW n \in 0..Len(Body[b])
    PROVE  /\ FirstOuts(b, n, a) \in Seq(Fresh)
           /\ n = 0 => FirstOuts(b, n, a) = <<>>
           /\ n # 0 => FirstOuts(b, n, a)
                          = FirstOuts(b, n - 1, a) \o NewOuts(Body[b][n], a, Height(b))
<1> DEFINE F(k) == [m \in 1..k |-> NewOuts(Body[b][m], a, Height(b))]
<1>1. ASSUME NEW k \in 0..Len(Body[b]) PROVE F(k) \in Seq(Seq(Fresh)) /\ Len(F(k)) = k
    <2>1. \A m \in 1..k : NewOuts(Body[b][m], a, Height(b)) \in Seq(Fresh)
        <3>1. ASSUME NEW m \in 1..k PROVE Body[b][m] \in Txs /\ Height(b) \in Nat
            BY BodyFacts
        <3>2. QED
            BY <3>1, NewOutsFacts
    <2>2. k \in Nat
        OBVIOUS
    <2>3. QED
        BY <2>1, <2>2
<1>2. FirstOuts(b, n, a) \in Seq(Fresh)
    BY <1>1, FlattenType DEF FirstOuts
<1>3. ASSUME n = 0 PROVE FirstOuts(b, n, a) = <<>>
    <2>1. PICK x : x = F(n)
        OBVIOUS
    <2>2. x \in Seq(Seq(Fresh)) /\ Len(x) = 0
        BY <1>1, <1>3, <2>1
    <2>3. F(n) = <<>>
        BY <2>1, <2>2
    <2>4. QED
        BY <2>3, FlattenEmpty DEF FirstOuts
<1>4. ASSUME n # 0
      PROVE  FirstOuts(b, n, a) = FirstOuts(b, n - 1, a) \o NewOuts(Body[b][n], a, Height(b))
    <2>1. PICK k \in Nat : k = n - 1
        BY <1>4
    <2>2. k \in 0..Len(Body[b]) /\ k + 1 = n /\ n \in 1..Len(Body[b])
        BY <2>1
    <2>3. NewOuts(Body[b][n], a, Height(b)) \in Seq(Fresh)
        BY <2>2, BodyFacts, NewOutsFacts
    <2>4. F(n) = Append(F(k), NewOuts(Body[b][n], a, Height(b)))
        <3>1. F(n) \in Seq(Seq(Fresh)) /\ Len(F(n)) = n /\ F(k) \in Seq(Seq(Fresh)) /\ Len(F(k)) = k
            BY <1>1, <2>2
        <3>2. PICK x : x = Append(F(k), NewOuts(Body[b][n], a, Height(b)))
            OBVIOUS
        <3>3. x \in Seq(Seq(Fresh)) /\ Len(x) = n
            BY <3>1, <3>2, <2>2, <2>3
        <3>4. ASSUME NEW i \in 1..n PROVE x[i] = F(n)[i]
            BY <3>1, <3>2, <2>2, <2>3
        <3>5. x = F(n)
            BY <3>1, <3>3, <3>4
        <3>6. QED
            BY <3>2, <3>5
    <2>5. F(k) \in Seq(Seq(Fresh))
        BY <1>1, <2>2
    <2>6. FlattenSeq(F(n)) = FlattenSeq(F(k)) \o NewOuts(Body[b][n], a, Height(b))
        BY <2>3, <2>4, <2>5, FlattenAppend
    <2>7. QED
        BY <2>1, <2>6 DEF FirstOuts
<1>5. QED
    BY <1>2, <1>3, <1>4

LEMMA BlockOutsFacts ==
    ASSUME NEW b \in Blocks, NEW a \in Amounts
    PROVE  BlockOuts(b, a) \in Seq(Fresh)
<1>1. Len(Body[b]) \in 0..Len(Body[b])
    BY BodyFacts
<1>2. QED
    BY <1>1, FirstOutsFacts DEF BlockOuts

LEMMA ChainOutsFacts ==
    ASSUME NEW c \in Seq(Blocks), NEW a \in Amounts
    PROVE  /\ ChainOuts(c, a) \in Seq(Fresh)
           /\ c = <<>> => ChainOuts(c, a) = <<>>
           /\ \A b \in Blocks :
                 ChainOuts(Append(c, b), a) = ChainOuts(c, a) \o BlockOuts(b, a)
<1> DEFINE F(d) == [i \in DOMAIN d |-> BlockOuts(d[i], a)]
<1>1. ASSUME NEW d \in Seq(Blocks)
      PROVE  F(d) \in Seq(Seq(Fresh)) /\ Len(F(d)) = Len(d)
    <2>1. \A i \in 1..Len(d) : BlockOuts(d[i], a) \in Seq(Fresh)
        BY BlockOutsFacts
    <2>2. Len(d) \in Nat /\ DOMAIN d = 1..Len(d)
        OBVIOUS
    <2>3. QED
        BY <2>1, <2>2
<1>2. ChainOuts(c, a) \in Seq(Fresh)
    BY <1>1, FlattenType DEF ChainOuts
<1>3. ASSUME c = <<>> PROVE ChainOuts(c, a) = <<>>
    <2>1. F(c) = <<>>
        BY <1>1, <1>3
    <2>2. QED
        BY <2>1, FlattenEmpty DEF ChainOuts
<1>4. ASSUME NEW b \in Blocks
      PROVE  ChainOuts(Append(c, b), a) = ChainOuts(c, a) \o BlockOuts(b, a)
    <2>1. PICK e : e = Append(c, b)
        OBVIOUS
    <2>2. /\ e \in Seq(Blocks) /\ Len(e) = Len(c) + 1 /\ Len(c) \in Nat
          /\ e[Len(c) + 1] = b
          /\ \A i \in 1..Len(c) : e[i] = c[i]
        BY <2>1
    <2>3. BlockOuts(b, a) \in Seq(Fresh)
        BY BlockOutsFacts
    <2>4. F(e) = Append(F(c), BlockOuts(b, a))
        <3>1. F(e) \in Seq(Seq(Fresh)) /\ Len(F(e)) = Len(c) + 1 /\ F(c) \in Seq(Seq(Fresh)) /\ Len(F(c)) = Len(c)
            BY <1>1, <2>2
        <3>2. PICK x : x = Append(F(c), BlockOuts(b, a))
            OBVIOUS
        <3>3. x \in Seq(Seq(Fresh)) /\ Len(x) = Len(c) + 1
            BY <3>1, <3>2, <2>3
        <3>4. ASSUME NEW i \in 1..Len(c) + 1 PROVE x[i] = F(e)[i]
            BY <3>1, <3>2, <2>2, <2>3
        <3>5. x = F(e)
            BY <3>1, <3>3, <3>4
        <3>6. QED
            BY <3>2, <3>5
    <2>5. FlattenSeq(F(e)) = FlattenSeq(F(c)) \o BlockOuts(b, a)
        BY <1>1, <2>3, <2>4, FlattenAppend
    <2>6. QED
        BY <2>1, <2>5 DEF ChainOuts
<1>5. QED
    BY <1>2, <1>3, <1>4

-----------------------------------------------------------------------------
(***************************************************************************)
(* Spent flags.                                                            *)
(***************************************************************************)
SpendsAny(ins, a, i) == \E in \in ins : Spends(in, a, i)

\* The inputs of I spend no output above n, and none that J spends.
SpendsBelow(I, a, n) == \A i \in Nat \ {0} : SpendsAny(I, a, i) => i <= n
SpendApart(I, J, a) == \A i \in Nat \ {0} : ~(SpendsAny(I, a, i) /\ SpendsAny(J, a, i))

\* r is s with the flags of the outputs that ins spend set to `flag'.
Flagged(r, s, ins, a, flag) ==
    \A i \in 1..Len(s) :
        /\ r[i].key = s[i].key /\ r[i].unlock = s[i].unlock /\ r[i].height = s[i].height
        /\ SpendsAny(ins, a, i) => r[i].spent = flag
        /\ ~SpendsAny(ins, a, i) => r[i].spent = s[i].spent

LEMMA SpendOutputsFacts ==
    ASSUME NEW s \in Seq(Out), NEW ins, NEW a, NEW flag \in BOOLEAN
    PROVE  /\ SpendOutputs(s, ins, a, flag) \in Seq(Out)
           /\ Len(SpendOutputs(s, ins, a, flag)) = Len(s)
           /\ Flagged(SpendOutputs(s, ins, a, flag), s, ins, a, flag)
<1>0. PICK r : r = SpendOutputs(s, ins, a, flag)
    OBVIOUS
<1>1. DOMAIN s = 1..Len(s) /\ Len(s) \in Nat
    OBVIOUS
<1>2. r = [i \in 1..Len(s) |-> IF SpendsAny(ins, a, i) THEN [s[i] EXCEPT !.spent = flag] ELSE s[i]]
    BY <1>0, <1>1, Zenon DEF SpendOutputs, SpendsAny
<1>3. ASSUME NEW i \in 1..Len(s)
      PROVE  /\ r[i] \in Out
             /\ r[i].key = s[i].key /\ r[i].unlock = s[i].unlock /\ r[i].height = s[i].height
             /\ SpendsAny(ins, a, i) => r[i].spent = flag
             /\ ~SpendsAny(ins, a, i) => r[i].spent = s[i].spent
    <2>1. s[i] \in Out
        OBVIOUS
    <2>2. CASE SpendsAny(ins, a, i)
        <3>1. r[i] = [s[i] EXCEPT !.spent = flag]
            BY <1>2, <2>2
        <3>2. QED
            BY <2>1, <2>2, <3>1 DEF Out
    <2>3. CASE ~SpendsAny(ins, a, i)
        <3>1. r[i] = s[i]
            BY <1>2, <2>3
        <3>2. QED
            BY <2>1, <2>3, <3>1
    <2>4. QED
        BY <2>2, <2>3
<1>4. r \in Seq(Out) /\ Len(r) = Len(s)
    <2>1. \A i \in 1..Len(s) : r[i] \in Out
        BY <1>3
    <2>2. r \in [1..Len(s) -> Out]
        BY <1>2, <2>1
    <2>3. QED
        BY <1>1, <2>2
<1>5. Flagged(r, s, ins, a, flag)
    BY <1>3 DEF Flagged
<1>6. QED
    BY <1>0, <1>4, <1>5

LEMMA FreshIsOut ==
    ASSUME NEW s \in Seq(Fresh)
    PROVE  s \in Seq(Out) /\ \A i \in 1..Len(s) : s[i] \in Out /\ ~s[i].spent
<1>1. ASSUME NEW i \in 1..Len(s) PROVE s[i] \in Out /\ ~s[i].spent
    <2>1. s[i] \in Fresh
        OBVIOUS
    <2>2. QED
        BY <2>1, Zenon DEF Fresh
<1>2. QED
    BY <1>1

\* Two sequences of outputs that agree in every field of every output.
Same(r, s) ==
    \A i \in 1..Len(r) :
        /\ r[i].key = s[i].key /\ r[i].unlock = s[i].unlock
        /\ r[i].height = s[i].height /\ r[i].spent = s[i].spent

LEMMA OutEqual ==
    ASSUME NEW r \in Out, NEW s \in Out, r.key = s.key, r.unlock = s.unlock,
           r.height = s.height, r.spent = s.spent
    PROVE  r = s
    BY DEF Out

LEMMA OutsEqual ==
    ASSUME NEW r \in Seq(Out), NEW s \in Seq(Out), Len(r) = Len(s), Same(r, s)
    PROVE  r = s
<1>1. ASSUME NEW i \in 1..Len(r) PROVE r[i] = s[i]
    <2>1. r[i] \in Out /\ s[i] \in Out
        OBVIOUS
    <2>2. /\ r[i].key = s[i].key /\ r[i].unlock = s[i].unlock
          /\ r[i].height = s[i].height /\ r[i].spent = s[i].spent
        BY Zenon DEF Same
    <2>3. QED
        BY <2>1, <2>2, OutEqual, Zenon
<1>2. QED
    BY <1>1

LEMMA SpendsUnion ==
    ASSUME NEW I, NEW J, NEW a, NEW i
    PROVE  SpendsAny(I \cup J, a, i) <=> SpendsAny(I, a, i) \/ SpendsAny(J, a, i)
    BY Zenon DEF SpendsAny

\* Redoing: when the earlier inputs spend outputs of A only, the later ones
\* can be added afterwards.
RedoSpends(A, B, I, J, a) ==
    SpendOutputs(SpendOutputs(A, I, a, TRUE) \o B, J, a, TRUE) = SpendOutputs(A \o B, I \cup J, a, TRUE)
UndoSpends(A, B, I, J, a) ==
    SpendOutputs(SubSeq(SpendOutputs(A \o B, I \cup J, a, TRUE), 1, Len(A)), J, a, FALSE)
        = SpendOutputs(A, I, a, TRUE)

LEMMA SpendRedo ==
    ASSUME NEW A \in Seq(Fresh), NEW B \in Seq(Fresh), NEW I, NEW J, NEW a,
           SpendsBelow(I, a, Len(A))
    PROVE  RedoSpends(A, B, I, J, a)
<1>a. PICK yes \in BOOLEAN : yes = TRUE
    OBVIOUS
<1>0. A \in Seq(Out) /\ B \in Seq(Out)
    BY FreshIsOut
<1>1. PICK m : m = SpendOutputs(A, I, a, yes)
    OBVIOUS
<1>2. m \in Seq(Out) /\ Len(m) = Len(A) /\ Flagged(m, A, I, a, yes)
    BY <1>0, <1>1, SpendOutputsFacts
<1>3. PICK x : x = m \o B
    OBVIOUS
<1>4. /\ x \in Seq(Out) /\ Len(x) = Len(A) + Len(B)
      /\ \A i \in 1..Len(A) : x[i] = m[i]
      /\ \A i \in Len(A) + 1 .. Len(A) + Len(B) : x[i] = B[i - Len(A)]
    <2>1. m \in Seq(Out) /\ B \in Seq(Out) /\ Len(m) = Len(A)
        BY <1>0, <1>2
    <2>2. /\ x \in Seq(Out) /\ Len(x) = Len(m) + Len(B)
          /\ \A i \in 1..Len(m) : x[i] = m[i]
          /\ \A i \in Len(m) + 1 .. Len(m) + Len(B) : x[i] = B[i - Len(m)]
        <3>1. x = m \o B
            BY <1>1, <1>3, Zenon
        <3>2. PICK u \in Seq(Out) : u = m
            BY <2>1
        <3>3. PICK v \in Seq(Out) : v = B
            BY <2>1
        <3>4. /\ u \o v \in Seq(Out) /\ Len(u \o v) = Len(u) + Len(v)
              /\ \A i \in 1..Len(u) : (u \o v)[i] = u[i]
              /\ \A i \in Len(u) + 1 .. Len(u) + Len(v) : (u \o v)[i] = v[i - Len(u)]
            OBVIOUS
        <3>5. QED
            BY <3>1, <3>2, <3>3, <3>4, Zenon
    <2>3. QED
        BY <2>1, <2>2
<1>5. PICK r : r = SpendOutputs(x, J, a, yes)
    OBVIOUS
<1>6. r \in Seq(Out) /\ Len(r) = Len(x) /\ Flagged(r, x, J, a, yes)
    BY <1>4, <1>5, SpendOutputsFacts
<1>7. PICK y : y = A \o B
    OBVIOUS
<1>8. /\ y \in Seq(Out) /\ Len(y) = Len(A) + Len(B)
      /\ \A i \in 1..Len(A) : y[i] = A[i]
      /\ \A i \in Len(A) + 1 .. Len(A) + Len(B) : y[i] = B[i - Len(A)]
    BY <1>0, <1>7
<1>9. PICK z : z = SpendOutputs(y, I \cup J, a, yes)
    OBVIOUS
<1>10. z \in Seq(Out) /\ Len(z) = Len(y) /\ Flagged(z, y, I \cup J, a, yes)
    BY <1>8, <1>9, SpendOutputsFacts
<1>12. Len(A) \in Nat /\ Len(B) \in Nat
    OBVIOUS
<1>13. Same(r, z)
    <2>1. ASSUME NEW i \in 1..Len(A)
          PROVE  /\ r[i].key = z[i].key /\ r[i].unlock = z[i].unlock
                 /\ r[i].height = z[i].height /\ r[i].spent = z[i].spent
        <3>1. i \in 1..Len(x) /\ i \in 1..Len(y)
            BY <1>4, <1>8, <1>12
        <3>2. x[i] = m[i] /\ y[i] = A[i]
            BY <1>4, <1>8
        <3>3. /\ m[i].key = A[i].key /\ m[i].unlock = A[i].unlock /\ m[i].height = A[i].height
              /\ SpendsAny(I, a, i) => m[i].spent = yes
              /\ ~SpendsAny(I, a, i) => m[i].spent = A[i].spent
            BY <1>2, Zenon DEF Flagged
        <3>4. /\ r[i].key = m[i].key /\ r[i].unlock = m[i].unlock /\ r[i].height = m[i].height
              /\ SpendsAny(J, a, i) => r[i].spent = yes
              /\ ~SpendsAny(J, a, i) => r[i].spent = m[i].spent
            BY <1>6, <3>1, <3>2, Zenon DEF Flagged
        <3>5. /\ z[i].key = A[i].key /\ z[i].unlock = A[i].unlock /\ z[i].height = A[i].height
              /\ SpendsAny(I \cup J, a, i) => z[i].spent = yes
              /\ ~SpendsAny(I \cup J, a, i) => z[i].spent = A[i].spent
            BY <1>10, <3>1, <3>2, Zenon DEF Flagged
        <3>6. r[i].spent = z[i].spent
            BY <3>3, <3>4, <3>5, SpendsUnion, Zenon
        <3>7. QED
            BY <3>3, <3>4, <3>5, <3>6, Zenon
    <2>2. ASSUME NEW i \in Len(A) + 1 .. Len(A) + Len(B)
          PROVE  /\ r[i].key = z[i].key /\ r[i].unlock = z[i].unlock
                 /\ r[i].height = z[i].height /\ r[i].spent = z[i].spent
        <3>1. i \in 1..Len(x) /\ i \in 1..Len(y) /\ i \in Nat \ {0} /\ ~(i <= Len(A))
            BY <1>4, <1>8, <1>12
        <3>2. x[i] = y[i] /\ ~SpendsAny(I, a, i)
            BY <3>1, <1>4, <1>8 DEF SpendsBelow
        <3>4. /\ r[i].key = x[i].key /\ r[i].unlock = x[i].unlock /\ r[i].height = x[i].height
              /\ SpendsAny(J, a, i) => r[i].spent = yes
              /\ ~SpendsAny(J, a, i) => r[i].spent = x[i].spent
            BY <1>6, <3>1, <3>2, Zenon DEF Flagged
        <3>5. /\ z[i].key = y[i].key /\ z[i].unlock = y[i].unlock /\ z[i].height = y[i].height
              /\ SpendsAny(I \cup J, a, i) => z[i].spent = yes
              /\ ~SpendsAny(I \cup J, a, i) => z[i].spent = y[i].spent
            BY <1>10, <3>1, <3>2, Zenon DEF Flagged
        <3>6. r[i].spent = z[i].spent
            BY <3>2, <3>4, <3>5, SpendsUnion, Zenon
        <3>7. QED
            BY <3>2, <3>4, <3>5, <3>6, Zenon
    <2>3. \A i \in 1..Len(r) : i \in 1..Len(A) \/ i \in Len(A) + 1 .. Len(A) + Len(B)
        BY <1>4, <1>6, <1>12
    <2>4. QED
        BY <2>1, <2>2, <2>3, Zenon DEF Same
<1>14. r = z
    BY <1>4, <1>6, <1>8, <1>10, <1>13, OutsEqual
<1>15. QED
    BY <1>a, <1>1, <1>3, <1>5, <1>7, <1>9, <1>14 DEF RedoSpends

\* Undoing: when no output is spent by inputs of both I and J, clearing the
\* flags of J restores the flags of I.
LEMMA SpendUndo ==
    ASSUME NEW A \in Seq(Fresh), NEW B \in Seq(Fresh), NEW I, NEW J, NEW a,
           SpendApart(I, J, a)
    PROVE  UndoSpends(A, B, I, J, a)
<1>a. PICK yes \in BOOLEAN : yes = TRUE
    OBVIOUS
<1>b. PICK no \in BOOLEAN : no = FALSE
    OBVIOUS
<1>0. A \in Seq(Out) /\ B \in Seq(Out) /\ \A i \in 1..Len(A) : ~A[i].spent /\ A[i] \in Out
    BY FreshIsOut
<1>1. PICK m : m = SpendOutputs(A, I, a, yes)
    OBVIOUS
<1>2. m \in Seq(Out) /\ Len(m) = Len(A) /\ Flagged(m, A, I, a, yes)
    BY <1>0, <1>1, SpendOutputsFacts
<1>7. PICK y : y = A \o B
    OBVIOUS
<1>8. /\ y \in Seq(Out) /\ Len(y) = Len(A) + Len(B)
      /\ \A i \in 1..Len(A) : y[i] = A[i]
    BY <1>0, <1>7
<1>9. PICK z : z = SpendOutputs(y, I \cup J, a, yes)
    OBVIOUS
<1>10. z \in Seq(Out) /\ Len(z) = Len(y) /\ Flagged(z, y, I \cup J, a, yes)
    BY <1>8, <1>9, SpendOutputsFacts
<1>12. Len(A) \in Nat /\ Len(B) \in Nat
    OBVIOUS
<1>13. PICK x : x = SubSeq(z, 1, Len(A))
    OBVIOUS
<1>14. /\ x \in Seq(Out) /\ Len(x) = Len(A)
       /\ \A i \in 1..Len(A) : x[i] = z[i]
    BY <1>8, <1>10, <1>12, <1>13
<1>15. PICK r : r = SpendOutputs(x, J, a, no)
    OBVIOUS
<1>16. r \in Seq(Out) /\ Len(r) = Len(x) /\ Flagged(r, x, J, a, no)
    BY <1>14, <1>15, SpendOutputsFacts
<1>17. Same(r, m)
    <2>1. ASSUME NEW i \in 1..Len(A)
          PROVE  /\ r[i].key = m[i].key /\ r[i].unlock = m[i].unlock
                 /\ r[i].height = m[i].height /\ r[i].spent = m[i].spent
        <3>1. i \in 1..Len(x) /\ i \in 1..Len(y) /\ i \in Nat \ {0}
            BY <1>8, <1>14, <1>12
        <3>2. x[i] = z[i] /\ y[i] = A[i]
            BY <1>8, <1>14
        <3>a. A[i].spent = no
            <4>1. ~A[i].spent /\ A[i] \in Out
                BY <1>0
            <4>2. A[i].spent \in BOOLEAN
                BY <4>1 DEF Out
            <4>3. QED
                BY <4>1, <4>2, <1>b
        <3>3. /\ m[i].key = A[i].key /\ m[i].unlock = A[i].unlock /\ m[i].height = A[i].height
              /\ SpendsAny(I, a, i) => m[i].spent = yes
              /\ ~SpendsAny(I, a, i) => m[i].spent = A[i].spent
            BY <1>2, Zenon DEF Flagged
        <3>4. /\ r[i].key = z[i].key /\ r[i].unlock = z[i].unlock /\ r[i].height = z[i].height
              /\ SpendsAny(J, a, i) => r[i].spent = no
              /\ ~SpendsAny(J, a, i) => r[i].spent = z[i].spent
            BY <1>16, <3>1, <3>2, Zenon DEF Flagged
        <3>5. /\ z[i].key = A[i].key /\ z[i].unlock = A[i].unlock /\ z[i].height = A[i].height
              /\ SpendsAny(I \cup J, a, i) => z[i].spent = yes
              /\ ~SpendsAny(I \cup J, a, i) => z[i].spent = A[i].spent
            BY <1>10, <3>1, <3>2, Zenon DEF Flagged
        <3>6. r[i].spent = m[i].spent
            BY <3>1, <3>a, <3>3, <3>4, <3>5, SpendsUnion, Zenon DEF SpendApart
        <3>7. QED
            BY <3>3, <3>4, <3>5, <3>6, Zenon
    <2>2. Len(r) = Len(A)
        BY <1>14, <1>16
    <2>3. QED
        BY <2>1, <2>2, Zenon DEF Same
<1>18. r = m
    BY <1>2, <1>14, <1>16, <1>17, OutsEqual
<1>19. QED
    BY <1>a, <1>b, <1>1, <1>7, <1>9, <1>13, <1>15, <1>18 DEF UndoSpends

-----------------------------------------------------------------------------
(***************************************************************************)
(* Chains.  Block b comes after chain c when it extends the path c.        *)
(***************************************************************************)
Fits(c, b) == c \in Seq(Blocks) /\ b \in Blocks /\ Path[b] = Append(c, b)

LEMMA FitsFacts ==
    ASSUME NEW c, NEW b, Fits(c, b)
    PROVE  /\ c \in Seq(Blocks) /\ b \in Blocks
           /\ Len(c) \in Nat /\ Height(b) = Len(c)
           /\ SubSeq(Path[b], 1, Height(b)) = c
           /\ \A i \in 1..Len(c) : c[i] \in Blocks /\ Height(c[i]) = i - 1 /\ c[i] # b
<1>1. c \in Seq(Blocks) /\ b \in Blocks /\ Path[b] = Append(c, b) /\ Len(c) \in Nat
    BY DEF Fits
<1>2. Height(b) = Len(c)
    BY <1>1 DEF Height
<1>3. SubSeq(Path[b], 1, Height(b)) = c
    BY <1>1, <1>2
<1>4. ASSUME NEW i \in 1..Len(c)
      PROVE  c[i] \in Blocks /\ Height(c[i]) = i - 1 /\ c[i] # b
    <2>1. i \in 1..Len(Path[b]) /\ Path[b][i] = c[i] /\ i \in Nat
        BY <1>1
    <2>2. c[i] \in Blocks /\ Len(Path[c[i]]) = i
        <3>1. Path[b][i] \in Blocks /\ Len(Path[Path[b][i]]) = i
            BY <1>1, <2>1, PathFacts
        <3>2. QED
            BY <2>1, <3>1, Zenon
    <2>3. Height(c[i]) = i - 1
        BY <2>2 DEF Height
    <2>4. Height(c[i]) # Height(b)
        BY <2>1, <2>3, <1>2
    <2>5. QED
        BY <2>2, <2>3, <2>4
<1>5. QED
    BY <1>1, <1>2, <1>3, <1>4

AllIns == UNION {Ins(t) : t \in Txs}

LEMMA BlockInsFacts ==
    ASSUME NEW b \in Blocks
    PROVE  /\ BlockIns(b) \subseteq AllIns
           /\ \A n \in 1..Len(Body[b]) : Ins(Body[b][n]) \subseteq BlockIns(b)
           /\ \A in \in BlockIns(b) : \E n \in 1..Len(Body[b]) : in \in Ins(Body[b][n])
<1>1. DOMAIN Body[b] = 1..Len(Body[b]) /\ \A n \in 1..Len(Body[b]) : Body[b][n] \in Txs
    BY BodyFacts
<1>2. QED
    BY <1>1, Zenon DEF BlockIns, AllIns, ToSet

LEMMA ChainInsFacts ==
    ASSUME NEW c \in Seq(Blocks)
    PROVE  /\ ChainIns(c) \subseteq AllIns
           /\ \A i \in 1..Len(c) : BlockIns(c[i]) \subseteq ChainIns(c)
           /\ \A in \in ChainIns(c) : \E i \in 1..Len(c) : in \in BlockIns(c[i])
<1>1. DOMAIN c = 1..Len(c) /\ \A i \in 1..Len(c) : c[i] \in Blocks
    OBVIOUS
<1>2. \A i \in 1..Len(c) : BlockIns(c[i]) \subseteq AllIns
    BY <1>1, BlockInsFacts
<1>3. QED
    BY <1>1, <1>2, Zenon DEF ChainIns

LEMMA ChainInsAppend ==
    ASSUME NEW c \in Seq(Blocks), NEW b \in Blocks
    PROVE  ChainIns(Append(c, b)) = ChainIns(c) \cup BlockIns(b)
<1>1. PICK e : e = Append(c, b)
    OBVIOUS
<1>2. /\ e \in Seq(Blocks) /\ Len(e) = Len(c) + 1 /\ Len(c) \in Nat
      /\ e[Len(c) + 1] = b
      /\ \A i \in 1..Len(c) : e[i] = c[i]
      /\ DOMAIN e = 1..Len(c) + 1 /\ DOMAIN c = 1..Len(c)
    BY <1>1
<1>3. /\ \A i \in 1..Len(c) : i \in 1..Len(c) + 1
      /\ Len(c) + 1 \in 1..Len(c) + 1
      /\ \A i \in 1..Len(c) + 1 : i \in 1..Len(c) \/ i = Len(c) + 1
    BY <1>2
<1>4. ChainIns(e) \subseteq ChainIns(c) \cup BlockIns(b)
    BY <1>2, <1>3, Zenon DEF ChainIns
<1>5. ChainIns(c) \cup BlockIns(b) \subseteq ChainIns(e)
    BY <1>2, <1>3, Zenon DEF ChainIns
<1>6. QED
    BY <1>1, <1>4, <1>5, Zenon

LEMMA ReplayOutsFacts ==
    ASSUME NEW c \in Seq(Blocks), NEW a \in Amounts
    PROVE  /\ Replay(c).outs[a] = SpendOutputs(ChainOuts(c, a), ChainIns(c), a, TRUE)
           /\ Replay(c).outs[a] \in Seq(Out)
           /\ Len(Replay(c).outs[a]) = Len(ChainOuts(c, a))
           /\ \A i \in 1..Len(ChainOuts(c, a)) : Replay(c).outs[a][i].key = ChainOuts(c, a)[i].key
<1>1. Replay(c).outs[a] = SpendOutputs(ChainOuts(c, a), ChainIns(c), a, TRUE)
    BY DEF Replay, ReplayOuts
<1>2. PICK s \in Seq(Out) : s = ChainOuts(c, a)
    BY ChainOutsFacts, FreshIsOut
<1>3. PICK r : r = SpendOutputs(s, ChainIns(c), a, TRUE)
    OBVIOUS
<1>4. r \in Seq(Out) /\ Len(r) = Len(s) /\ Flagged(r, s, ChainIns(c), a, TRUE)
    BY <1>3, SpendOutputsFacts
<1>5. \A i \in 1..Len(s) : r[i].key = s[i].key
    BY <1>4, Zenon DEF Flagged
<1>6. QED
    BY <1>1, <1>2, <1>3, <1>4, <1>5, Zenon

LEMMA InFacts ==
    ASSUME NEW in \in AllIns
    PROVE  in.amount \in Amounts /\ in.ring \in Seq(Nat) /\ in.ring # <<>>
<1>1. PICK t \in Txs : in \in Ins(t)
    BY Zenon DEF AllIns
<1>2. QED
    BY <1>1, TxAssumption DEF TxAssumption

\* What the inputs with a ring of one spend is an output of chain c, and its key
\* is the one they were signed for.
SpendsWithin(ins, c) ==
    \A in \in ins, a \in Amounts, i \in Nat \ {0} :
        Spends(in, a, i) => /\ i \in 1..Len(ChainOuts(c, a))
                            /\ ChainOuts(c, a)[i].key = in.signed[1]

KeysApart(I, J) == \A in \in I, jn \in J : in.key # jn.key

LEMMA CanRedoFacts ==
    ASSUME NEW c \in Seq(Blocks), NEW b \in Blocks, CanRedo(Replay(c), b)
    PROVE  SpendsWithin(BlockIns(b), c) /\ KeysApart(BlockIns(b), ChainIns(c)) /\ ~KeyTwice(b)
<1>0. ~KeyTwice(b)
    BY DEF CanRedo
<1>1. \A in \in BlockIns(b) : Found(Replay(c), b, in) /\ SignatureOk(Replay(c), in)
    BY DEF CanRedo, AllFound
<1>2. KeysApart(BlockIns(b), ChainIns(c))
    <2>1. Replay(c).keys = {in.key : in \in ChainIns(c)}
        BY DEF Replay
    <2>2. \A in \in BlockIns(b) : in.key \notin Replay(c).keys
        BY <1>1, Zenon DEF Found
    <2>3. QED
        BY <2>1, <2>2, Zenon DEF KeysApart
<1>3. ASSUME NEW in \in BlockIns(b), NEW a \in Amounts, NEW i \in Nat \ {0}, Spends(in, a, i)
      PROVE  /\ i \in 1..Len(ChainOuts(c, a))
             /\ ChainOuts(c, a)[i].key = in.signed[1]
    <2>1. in.amount = a /\ in.ring = <<i - 1>>
        BY <1>3 DEF Spends
    <2>2. 1 \in DOMAIN in.ring /\ in.ring[1] = i - 1
        BY <2>1
    <2>3. /\ in.ring[1] < Len(Replay(c).outs[a])
          /\ Replay(c).outs[a][in.ring[1] + 1].key = in.signed[1]
        BY <1>1, <2>1, <2>2, Zenon DEF Found, SignatureOk
    <2>4. in.ring[1] + 1 = i
        BY <2>2
    <2>5. i - 1 < Len(Replay(c).outs[a]) /\ Replay(c).outs[a][i].key = in.signed[1]
        BY <2>2, <2>3, <2>4, Zenon
    <2>6. /\ Len(Replay(c).outs[a]) = Len(ChainOuts(c, a))
          /\ Len(ChainOuts(c, a)) \in Nat
          /\ \A k \in 1..Len(ChainOuts(c, a)) : Replay(c).outs[a][k].key = ChainOuts(c, a)[k].key
        <3>1. ChainOuts(c, a) \in Seq(Fresh)
            BY ChainOutsFacts
        <3>2. Len(ChainOuts(c, a)) \in Nat
            BY <3>1
        <3>3. QED
            BY <3>2, ReplayOutsFacts, Zenon
    <2>7. i \in 1..Len(ChainOuts(c, a))
        BY <2>5, <2>6
    <2>8. QED
        BY <2>5, <2>6, <2>7, Zenon
<1>4. SpendsWithin(BlockIns(b), c)
    BY <1>3 DEF SpendsWithin
<1>5. QED
    BY <1>0, <1>2, <1>4

\* Two inputs with a ring of one cannot spend the same output under different
\* key images.
LEMMA SpendsApart ==
    ASSUME NEW c, NEW I \in SUBSET AllIns, NEW J \in SUBSET AllIns,
           SpendsWithin(I, c), SpendsWithin(J, c), KeysApart(I, J),
           NEW a \in Amounts, NEW i \in Nat \ {0}
    PROVE  ~(SpendsAny(I, a, i) /\ SpendsAny(J, a, i))
<1>1. SUFFICES ASSUME SpendsAny(I, a, i), SpendsAny(J, a, i) PROVE FALSE
    OBVIOUS
<1>2. PICK in \in I : Spends(in, a, i)
    BY <1>1 DEF SpendsAny
<1>3. PICK jn \in J : Spends(jn, a, i)
    BY <1>1 DEF SpendsAny
<1>4. in.signed[1] = jn.signed[1]
    <2>1. ChainOuts(c, a)[i].key = in.signed[1]
        BY <1>2, Zenon DEF SpendsWithin
    <2>2. ChainOuts(c, a)[i].key = jn.signed[1]
        BY <1>3, Zenon DEF SpendsWithin
    <2>3. QED
        BY <2>1, <2>2, Zenon
<1>5. Len(in.ring) = 1 /\ Len(jn.ring) = 1
    BY <1>2, <1>3 DEF Spends
<1>6. PICK t \in Txs : in \in Ins(t)
    BY Zenon DEF AllIns
<1>7. PICK u \in Txs : jn \in Ins(u)
    BY Zenon DEF AllIns
<1>8. in.key = jn.key
    <2>1. Len(in.ring) = 1 /\ Len(jn.ring) = 1 /\ in.signed[1] = jn.signed[1] => in.key = jn.key
        BY <1>6, <1>7, RingAssumption DEF RingAssumption
    <2>2. QED
        BY <1>4, <1>5, <2>1, Zenon
<1>9. QED
    BY <1>8, Zenon DEF KeysApart

LEMMA SpendsWithinGrows ==
    ASSUME NEW c \in Seq(Blocks), NEW b \in Blocks, NEW I, SpendsWithin(I, c)
    PROVE  SpendsWithin(I, Append(c, b))
<1>1. ASSUME NEW in \in I, NEW a \in Amounts, NEW i \in Nat \ {0}, Spends(in, a, i)
      PROVE  /\ i \in 1..Len(ChainOuts(Append(c, b), a))
             /\ ChainOuts(Append(c, b), a)[i].key = in.signed[1]
    <2>1. PICK A \in Seq(Fresh) : A = ChainOuts(c, a)
        BY ChainOutsFacts
    <2>2. PICK B \in Seq(Fresh) : B = BlockOuts(b, a)
        BY BlockOutsFacts
    <2>3. ChainOuts(Append(c, b), a) = A \o B
        BY <2>1, <2>2, ChainOutsFacts
    <2>4. i \in 1..Len(A) /\ A[i].key = in.signed[1]
        BY <1>1, <2>1, Zenon DEF SpendsWithin
    <2>5. i \in 1..Len(A \o B) /\ (A \o B)[i] = A[i]
        BY <2>4
    <2>6. QED
        BY <2>3, <2>4, <2>5, Zenon
<1>2. QED
    BY <1>1 DEF SpendsWithin

LEMMA ReplayFields ==
    ASSUME NEW c
    PROVE  /\ Replay(c).keys = {in.key : in \in ChainIns(c)}
           /\ Replay(c).outs = [a \in Amounts |-> ReplayOuts(c, a)]
           /\ Replay(c).indices = [b \in Blocks |-> IF b \in ToSet(c) THEN ReplayIndices(b) ELSE <<>>]
           /\ Replay(c).pos = UNION {{<<t, i - 1>> : t \in ToSet(Body[c[i]])} : i \in DOMAIN c}
           /\ Replay(c).stamps = {<<Stamp[c[i]], i - 1>> : i \in DOMAIN c}
           /\ Replay(c).trap = FALSE
    BY Zenon DEF Replay

LEMMA AppendFacts ==
    ASSUME NEW c \in Seq(Blocks), NEW b \in Blocks, NEW e, e = Append(c, b)
    PROVE  /\ e \in Seq(Blocks) /\ Len(e) = Len(c) + 1 /\ Len(c) \in Nat
           /\ e[Len(c) + 1] = b
           /\ \A i \in 1..Len(c) : e[i] = c[i]
           /\ DOMAIN e = 1..Len(c) + 1 /\ DOMAIN c = 1..Len(c)
           /\ \A i \in 1..Len(c) : i \in 1..Len(c) + 1
           /\ Len(c) + 1 \in 1..Len(c) + 1
           /\ \A i \in 1..Len(c) + 1 : i \in 1..Len(c) \/ i = Len(c) + 1
    OBVIOUS

LEMMA ToSetAppend ==
    ASSUME NEW c \in Seq(Blocks), NEW b \in Blocks
    PROVE  ToSet(Append(c, b)) = ToSet(c) \cup {b}
<1>1. PICK e : e = Append(c, b)
    OBVIOUS
<1>2. /\ e[Len(c) + 1] = b
      /\ \A i \in 1..Len(c) : e[i] = c[i]
      /\ DOMAIN e = 1..Len(c) + 1 /\ DOMAIN c = 1..Len(c)
      /\ \A i \in 1..Len(c) : i \in 1..Len(c) + 1
      /\ Len(c) + 1 \in 1..Len(c) + 1
      /\ \A i \in 1..Len(c) + 1 : i \in 1..Len(c) \/ i = Len(c) + 1
    BY <1>1, AppendFacts
<1>3. ToSet(e) \subseteq ToSet(c) \cup {b}
    BY <1>2, Zenon DEF ToSet
<1>4. ToSet(c) \cup {b} \subseteq ToSet(e)
    BY <1>2, Zenon DEF ToSet
<1>5. QED
    BY <1>1, <1>3, <1>4, Zenon

\* The positions of a transaction's first n outputs in the block.
LEMMA FirstOutsAt ==
    ASSUME NEW b \in Blocks, NEW a \in Amounts, NEW n \in 1..Len(Body[b]),
           NEW i \in 1..Tx[Body[b][n]].outs[a], NEW m \in n..Len(Body[b])
    PROVE  /\ Len(FirstOuts(b, n - 1, a)) + i \in 1..Len(FirstOuts(b, m, a))
           /\ FirstOuts(b, m, a)[Len(FirstOuts(b, n - 1, a)) + i].key = <<Body[b][n], a, i>>
<1> DEFINE x == Len(FirstOuts(b, n - 1, a)) + i
           P(k) == /\ x \in 1..Len(FirstOuts(b, k, a))
                   /\ FirstOuts(b, k, a)[x].key = <<Body[b][n], a, i>>
           T == {k \in n..Len(Body[b]) : ~P(k)}
<1>0. Len(Body[b]) \in Nat /\ n \in Nat /\ Body[b][n] \in Txs /\ Height(b) \in Nat
    BY BodyFacts
<1>1. SUFFICES ASSUME T # {} PROVE FALSE
    OBVIOUS
<1>2. T \subseteq Nat
    BY <1>0
<1>3. PICK k \in T : \A q \in T : k <= q
    BY <1>1, <1>2, LeastNat
<1>4. k \in n..Len(Body[b]) /\ k \in 0..Len(Body[b]) /\ k # 0 /\ k \in Nat /\ ~P(k)
    BY <1>0
<1>5. PICK j \in Nat : j = k - 1
    BY <1>4, <1>0
<1>6. j \in 0..Len(Body[b]) /\ k \in 1..Len(Body[b]) /\ ~(k <= j)
    BY <1>4, <1>5, <1>0
<1>7. PICK A \in Seq(Fresh) : A = FirstOuts(b, j, a)
    BY <1>6, FirstOutsFacts
<1>8. PICK B \in Seq(Fresh) : B = NewOuts(Body[b][k], a, Height(b))
    BY <1>6, BodyFacts, NewOutsFacts
<1>9. FirstOuts(b, k, a) = A \o B
    BY <1>4, <1>5, <1>7, <1>8, FirstOutsFacts
<1>a. Len(FirstOuts(b, n - 1, a)) \in Nat
    <2>1. n - 1 \in 0..Len(Body[b])
        BY <1>0
    <2>2. FirstOuts(b, n - 1, a) \in Seq(Fresh)
        BY <2>1, FirstOutsFacts
    <2>3. QED
        BY <2>2
<1>b. Tx[Body[b][n]].outs[a] \in Nat /\ i \in Nat
    BY <1>0, TxFacts
<1>10. CASE k = n
    <2>1. x = Len(A) + i /\ Len(A) \in Nat
        BY <1>5, <1>7, <1>10
    <2>2. Len(B) = Tx[Body[b][n]].outs[a] /\ B[i].key = <<Body[b][n], a, i>>
        BY <1>0, <1>8, <1>10, NewOutsFacts
    <2>3. i \in 1..Len(B)
        BY <2>2
    <2>4. x \in 1..Len(A \o B) /\ (A \o B)[x] = B[i]
        BY <2>1, <2>3
    <2>5. P(k)
        BY <2>2, <2>4, <1>9, Zenon
    <2>6. QED
        BY <2>5, <1>4
<1>11. CASE k # n
    <2>1. j \in n..Len(Body[b])
        BY <1>0, <1>4, <1>5, <1>6, <1>11
    <2>2. P(j)
        BY <2>1, <1>3, <1>6
    <2>3. x \in 1..Len(A) /\ A[x].key = <<Body[b][n], a, i>>
        BY <2>2, <1>7
    <2> HIDE DEF x
    <2>4. x \in 1..Len(A \o B) /\ (A \o B)[x] = A[x]
        BY <2>3
    <2>5. P(k)
        BY <2>3, <2>4, <1>9, Zenon
    <2>6. QED
        BY <2>5, <1>4
<1>12. QED
    BY <1>10, <1>11

\* The recorded index i of transaction n of block b leads to its output.
Leads(c, b, n, a, i) ==
    /\ ReplayIndices(b)[n][a][i] + 1 \in 1..Len(ChainOuts(c, a))
    /\ ChainOuts(c, a)[ReplayIndices(b)[n][a][i] + 1].key = <<Body[b][n], a, i>>

AllLead(c, b) ==
    \A n \in 1..Len(Body[b]), a \in Amounts :
        \A i \in 1..Tx[Body[b][n]].outs[a] : Leads(c, b, n, a, i)

LEMMA IndexAt ==
    ASSUME NEW c, NEW b, Fits(c, b), NEW n \in 1..Len(Body[b]), NEW a \in Amounts,
           NEW i \in 1..Tx[Body[b][n]].outs[a]
    PROVE  ReplayIndices(b)[n][a][i]
              = Len(ChainOuts(c, a)) + Len(FirstOuts(b, n - 1, a)) + i - 1
<1>1. SubSeq(Path[b], 1, Height(b)) = c /\ b \in Blocks
    BY FitsFacts
<1>2. DOMAIN Body[b] = 1..Len(Body[b])
    BY <1>1, BodyFacts
<1>3. QED
    BY <1>1, <1>2, Zenon DEF ReplayIndices

LEMMA NewLead ==
    ASSUME NEW c, NEW b, Fits(c, b)
    PROVE  AllLead(Append(c, b), b)
<1>1. c \in Seq(Blocks) /\ b \in Blocks
    BY FitsFacts
<1>2. ASSUME NEW n \in 1..Len(Body[b]), NEW a \in Amounts, NEW i \in 1..Tx[Body[b][n]].outs[a]
      PROVE  Leads(Append(c, b), b, n, a, i)
    <2>1. PICK A \in Seq(Fresh) : A = ChainOuts(c, a)
        BY <1>1, ChainOutsFacts
    <2>2. PICK B \in Seq(Fresh) : B = BlockOuts(b, a)
        BY <1>1, BlockOutsFacts
    <2>3. ChainOuts(Append(c, b), a) = A \o B
        BY <1>1, <2>1, <2>2, ChainOutsFacts
    <2>4. PICK x : x = Len(FirstOuts(b, n - 1, a)) + i
        OBVIOUS
    <2>5. Len(Body[b]) \in n..Len(Body[b])
        BY <1>1, BodyFacts
    <2>6. x \in 1..Len(B) /\ B[x].key = <<Body[b][n], a, i>>
        BY <1>1, <2>2, <2>4, <2>5, FirstOutsAt DEF BlockOuts
    <2>7. PICK y : y = ReplayIndices(b)[n][a][i]
        OBVIOUS
    <2>8. y = Len(A) + Len(FirstOuts(b, n - 1, a)) + i - 1
        BY <2>1, <2>7, IndexAt
    <2>9. Len(A) \in Nat /\ Len(FirstOuts(b, n - 1, a)) \in Nat /\ i \in Nat
        <3>1. n - 1 \in 0..Len(Body[b]) /\ Body[b][n] \in Txs
            BY <1>1, BodyFacts
        <3>2. FirstOuts(b, n - 1, a) \in Seq(Fresh)
            BY <1>1, <3>1, FirstOutsFacts
        <3>3. Tx[Body[b][n]].outs[a] \in Nat
            BY <3>1, TxFacts
        <3>4. QED
            BY <3>2, <3>3
    <2>10. y + 1 = Len(A) + x
        BY <2>4, <2>8, <2>9
    <2>11. y + 1 \in 1..Len(A \o B) /\ (A \o B)[y + 1] = B[x]
        BY <2>6, <2>9, <2>10
    <2>12. QED
        BY <2>3, <2>6, <2>7, <2>11, Zenon DEF Leads
<1>3. QED
    BY <1>2 DEF AllLead

LEMMA OldLead ==
    ASSUME NEW c \in Seq(Blocks), NEW b \in Blocks, NEW d \in Blocks, AllLead(c, d)
    PROVE  AllLead(Append(c, b), d)
<1>2. ASSUME NEW n \in 1..Len(Body[d]), NEW a \in Amounts, NEW i \in 1..Tx[Body[d][n]].outs[a]
      PROVE  Leads(Append(c, b), d, n, a, i)
    <2>1. PICK A \in Seq(Fresh) : A = ChainOuts(c, a)
        BY ChainOutsFacts
    <2>2. PICK B \in Seq(Fresh) : B = BlockOuts(b, a)
        BY BlockOutsFacts
    <2>3. ChainOuts(Append(c, b), a) = A \o B
        BY <2>1, <2>2, ChainOutsFacts
    <2>4. PICK y : y = ReplayIndices(d)[n][a][i] + 1
        OBVIOUS
    <2>5. y \in 1..Len(A) /\ A[y].key = <<Body[d][n], a, i>>
        BY <2>1, <2>4, Zenon DEF AllLead, Leads
    <2>6. y \in 1..Len(A \o B) /\ (A \o B)[y] = A[y]
        BY <2>5
    <2>7. QED
        BY <2>3, <2>4, <2>5, <2>6, Zenon DEF Leads
<1>3. QED
    BY <1>2 DEF AllLead

-----------------------------------------------------------------------------
(***************************************************************************)
(* What holds of every chain whose blocks could all be redone: inputs with *)
(* a ring of one spend outputs of the chain, recorded indices lead to      *)
(* their outputs, and no key image is in two blocks.                       *)
(***************************************************************************)
Sound(c) ==
    /\ SpendsWithin(ChainIns(c), c)
    /\ \A j \in 1..Len(c) : AllLead(c, c[j])
    /\ \A i, j \in 1..Len(c) : i # j => KeysApart(BlockIns(c[i]), BlockIns(c[j]))
    /\ \A j \in 1..Len(c) : ~KeyTwice(c[j])

Next1(c, b) == Fits(c, b) /\ Sound(c) /\ CanRedo(Replay(c), b)

LEMMA EmptySound == Sound(<<>>)
<1>1. Len(<<>>) = 0 /\ 1..0 = {} /\ <<>> \in Seq(Blocks)
    OBVIOUS
<1>2. ChainIns(<<>>) = {}
    BY <1>1, ChainInsFacts
<1>3. QED
    BY <1>1, <1>2 DEF Sound, SpendsWithin

LEMMA SoundStep ==
    ASSUME NEW c, NEW b, Next1(c, b)
    PROVE  Sound(Append(c, b))
<1>1. c \in Seq(Blocks) /\ b \in Blocks /\ Sound(c) /\ Fits(c, b)
    BY FitsFacts DEF Next1
<1>2. SpendsWithin(BlockIns(b), c) /\ KeysApart(BlockIns(b), ChainIns(c)) /\ ~KeyTwice(b)
    BY <1>1, CanRedoFacts DEF Next1
<1>3. PICK e : e = Append(c, b)
    OBVIOUS
<1>4. /\ Len(e) = Len(c) + 1 /\ Len(c) \in Nat
      /\ e[Len(c) + 1] = b
      /\ \A i \in 1..Len(c) : e[i] = c[i]
      /\ \A i \in 1..Len(c) + 1 : i \in 1..Len(c) \/ i = Len(c) + 1
      /\ \A i \in 1..Len(c) : c[i] \in Blocks
    BY <1>1, <1>3, AppendFacts
<1>5. SpendsWithin(ChainIns(e), e)
    <2>1. SpendsWithin(ChainIns(c), e) /\ SpendsWithin(BlockIns(b), e)
        BY <1>1, <1>2, <1>3, SpendsWithinGrows DEF Sound
    <2>2. ChainIns(e) = ChainIns(c) \cup BlockIns(b)
        BY <1>1, <1>3, ChainInsAppend
    <2>3. QED
        BY <2>1, <2>2, Zenon DEF SpendsWithin
<1>6. ASSUME NEW j \in 1..Len(e) PROVE AllLead(e, e[j])
    <2>1. CASE j \in 1..Len(c)
        <3>1. AllLead(c, c[j]) /\ c[j] \in Blocks /\ e[j] = c[j]
            BY <1>1, <1>4, <2>1 DEF Sound
        <3>2. AllLead(e, c[j])
            BY <3>1, <1>1, <1>3, OldLead
        <3>3. QED
            BY <3>1, <3>2
    <2>2. CASE j = Len(c) + 1
        <3>1. AllLead(e, b)
            BY <1>1, <1>3, NewLead
        <3>2. QED
            BY <1>4, <2>2, <3>1
    <2>3. QED
        BY <1>4, <2>1, <2>2
<1>7. ASSUME NEW i \in 1..Len(e), NEW j \in 1..Len(e), i # j
      PROVE  KeysApart(BlockIns(e[i]), BlockIns(e[j]))
    <2>1. \A k \in 1..Len(c) : KeysApart(BlockIns(b), BlockIns(c[k])) /\ KeysApart(BlockIns(c[k]), BlockIns(b))
        <3>1. \A k \in 1..Len(c) : BlockIns(c[k]) \subseteq ChainIns(c)
            BY <1>1, ChainInsFacts
        <3>2. QED
            BY <1>2, <3>1, Zenon DEF KeysApart
    <2>2. CASE i \in 1..Len(c) /\ j \in 1..Len(c)
        BY <1>1, <1>4, <1>7, <2>2 DEF Sound
    <2>3. CASE i = Len(c) + 1 /\ j \in 1..Len(c)
        BY <1>4, <2>1, <2>3
    <2>4. CASE i \in 1..Len(c) /\ j = Len(c) + 1
        BY <1>4, <2>1, <2>4
    <2>5. QED
        BY <1>4, <1>7, <2>2, <2>3, <2>4
<1>8. ASSUME NEW j \in 1..Len(e) PROVE ~KeyTwice(e[j])
    <2>1. CASE j \in 1..Len(c)
        BY <1>1, <1>4, <2>1 DEF Sound
    <2>2. CASE j = Len(c) + 1
        BY <1>2, <1>4, <2>2
    <2>3. QED
        BY <1>4, <2>1, <2>2
<1>9. Sound(e)
    BY <1>5, <1>6, <1>7, <1>8 DEF Sound
<1>10. QED
    BY <1>3, <1>9

\* A transaction of b is in no block of c: a transaction with inputs would spend
\* its key images again, a base transaction names its height.
LEMMA TxApart ==
    ASSUME NEW c, NEW b, Next1(c, b), NEW j \in 1..Len(c), NEW t \in ToSet(Body[b])
    PROVE  t \notin ToSet(Body[c[j]])
<1>0. c \in Seq(Blocks) /\ b \in Blocks /\ c[j] \in Blocks /\ Height(c[j]) = j - 1 /\ Height(b) = Len(c)
    BY FitsFacts DEF Next1
<1>1. SUFFICES ASSUME t \in ToSet(Body[c[j]]) PROVE FALSE
    OBVIOUS
<1>2. KeysApart(BlockIns(b), ChainIns(c))
    BY <1>0, CanRedoFacts DEF Next1
<1>3. PICK m \in DOMAIN Body[b] : t = Body[b][m]
    BY Zenon DEF ToSet
<1>4. PICK n \in DOMAIN Body[c[j]] : t = Body[c[j]][n]
    BY <1>1, Zenon DEF ToSet
<1>5. (Tx[t].ins = <<>> <=> m = 1) /\ (Tx[t].ins = <<>> <=> n = 1)
    <2>1. ASSUME NEW d \in Blocks, NEW k \in DOMAIN Body[d]
          PROVE  Tx[Body[d][k]].ins = <<>> <=> k = 1
        BY BodyAssumption DEF BodyAssumption
    <2>2. (Tx[Body[b][m]].ins = <<>> <=> m = 1) /\ (Tx[Body[c[j]][n]].ins = <<>> <=> n = 1)
        BY <1>0, <2>1
    <2>3. QED
        BY <1>3, <1>4, <2>2, Zenon
<1>6. CASE m = 1
    <2>1. Body[b][1] = Body[c[j]][1]
        BY <1>3, <1>4, <1>5, <1>6
    <2>2. Height(b) = Height(c[j])
        BY <1>0, <2>1, BodyAssumption DEF BodyAssumption
    <2>3. QED
        BY <1>0, <2>2
<1>7. CASE m # 1
    <2>1. t \in Txs
        BY <1>0, <1>3, BodyFacts
    <2>2. Tx[t].ins # <<>> /\ Tx[t].ins \in Seq(Ins(t))
        BY <1>5, <1>7, <2>1, TxAssumption DEF TxAssumption
    <2>3. 1 \in DOMAIN Tx[t].ins
        BY <2>2
    <2>4. PICK in : in \in Ins(t)
        BY <2>3, Zenon DEF Ins
    <2>5. in \in BlockIns(b) /\ in \in BlockIns(c[j])
        BY <1>1, <2>4, Zenon DEF BlockIns
    <2>6. in \in ChainIns(c)
        BY <1>0, <2>5, ChainInsFacts
    <2>7. QED
        BY <1>2, <2>5, <2>6, Zenon DEF KeysApart
<1>8. QED
    BY <1>6, <1>7

\* The cache of next global indices fits the chain.
Exact(c, g) == \A a \in Amounts : g[a] = Unknown \/ g[a] = Len(ChainOuts(c, a))

LEMMA NextIs ==
    ASSUME NEW c \in Seq(Blocks), NEW g, Exact(c, g), NEW a \in Amounts
    PROVE  NextGlobalIndex(Replay(c), g, a) = Len(ChainOuts(c, a))
<1>1. Len(Replay(c).outs[a]) = Len(ChainOuts(c, a))
    BY ReplayOutsFacts
<1>2. QED
    BY <1>1, Zenon DEF NextGlobalIndex, Exact

LEMMA IndicesRedo ==
    ASSUME NEW c, NEW b, Fits(c, b), NEW g, Exact(c, g)
    PROVE  GlobalIndices(Replay(c), g, b) = ReplayIndices(b)
<1>1. c \in Seq(Blocks) /\ SubSeq(Path[b], 1, Height(b)) = c
    BY FitsFacts
<1>2. \A a \in Amounts : NextGlobalIndex(Replay(c), g, a) = Len(ChainOuts(c, a))
    BY <1>1, NextIs
<1>3. ASSUME NEW n \in DOMAIN Body[b], NEW a \in Amounts
      PROVE  [i \in 1..Tx[Body[b][n]].outs[a] |->
                 NextGlobalIndex(Replay(c), g, a) + Len(FirstOuts(b, n - 1, a)) + i - 1]
              = [i \in 1..Tx[Body[b][n]].outs[a] |->
                 Len(ChainOuts(c, a)) + Len(FirstOuts(b, n - 1, a)) + i - 1]
    BY <1>2, Zenon
<1>4. ASSUME NEW n \in DOMAIN Body[b]
      PROVE  [a \in Amounts |-> [i \in 1..Tx[Body[b][n]].outs[a] |->
                 NextGlobalIndex(Replay(c), g, a) + Len(FirstOuts(b, n - 1, a)) + i - 1]]
              = [a \in Amounts |-> [i \in 1..Tx[Body[b][n]].outs[a] |->
                 Len(ChainOuts(c, a)) + Len(FirstOuts(b, n - 1, a)) + i - 1]]
    BY <1>3, Zenon
<1>5. [n \in DOMAIN Body[b] |-> [a \in Amounts |-> [i \in 1..Tx[Body[b][n]].outs[a] |->
                 NextGlobalIndex(Replay(c), g, a) + Len(FirstOuts(b, n - 1, a)) + i - 1]]]
       = [n \in DOMAIN Body[b] |-> [a \in Amounts |-> [i \in 1..Tx[Body[b][n]].outs[a] |->
                 Len(ChainOuts(c, a)) + Len(FirstOuts(b, n - 1, a)) + i - 1]]]
    BY <1>4, Zenon
<1>6. QED
    BY <1>1, <1>5, Zenon DEF GlobalIndices, ReplayIndices

LEMMA PosIs ==
    ASSUME NEW c, NEW p
    PROVE  p \in Replay(c).pos <=> \E i \in DOMAIN c : \E t \in ToSet(Body[c[i]]) : p = <<t, i - 1>>
<1>1. Replay(c).pos = UNION {{<<t, i - 1>> : t \in ToSet(Body[c[i]])} : i \in DOMAIN c}
    BY ReplayFields, Zenon
<1>2. ASSUME p \in Replay(c).pos
      PROVE  \E i \in DOMAIN c : \E t \in ToSet(Body[c[i]]) : p = <<t, i - 1>>
    BY <1>1, <1>2
<1>3. ASSUME NEW i \in DOMAIN c, NEW t \in ToSet(Body[c[i]]), p = <<t, i - 1>>
      PROVE  p \in Replay(c).pos
    BY <1>1, <1>3
<1>4. QED
    BY <1>2, <1>3

\* Redoing a block on the replay of its ancestors gives the replay of its path,
\* and no check ends the process.
LEMMA RedoIsReplay ==
    ASSUME NEW c, NEW b, Next1(c, b), NEW g, Exact(c, g)
    PROVE  RedoBlock(Replay(c), g, b) = Replay(Append(c, b))
<1>1. /\ Fits(c, b) /\ c \in Seq(Blocks) /\ b \in Blocks /\ Sound(c)
      /\ Len(c) \in Nat /\ Height(b) = Len(c)
      /\ \A i \in 1..Len(c) : c[i] # b
    BY FitsFacts DEF Next1
<1>2. SpendsWithin(ChainIns(c), c) /\ KeysApart(BlockIns(b), ChainIns(c))
    BY <1>1, CanRedoFacts DEF Next1, Sound
<1>3. PICK e : e = Append(c, b)
    OBVIOUS
<1>4. /\ Len(e) = Len(c) + 1
      /\ e[Len(c) + 1] = b
      /\ \A i \in 1..Len(c) : e[i] = c[i]
      /\ DOMAIN e = 1..Len(c) + 1 /\ DOMAIN c = 1..Len(c)
      /\ \A i \in 1..Len(c) : i \in 1..Len(c) + 1
      /\ Len(c) + 1 \in 1..Len(c) + 1
      /\ \A i \in 1..Len(c) + 1 : i \in 1..Len(c) \/ i = Len(c) + 1
    BY <1>1, <1>3, AppendFacts
<1>5. ChainIns(e) = ChainIns(c) \cup BlockIns(b) /\ ToSet(e) = ToSet(c) \cup {b}
    BY <1>1, <1>3, ChainInsAppend, ToSetAppend
<1>6. b \notin ToSet(c)
    BY <1>1, <1>4, Zenon DEF ToSet
<1>10. {in.key : in \in ChainIns(c)} \cup BlockKeys(b) = {in.key : in \in ChainIns(e)}
    BY <1>5, Zenon DEF BlockKeys
<1>11. ASSUME NEW a \in Amounts
       PROVE  SpendOutputs(Replay(c).outs[a] \o BlockOuts(b, a), BlockIns(b), a, TRUE) = ReplayOuts(e, a)
    <2>1. PICK A \in Seq(Fresh) : A = ChainOuts(c, a)
        BY <1>1, ChainOutsFacts
    <2>2. PICK B \in Seq(Fresh) : B = BlockOuts(b, a)
        BY <1>1, BlockOutsFacts
    <2>3. ChainOuts(e, a) = A \o B
        BY <1>1, <1>3, <2>1, <2>2, ChainOutsFacts
    <2>4. Replay(c).outs[a] = SpendOutputs(A, ChainIns(c), a, TRUE)
        BY <1>1, <2>1, ReplayOutsFacts
    <2>5. ASSUME NEW i \in Nat \ {0}, SpendsAny(ChainIns(c), a, i) PROVE i <= Len(A)
        <3>1. PICK in \in ChainIns(c) : Spends(in, a, i)
            BY <2>5, Zenon DEF SpendsAny
        <3>2. i \in 1..Len(A)
            BY <1>2, <2>1, <3>1, Zenon DEF SpendsWithin
        <3>3. QED
            BY <3>2
    <2>a. SpendsBelow(ChainIns(c), a, Len(A))
        BY <2>5 DEF SpendsBelow
    <2>6. SpendOutputs(SpendOutputs(A, ChainIns(c), a, TRUE) \o B, BlockIns(b), a, TRUE)
            = SpendOutputs(A \o B, ChainIns(c) \cup BlockIns(b), a, TRUE)
        <3>1. RedoSpends(A, B, ChainIns(c), BlockIns(b), a)
            BY <2>a, SpendRedo
        <3>2. QED
            BY <3>1 DEF RedoSpends
    <2>7. QED
        BY <1>5, <2>2, <2>3, <2>4, <2>6, Zenon DEF ReplayOuts
<1>12. [Replay(c).indices EXCEPT ![b] = GlobalIndices(Replay(c), g, b)]
         = [d \in Blocks |-> IF d \in ToSet(e) THEN ReplayIndices(d) ELSE <<>>]
    <2>1. PICK x : x = Replay(c).indices
        OBVIOUS
    <2>2. x = [d \in Blocks |-> IF d \in ToSet(c) THEN ReplayIndices(d) ELSE <<>>]
        BY <2>1, ReplayFields, Zenon
    <2>3. PICK y : y = ReplayIndices(b)
        OBVIOUS
    <2>4. GlobalIndices(Replay(c), g, b) = y
        BY <1>1, <2>3, IndicesRedo
    <2>5. [x EXCEPT ![b] = y] = [d \in Blocks |-> IF d \in ToSet(e) THEN ReplayIndices(d) ELSE <<>>]
        <3>1. ASSUME NEW d \in Blocks
              PROVE  [x EXCEPT ![b] = y][d] = IF d \in ToSet(e) THEN ReplayIndices(d) ELSE <<>>
            BY <1>1, <1>5, <2>2, <2>3
        <3>2. QED
            BY <2>2, <3>1
    <2>6. QED
        BY <2>1, <2>4, <2>5, Zenon
<1>13. Replay(c).pos \cup {<<t, Height(b)>> : t \in ToSet(Body[b])} = Replay(e).pos
    <2>0. (Len(c) + 1) - 1 = Height(b)
        BY <1>1
    <2>1. ASSUME NEW p \in Replay(c).pos PROVE p \in Replay(e).pos
        <3>1. PICK i \in DOMAIN c : \E t \in ToSet(Body[c[i]]) : p = <<t, i - 1>>
            BY PosIs
        <3>2. i \in DOMAIN e /\ e[i] = c[i]
            BY <1>4
        <3>3. QED
            BY <3>1, <3>2, PosIs
    <2>2. ASSUME NEW t \in ToSet(Body[b]) PROVE <<t, Height(b)>> \in Replay(e).pos
        <3>1. PICK i : i = Len(c) + 1
            OBVIOUS
        <3>2. i \in DOMAIN e /\ e[i] = b /\ i - 1 = Height(b)
            BY <1>4, <2>0, <3>1, Zenon
        <3>3. QED
            BY <3>2, PosIs
    <2>3. ASSUME NEW p \in Replay(e).pos
          PROVE  p \in Replay(c).pos \/ \E t \in ToSet(Body[b]) : p = <<t, Height(b)>>
        <3>1. PICK i \in DOMAIN e : \E t \in ToSet(Body[e[i]]) : p = <<t, i - 1>>
            BY PosIs
        <3>2. CASE i \in 1..Len(c)
            <4>1. i \in DOMAIN c /\ e[i] = c[i]
                BY <1>4, <3>2
            <4>2. QED
                BY <3>1, <4>1, PosIs
        <3>3. CASE i = Len(c) + 1
            <4>1. e[i] = b /\ i - 1 = Height(b)
                BY <1>4, <2>0, <3>3, Zenon
            <4>2. QED
                BY <3>1, <4>1, Zenon
        <3>4. QED
            BY <1>4, <3>2, <3>3
    <2>4. QED
        BY <2>1, <2>2, <2>3, Zenon
<1>14. Replay(c).stamps \cup {<<Stamp[b], Height(b)>>} = {<<Stamp[e[i]], i - 1>> : i \in DOMAIN e}
    <2>0. (Len(c) + 1) - 1 = Height(b)
        BY <1>1
    <2>1. Replay(c).stamps = {<<Stamp[c[i]], i - 1>> : i \in DOMAIN c}
        BY ReplayFields, Zenon
    <2>2. {<<Stamp[e[i]], i - 1>> : i \in DOMAIN e} \subseteq Replay(c).stamps \cup {<<Stamp[b], Height(b)>>}
        BY <1>4, <2>0, <2>1, Zenon
    <2>3. Replay(c).stamps \cup {<<Stamp[b], Height(b)>>} \subseteq {<<Stamp[e[i]], i - 1>> : i \in DOMAIN e}
        BY <1>4, <2>0, <2>1, Zenon
    <2>4. QED
        BY <2>2, <2>3, Zenon
<1>15. ~ \/ Replay(c).trap
         \/ Replay(c).keys \cap BlockKeys(b) # {}
         \/ Replay(c).indices[b] # <<>>
         \/ \E p \in Replay(c).pos : p[1] \in ToSet(Body[b])
         \/ <<Stamp[b], Height(b)>> \in Replay(c).stamps
    <2>1. Replay(c).trap = FALSE /\ Replay(c).keys = {in.key : in \in ChainIns(c)}
        BY ReplayFields, Zenon
    <2>2. Replay(c).keys \cap BlockKeys(b) = {}
        BY <1>2, <2>1, Zenon DEF BlockKeys, KeysApart
    <2>3. Replay(c).indices[b] = <<>>
        <3>1. Replay(c).indices = [d \in Blocks |-> IF d \in ToSet(c) THEN ReplayIndices(d) ELSE <<>>]
            BY ReplayFields, Zenon
        <3>2. QED
            BY <1>1, <1>6, <3>1, Zenon
    <2>4. ASSUME NEW p \in Replay(c).pos PROVE p[1] \notin ToSet(Body[b])
        <3>1. Replay(c).pos = UNION {{<<t, i - 1>> : t \in ToSet(Body[c[i]])} : i \in DOMAIN c}
            BY ReplayFields, Zenon
        <3>2. PICK i \in DOMAIN c : p \in {<<t, i - 1>> : t \in ToSet(Body[c[i]])}
            BY <3>1, Zenon
        <3>3. PICK t \in ToSet(Body[c[i]]) : p = <<t, i - 1>>
            BY <3>2, Zenon
        <3>4. p[1] = t
            BY <3>3
        <3>5. QED
            BY <1>4, <3>2, <3>3, <3>4, TxApart, Zenon
    <2>5. <<Stamp[b], Height(b)>> \notin Replay(c).stamps
        <3>1. Replay(c).stamps = {<<Stamp[c[i]], i - 1>> : i \in DOMAIN c}
            BY ReplayFields, Zenon
        <3>2. ASSUME NEW i \in 1..Len(c) PROVE <<Stamp[b], Height(b)>> # <<Stamp[c[i]], i - 1>>
            BY <1>1
        <3>3. QED
            BY <1>4, <3>1, <3>2, Zenon
    <2>6. QED
        BY <2>1, <2>2, <2>3, <2>4, <2>5, Zenon
<1>16. [a \in Amounts |-> SpendOutputs(Replay(c).outs[a] \o BlockOuts(b, a), BlockIns(b), a, TRUE)]
         = [a \in Amounts |-> ReplayOuts(e, a)]
    BY <1>11, Zenon
<1>17. ( \/ Replay(c).trap
         \/ Replay(c).keys \cap BlockKeys(b) # {}
         \/ Replay(c).indices[b] # <<>>
         \/ \E p \in Replay(c).pos : p[1] \in ToSet(Body[b])
         \/ <<Stamp[b], Height(b)>> \in Replay(c).stamps ) = FALSE
    BY <1>15, Zenon
<1>18. Replay(c).keys \cup BlockKeys(b) = {in.key : in \in ChainIns(e)}
    BY <1>10, ReplayFields, Zenon
<1>19. RedoBlock(Replay(c), g, b) = Replay(e)
    BY <1>12, <1>13, <1>14, <1>16, <1>17, <1>18, Zenon DEF RedoBlock, Replay
<1>20. QED
    BY <1>3, <1>19



-----------------------------------------------------------------------------
(***************************************************************************)
(* Undoing.  Partial(c, b, n) is the ledger of chain c and the first n     *)
(* transactions of b: undoing transaction n leads to Partial(c, b, n - 1). *)
(***************************************************************************)
FirstIns(b, n) == UNION {Ins(Body[b][m]) : m \in 1..n}

PartialOuts(c, b, n, a) ==
    SpendOutputs(ChainOuts(c, a) \o FirstOuts(b, n, a), ChainIns(c) \cup FirstIns(b, n), a, TRUE)

Partial(c, b, n) ==
    [keys    |-> {in.key : in \in ChainIns(c) \cup FirstIns(b, n)},
     outs    |-> [a \in Amounts |-> PartialOuts(c, b, n, a)],
     indices |-> Replay(Append(c, b)).indices,
     pos     |-> Replay(Append(c, b)).pos,
     stamps  |-> Replay(Append(c, b)).stamps,
     trap    |-> FALSE]

LEMMA FirstInsFacts ==
    ASSUME NEW b \in Blocks, NEW k \in 0..Len(Body[b])
    PROVE  /\ k = 0 => FirstIns(b, k) = {}
           /\ k < Len(Body[b]) => FirstIns(b, k + 1) = FirstIns(b, k) \cup Ins(Body[b][k + 1])
           /\ FirstIns(b, k) \subseteq BlockIns(b)
           /\ k = Len(Body[b]) => FirstIns(b, k) = BlockIns(b)
           /\ \A in \in FirstIns(b, k) : \E m \in 1..k : in \in Ins(Body[b][m])
<1>1. /\ \A n \in 1..Len(Body[b]) : Ins(Body[b][n]) \subseteq BlockIns(b)
      /\ \A in \in BlockIns(b) : \E n \in 1..Len(Body[b]) : in \in Ins(Body[b][n])
    BY BlockInsFacts
<1>2. Len(Body[b]) \in Nat /\ \A m \in 1..k : m \in 1..Len(Body[b])
    BY BodyFacts
<1>3. k = 0 => 1..k = {}
    BY <1>2
<1>4. FirstIns(b, k) \subseteq BlockIns(b)
    BY <1>1, <1>2, Zenon DEF FirstIns
<1>5. ASSUME k < Len(Body[b]) PROVE FirstIns(b, k + 1) = FirstIns(b, k) \cup Ins(Body[b][k + 1])
    <2>1. /\ k + 1 \in 1..k + 1
          /\ \A m \in 1..k : m \in 1..k + 1
          /\ \A m \in 1..k + 1 : m \in 1..k \/ m = k + 1
        OBVIOUS
    <2>2. QED
        BY <2>1, Zenon DEF FirstIns
<1>6. QED
    BY <1>1, <1>3, <1>4, <1>5, Zenon DEF FirstIns

LEMMA WithinSubset ==
    ASSUME NEW c, NEW I, NEW J, SpendsWithin(I, c), J \subseteq I
    PROVE  SpendsWithin(J, c)
    BY Zenon DEF SpendsWithin

LEMMA WithinUnion ==
    ASSUME NEW c, NEW I, NEW J, SpendsWithin(I, c), SpendsWithin(J, c)
    PROVE  SpendsWithin(I \cup J, c)
    BY Zenon DEF SpendsWithin

\* The inputs of transaction k + 1 of b, and those before it.
InsSplit(c, b, k, I, J) ==
    /\ I \in SUBSET AllIns /\ J \in SUBSET AllIns
    /\ SpendsWithin(I, c) /\ SpendsWithin(J, c) /\ KeysApart(I, J)
    /\ ChainIns(c) \cup FirstIns(b, k + 1) = I \cup J

LEMMA PartialIns ==
    ASSUME NEW c, NEW b, Next1(c, b), NEW k \in 0..Len(Body[b]), k < Len(Body[b]),
           NEW I, I = ChainIns(c) \cup FirstIns(b, k), NEW J, J = Ins(Body[b][k + 1])
    PROVE  InsSplit(c, b, k, I, J)
<1>1. c \in Seq(Blocks) /\ b \in Blocks /\ Sound(c) /\ CanRedo(Replay(c), b)
    BY FitsFacts DEF Next1
<1>2. SpendsWithin(BlockIns(b), c) /\ KeysApart(BlockIns(b), ChainIns(c)) /\ SpendsWithin(ChainIns(c), c)
      /\ ~KeyTwice(b)
    BY <1>1, CanRedoFacts DEF Sound
<1>3. k + 1 \in 1..Len(Body[b])
    BY <1>1, BodyFacts
<1>4. J \subseteq BlockIns(b) /\ FirstIns(b, k) \subseteq BlockIns(b)
      /\ BlockIns(b) \subseteq AllIns /\ ChainIns(c) \subseteq AllIns
    BY <1>1, <1>3, BlockInsFacts, FirstInsFacts, ChainInsFacts
<1>5. SpendsWithin(J, c) /\ SpendsWithin(FirstIns(b, k), c)
    BY <1>2, <1>4, WithinSubset
<1>6. SpendsWithin(I, c)
    BY <1>2, <1>5, WithinUnion
<1>7. KeysApart(FirstIns(b, k), J)
    <2>1. ASSUME NEW in \in FirstIns(b, k), NEW jn \in J PROVE in.key # jn.key
        <3>1. PICK m \in 1..k : in \in Ins(Body[b][m])
            BY <1>1, FirstInsFacts
        <3>2. m \in 1..Len(Body[b]) /\ m # k + 1 /\ DOMAIN Body[b] = 1..Len(Body[b])
            BY <1>1, BodyFacts
        <3>3. Keys(Body[b][m]) \cap Keys(Body[b][k + 1]) = {}
            BY <1>2, <1>3, <3>2 DEF KeyTwice
        <3>4. in.key \in Keys(Body[b][m]) /\ jn.key \in Keys(Body[b][k + 1])
            BY <3>1, Zenon DEF Keys
        <3>5. QED
            BY <3>3, <3>4, Zenon
    <2>2. QED
        BY <2>1, Zenon DEF KeysApart
<1>8. KeysApart(I, J)
    BY <1>2, <1>4, <1>7, Zenon DEF KeysApart
<1>9. ChainIns(c) \cup FirstIns(b, k + 1) = I \cup J
    <2>1. FirstIns(b, k + 1) = FirstIns(b, k) \cup J
        BY <1>1, FirstInsFacts
    <2>2. QED
        BY <2>1, Zenon
<1>10. I \in SUBSET AllIns /\ J \in SUBSET AllIns
    BY <1>4, Zenon
<1>11. QED
    BY <1>5, <1>6, <1>8, <1>9, <1>10 DEF InsSplit

\* The outputs of transaction k + 1 of b, and those before it.
OutsSplit(c, b, k, a, t, A, B) ==
    /\ t \in Txs /\ A \in Seq(Fresh) /\ B \in Seq(Fresh)
    /\ Len(ChainOuts(c, a)) \in Nat /\ Len(ChainOuts(c, a)) <= Len(A)
    /\ Len(B) = Tx[t].outs[a]
    /\ ChainOuts(c, a) \o FirstOuts(b, k + 1, a) = A \o B

LEMMA PartialOutsFacts ==
    ASSUME NEW c, NEW b, Next1(c, b), NEW k \in 0..Len(Body[b]), k < Len(Body[b]), NEW a \in Amounts,
           NEW t, t = Body[b][k + 1],
           NEW A, A = ChainOuts(c, a) \o FirstOuts(b, k, a), NEW B, B = NewOuts(t, a, Height(b))
    PROVE  OutsSplit(c, b, k, a, t, A, B)
<1>1. c \in Seq(Blocks) /\ b \in Blocks
    BY FitsFacts DEF Next1
<1>2. k + 1 \in 1..Len(Body[b]) /\ Height(b) \in Nat
    BY <1>1, BodyFacts
<1>3. t \in Txs
    BY <1>1, <1>2, BodyFacts
<1>4. PICK C \in Seq(Fresh) : C = ChainOuts(c, a)
    BY <1>1, ChainOutsFacts
<1>5. PICK F \in Seq(Fresh) : F = FirstOuts(b, k, a)
    BY <1>1, FirstOutsFacts
<1>6. B \in Seq(Fresh) /\ Len(B) = Tx[t].outs[a]
    BY <1>2, <1>3, NewOutsFacts
<1>7. FirstOuts(b, k + 1, a) = F \o B
    <2>1. PICK n \in 0..Len(Body[b]) : n = k + 1
        BY <1>2
    <2>2. n # 0 /\ n - 1 = k
        BY <2>1
    <2>3. FirstOuts(b, n, a) = FirstOuts(b, n - 1, a) \o NewOuts(Body[b][n], a, Height(b))
        BY <1>1, <2>1, <2>2, FirstOutsFacts
    <2>4. QED
        BY <1>5, <2>1, <2>2, <2>3, Zenon
<1>8. C \o (F \o B) = (C \o F) \o B
    <2>1. PICK D \in Seq(Fresh) : D = B
        BY <1>6
    <2>2. (C \o F) \o D = C \o (F \o D)
        <3>1. PICK x : x = (C \o F) \o D
            OBVIOUS
        <3>2. PICK y : y = C \o (F \o D)
            OBVIOUS
        <3>3. Len(C) \in Nat /\ Len(F) \in Nat /\ Len(D) \in Nat
            OBVIOUS
        <3>4. x \in Seq(Fresh) /\ Len(x) = Len(C) + Len(F) + Len(D)
            BY <3>1
        <3>5. y \in Seq(Fresh) /\ Len(y) = Len(C) + Len(F) + Len(D)
            BY <3>2
        <3>6. ASSUME NEW i \in 1..Len(C) + Len(F) + Len(D) PROVE x[i] = y[i]
            BY <3>1, <3>2, <3>3
        <3>7. QED
            BY <3>1, <3>2, <3>3, <3>4, <3>5, <3>6
    <2>3. QED
        BY <2>1, <2>2
<1>9. C \o F \in Seq(Fresh) /\ Len(C \o F) = Len(C) + Len(F) /\ Len(C) \in Nat /\ Len(F) \in Nat
    OBVIOUS
<1>10. Len(C) <= Len(C \o F)
    BY <1>9
<1>11. A = C \o F
    BY <1>4, <1>5, Zenon
<1>12. QED
    BY <1>3, <1>4, <1>5, <1>6, <1>7, <1>8, <1>9, <1>10, <1>11, Zenon DEF OutsSplit

\* Popping the outputs of transaction k + 1 and freeing its inputs, for one amount.
LEMMA PartialPop ==
    ASSUME NEW c, NEW b, Next1(c, b), NEW k \in 0..Len(Body[b]), k < Len(Body[b]), NEW a \in Amounts,
           NEW t, t = Body[b][k + 1], NEW l, l = Partial(c, b, k + 1)
    PROVE  /\ SpendOutputs(SubSeq(l.outs[a], 1, Kept(l, t, a)), Ins(t), a, FALSE) = PartialOuts(c, b, k, a)
           /\ PopOk(l, t, a)
<1>1. PICK I : I = ChainIns(c) \cup FirstIns(b, k)
    OBVIOUS
<1>2. PICK J : J = Ins(t)
    OBVIOUS
<1>3. /\ I \in SUBSET AllIns /\ J \in SUBSET AllIns
      /\ SpendsWithin(I, c) /\ SpendsWithin(J, c) /\ KeysApart(I, J)
      /\ ChainIns(c) \cup FirstIns(b, k + 1) = I \cup J
    <2>1. J = Ins(Body[b][k + 1])
        BY <1>2, Zenon
    <2>2. InsSplit(c, b, k, I, J)
        BY <1>1, <2>1, PartialIns
    <2>3. QED
        BY <2>2 DEF InsSplit
<1>4. PICK A : A = ChainOuts(c, a) \o FirstOuts(b, k, a)
    OBVIOUS
<1>5. PICK B : B = NewOuts(t, a, Height(b))
    OBVIOUS
<1>6. /\ t \in Txs /\ A \in Seq(Fresh) /\ B \in Seq(Fresh)
      /\ Len(ChainOuts(c, a)) \in Nat /\ Len(ChainOuts(c, a)) <= Len(A)
      /\ Len(B) = Tx[t].outs[a]
      /\ ChainOuts(c, a) \o FirstOuts(b, k + 1, a) = A \o B
    <2>1. OutsSplit(c, b, k, a, t, A, B)
        BY <1>4, <1>5, PartialOutsFacts
    <2>2. QED
        BY <2>1 DEF OutsSplit
<1>a. A \in Seq(Fresh) /\ B \in Seq(Fresh) /\ Len(A) \in Nat /\ Len(B) \in Nat
    BY <1>6
<1>b. t \in Txs /\ Len(B) = Tx[t].outs[a]
    BY <1>6
<1>c. Len(ChainOuts(c, a)) \in Nat /\ Len(ChainOuts(c, a)) <= Len(A)
    BY <1>6
<1>7. l.outs[a] = SpendOutputs(A \o B, I \cup J, a, TRUE)
    <2>1. l.outs[a] = PartialOuts(c, b, k + 1, a)
        BY DEF Partial
    <2>2. QED
        BY <1>3, <1>6, <2>1, Zenon DEF PartialOuts
<1>8. PICK o : o = l.outs[a]
    OBVIOUS
<1>9. PICK x \in Seq(Fresh) : /\ x = A \o B /\ Len(x) = Len(A) + Len(B)
                             /\ \A i \in 1..Len(B) : x[Len(A) + i] = B[i]
    <2>1. A \o B \in Seq(Fresh) /\ Len(A \o B) = Len(A) + Len(B)
        BY <1>a
    <2>2. ASSUME NEW i \in 1..Len(B) PROVE (A \o B)[Len(A) + i] = B[i]
        BY <1>a
    <2>3. QED
        BY <2>1, <2>2, Zenon
<1>10. Len(o) = Len(x) /\ Flagged(o, x, I \cup J, a, TRUE)
    <2>1. PICK s \in Seq(Out) : s = x
        BY <1>9, FreshIsOut
    <2>2. PICK K : K = I \cup J
        OBVIOUS
    <2>3. PICK yes \in BOOLEAN : yes = TRUE
        OBVIOUS
    <2>4. PICK z : z = SpendOutputs(s, K, a, yes)
        OBVIOUS
    <2>5. Len(z) = Len(s) /\ Flagged(z, s, K, a, yes)
        BY <2>4, SpendOutputsFacts
    <2>6. QED
        BY <1>7, <1>8, <1>9, <2>1, <2>2, <2>3, <2>4, <2>5, Zenon
<1>11. Len(A) \in Nat /\ Len(B) \in Nat /\ Kept(l, t, a) = Len(A)
    <2>1. Len(A) \in Nat /\ Len(B) \in Nat
        BY <1>6
    <2>2. Kept(l, t, a) = Len(o) - Len(B)
        BY <1>6, <1>8, Zenon DEF Kept
    <2>3. QED
        BY <1>9, <1>10, <2>1, <2>2
<1>12. SpendApart(I, J, a)
    <2>1. \A i \in Nat \ {0} : ~(SpendsAny(I, a, i) /\ SpendsAny(J, a, i))
        BY <1>3, SpendsApart
    <2>2. QED
        BY <2>1 DEF SpendApart
<1>13. SpendOutputs(SubSeq(l.outs[a], 1, Kept(l, t, a)), Ins(t), a, FALSE) = PartialOuts(c, b, k, a)
    <2>1. UndoSpends(A, B, I, J, a)
        BY <1>6, <1>12, SpendUndo
    <2>2. SpendOutputs(SubSeq(SpendOutputs(A \o B, I \cup J, a, TRUE), 1, Len(A)), J, a, FALSE)
            = SpendOutputs(A, I, a, TRUE)
        BY <2>1 DEF UndoSpends
    <2>3. QED
        BY <1>1, <1>2, <1>4, <1>7, <1>11, <2>2, Zenon DEF PartialOuts
<1>14. ASSUME NEW i \in 1..Tx[t].outs[a]
       PROVE  /\ ~o[Len(A) + i].spent
              /\ o[Len(A) + i].unlock = Tx[t].unlock
              /\ o[Len(A) + i].key = <<t, a, i>>
    <2>1. PICK j \in Nat \ {0} : j = Len(A) + i
        BY <1>a, <1>b
    <2>2. j \in 1..Len(x) /\ x[j] = B[i] /\ i \in 1..Len(B)
        <3>1. i \in 1..Len(B)
            BY <1>b
        <3>2. j \in 1..Len(x)
            BY <1>9, <1>a, <2>1, <3>1
        <3>3. x[j] = B[i]
            BY <1>9, <2>1, <3>1, Zenon
        <3>4. QED
            BY <3>1, <3>2, <3>3
    <2>3. ~(j \in 1..Len(ChainOuts(c, a)))
        BY <1>a, <1>b, <1>c, <2>1
    <2>4. ~SpendsAny(I \cup J, a, j)
        BY <1>3, <2>3, Zenon DEF SpendsAny, SpendsWithin
    <2>5. o[j].key = x[j].key /\ o[j].unlock = x[j].unlock /\ o[j].spent = x[j].spent
        BY <1>10, <2>2, <2>4, Zenon DEF Flagged
    <2>6. x[j] \in Fresh
        BY <1>9, <2>2
    <2>7. ~x[j].spent
        BY <2>6 DEF Fresh
    <2>8. Height(b) \in Nat
        BY FitsFacts, BodyFacts DEF Next1
    <2>9. B[i].key = <<t, a, i>> /\ B[i].unlock = Tx[t].unlock
        <3>1. PICK h \in Nat : h = Height(b)
            BY <2>8
        <3>a. OutsOf(NewOuts(t, a, h), t, a)
            BY <1>b, NewOutsOf
        <3>2. NewOuts(t, a, h)[i].key = <<t, a, i>> /\ NewOuts(t, a, h)[i].unlock = Tx[t].unlock
            BY <3>a, Zenon DEF OutsOf
        <3>3. QED
            BY <1>5, <3>1, <3>2, Zenon
    <2>10. QED
        BY <2>1, <2>2, <2>5, <2>7, <2>9, Zenon
<1>15. PopOk(l, t, a)
    <2>1. Kept(l, t, a) >= 0
        BY <1>11
    <2>2. QED
        BY <1>8, <1>11, <1>14, <2>1, Zenon DEF PopOk
<1>16. QED
    BY <1>13, <1>15

LEMMA PartialFields ==
    ASSUME NEW c, NEW b, NEW n
    PROVE  /\ Partial(c, b, n).keys = {in.key : in \in ChainIns(c) \cup FirstIns(b, n)}
           /\ Partial(c, b, n).outs = [a \in Amounts |-> PartialOuts(c, b, n, a)]
           /\ Partial(c, b, n).trap = FALSE
    BY Zenon DEF Partial

LEMMA PartialStep ==
    ASSUME NEW c, NEW b, Next1(c, b), NEW k \in 0..Len(Body[b]), k < Len(Body[b])
    PROVE  UndoTransaction(Partial(c, b, k + 1), Body[b][k + 1]) = Partial(c, b, k)
<1>1. PICK t : t = Body[b][k + 1]
    OBVIOUS
<1>2. PICK l : l = Partial(c, b, k + 1)
    OBVIOUS
<1>3. PICK I : I = ChainIns(c) \cup FirstIns(b, k)
    OBVIOUS
<1>4. PICK J : J = Ins(t)
    OBVIOUS
<1>5. KeysApart(I, J) /\ ChainIns(c) \cup FirstIns(b, k + 1) = I \cup J
    <2>1. J = Ins(Body[b][k + 1])
        BY <1>1, <1>4, Zenon
    <2>2. InsSplit(c, b, k, I, J)
        BY <1>3, <2>1, PartialIns
    <2>3. QED
        BY <2>2 DEF InsSplit
<1>6. l.keys = {in.key : in \in I \cup J} /\ l.trap = FALSE /\ Keys(t) = {in.key : in \in J}
    <2>1. l.keys = {in.key : in \in ChainIns(c) \cup FirstIns(b, k + 1)} /\ l.trap = FALSE
        BY <1>2 DEF Partial
    <2>2. QED
        BY <1>4, <1>5, <2>1, Zenon DEF Keys
<1>7. l.keys \ Keys(t) = {in.key : in \in I} /\ Keys(t) \subseteq l.keys
    BY <1>5, <1>6, Zenon DEF KeysApart
<1>8. \A a \in Amounts :
          /\ SpendOutputs(SubSeq(l.outs[a], 1, Kept(l, t, a)), Ins(t), a, FALSE) = PartialOuts(c, b, k, a)
          /\ PopOk(l, t, a)
    BY <1>1, <1>2, PartialPop
<1>9. [a \in Amounts |-> SpendOutputs(SubSeq(l.outs[a], 1, Kept(l, t, a)), Ins(t), a, FALSE)]
        = [a \in Amounts |-> PartialOuts(c, b, k, a)]
    BY <1>8, Zenon
<1>10. (\/ l.trap \/ \E a \in Amounts : ~PopOk(l, t, a) \/ ~(Keys(t) \subseteq l.keys)) = FALSE
    BY <1>6, <1>7, <1>8, Zenon
<1>11. UndoTransaction(l, t)
         = [l EXCEPT !.keys = {in.key : in \in I},
                     !.outs = [a \in Amounts |-> PartialOuts(c, b, k, a)],
                     !.trap = FALSE]
    <2>1. UndoTransaction(l, t)
           = [l EXCEPT !.keys = l.keys \ Keys(t),
                       !.outs = [a \in Amounts |->
                          SpendOutputs(SubSeq(l.outs[a], 1, Kept(l, t, a)), Ins(t), a, FALSE)],
                       !.trap = \/ l.trap \/ \E a \in Amounts : ~PopOk(l, t, a)
                                \/ ~(Keys(t) \subseteq l.keys)]
        BY DEF UndoTransaction
    <2>2. QED
        BY <1>7, <1>9, <1>10, <2>1, Zenon
<1>12. PICK kk : kk = {in.key : in \in I}
    OBVIOUS
<1>13. PICK oo : oo = [a \in Amounts |-> PartialOuts(c, b, k, a)]
    OBVIOUS
<1>14. PICK r : r = Replay(Append(c, b))
    OBVIOUS
<1>15. PICK k2, o2, x, y, z, no : /\ l = [keys |-> k2, outs |-> o2, indices |-> x, pos |-> y, stamps |-> z, trap |-> no]
                                  /\ x = r.indices /\ y = r.pos /\ z = r.stamps /\ no = FALSE
    BY <1>2, <1>14, Zenon DEF Partial
<1>16. [l EXCEPT !.keys = kk, !.outs = oo, !.trap = FALSE]
         = [keys |-> kk, outs |-> oo, indices |-> r.indices, pos |-> r.pos, stamps |-> r.stamps, trap |-> FALSE]
    <2>1. [l EXCEPT !.keys = kk, !.outs = oo, !.trap = no]
           = [keys |-> kk, outs |-> oo, indices |-> x, pos |-> y, stamps |-> z, trap |-> no]
        <3>1. PICK v : v = [l EXCEPT !.keys = kk, !.outs = oo, !.trap = no]
            OBVIOUS
        <3>2. v = [keys |-> kk, outs |-> oo, indices |-> x, pos |-> y, stamps |-> z, trap |-> no]
            BY <1>15, <3>1
        <3>3. QED
            BY <3>1, <3>2
    <2>2. QED
        BY <1>15, <2>1, Zenon
<1>17. Partial(c, b, k) = [keys |-> kk, outs |-> oo, indices |-> r.indices, pos |-> r.pos,
                           stamps |-> r.stamps, trap |-> FALSE]
    BY <1>3, <1>12, <1>13, <1>14, Zenon DEF Partial
<1>18. QED
    BY <1>1, <1>2, <1>11, <1>12, <1>13, <1>16, <1>17, Zenon

\* The recursion of UndoTransactions.
Undoes(l, b, f) ==
    f = [n \in 0..Len(Body[b]) |->
            IF n = 0 THEN l ELSE UndoTransaction(f[n - 1], Body[b][Len(Body[b]) + 1 - n])]

LEMMA UndoesIs ==
    ASSUME NEW c, NEW b, Next1(c, b), NEW l, l = Partial(c, b, Len(Body[b])),
           NEW f, Undoes(l, b, f)
    PROVE  f[Len(Body[b])] = Partial(c, b, 0)
<1> DEFINE T == {n \in 0..Len(Body[b]) : f[n] # Partial(c, b, Len(Body[b]) - n)}
<1>0. b \in Blocks /\ Len(Body[b]) \in Nat \ {0}
    BY FitsFacts, BodyFacts DEF Next1
<1>1. ASSUME NEW n \in 0..Len(Body[b])
      PROVE  f[n] = IF n = 0 THEN l ELSE UndoTransaction(f[n - 1], Body[b][Len(Body[b]) + 1 - n])
    BY Zenon DEF Undoes
<1>2. T = {}
    <2>1. SUFFICES ASSUME T # {} PROVE FALSE
        OBVIOUS
    <2>2. T \subseteq Nat
        OBVIOUS
    <2>3. PICK n \in T : \A q \in T : n <= q
        BY <2>1, <2>2, LeastNat
    <2>4. n \in 0..Len(Body[b]) /\ n \in Nat
        OBVIOUS
    <2> HIDE DEF T
    <2>5. n # 0
        <3>1. SUFFICES ASSUME n = 0 PROVE FALSE
            OBVIOUS
        <3>2. f[n] = l
            BY <1>1, <2>4, <3>1, Zenon
        <3>3. Len(Body[b]) - n = Len(Body[b])
            BY <1>0, <3>1
        <3>4. f[n] = Partial(c, b, Len(Body[b]) - n)
            BY <3>2, <3>3, Zenon
        <3>5. QED
            BY <3>4 DEF T
    <2>6. PICK m \in Nat : m = n - 1
        BY <2>4, <2>5
    <2>7. m \in 0..Len(Body[b]) /\ ~(n <= m)
        BY <1>0, <2>4, <2>6
    <2>8. f[m] = Partial(c, b, Len(Body[b]) - m)
        BY <2>3, <2>7 DEF T
    <2>9. PICK k \in Nat : k = Len(Body[b]) - n
        BY <1>0, <2>4
    <2>10. /\ k \in 0..Len(Body[b]) /\ k < Len(Body[b])
           /\ Len(Body[b]) - m = k + 1 /\ Len(Body[b]) + 1 - n = k + 1
        BY <1>0, <2>4, <2>5, <2>6, <2>9
    <2>11. f[n] = UndoTransaction(f[m], Body[b][k + 1])
        BY <1>1, <2>4, <2>5, <2>6, <2>10, Zenon
    <2>12. f[n] = Partial(c, b, k)
        BY <2>8, <2>10, <2>11, PartialStep
    <2>13. QED
        BY <2>9, <2>12 DEF T
<1>3. Len(Body[b]) \in 0..Len(Body[b]) /\ Len(Body[b]) - Len(Body[b]) = 0
    BY <1>0
<1>4. f[Len(Body[b])] = Partial(c, b, Len(Body[b]) - Len(Body[b]))
    BY <1>2, <1>3
<1>5. QED
    BY <1>3, <1>4, Zenon

LEMMA UndoesExists ==
    ASSUME NEW c, NEW b, Next1(c, b), NEW l, l = Partial(c, b, Len(Body[b]))
    PROVE  \E f : Undoes(l, b, f)
<1>0. b \in Blocks /\ Len(Body[b]) \in Nat \ {0}
    BY FitsFacts, BodyFacts DEF Next1
<1>1. PICK f : f = [n \in 0..Len(Body[b]) |-> Partial(c, b, Len(Body[b]) - n)]
    OBVIOUS
<1>2. ASSUME NEW n \in 0..Len(Body[b])
      PROVE  Partial(c, b, Len(Body[b]) - n)
                = IF n = 0 THEN l ELSE UndoTransaction(f[n - 1], Body[b][Len(Body[b]) + 1 - n])
    <2>1. CASE n = 0
        <3>1. Len(Body[b]) - n = Len(Body[b])
            BY <1>0, <2>1
        <3>2. QED
            BY <2>1, <3>1, Zenon
    <2>2. CASE n # 0
        <3>1. PICK m \in Nat : m = n - 1
            BY <2>2
        <3>2. m \in 0..Len(Body[b])
            BY <1>0, <3>1
        <3>3. PICK k \in Nat : k = Len(Body[b]) - n
            BY <1>0
        <3>4. /\ k \in 0..Len(Body[b]) /\ k < Len(Body[b])
              /\ Len(Body[b]) - m = k + 1 /\ Len(Body[b]) + 1 - n = k + 1
            BY <1>0, <2>2, <3>1, <3>3
        <3>5. f[m] = Partial(c, b, k + 1)
            BY <1>1, <3>2, <3>4, Zenon
        <3>6. Partial(c, b, k) = UndoTransaction(f[m], Body[b][k + 1])
            BY <3>4, <3>5, PartialStep
        <3>7. QED
            BY <2>2, <3>1, <3>3, <3>4, <3>6, Zenon
    <2>3. QED
        BY <2>1, <2>2
<1>3. f = [n \in 0..Len(Body[b]) |->
             IF n = 0 THEN l ELSE UndoTransaction(f[n - 1], Body[b][Len(Body[b]) + 1 - n])]
    BY <1>1, <1>2, Zenon
<1>4. QED
    BY <1>3, Zenon DEF Undoes

LEMMA UndoTransactionsIs ==
    ASSUME NEW c, NEW b, Next1(c, b), NEW l, l = Partial(c, b, Len(Body[b]))
    PROVE  UndoTransactions(l, b) = Partial(c, b, 0)
<1> DEFINE g == CHOOSE h : Undoes(l, b, h)
<1>1. Undoes(l, b, g)
    BY UndoesExists, Zenon
<1>2. UndoTransactions(l, b) = g[Len(Body[b])]
    BY Zenon DEF UndoTransactions, Undoes
<1> HIDE DEF g
<1>3. QED
    BY <1>1, <1>2, UndoesIs

LEMMA PartialFull ==
    ASSUME NEW c, NEW b, Fits(c, b)
    PROVE  Partial(c, b, Len(Body[b])) = Replay(Append(c, b))
<1>1. c \in Seq(Blocks) /\ b \in Blocks
    BY FitsFacts
<1>2. PICK e : e = Append(c, b)
    OBVIOUS
<1>3. PICK n \in 0..Len(Body[b]) : n = Len(Body[b])
    BY <1>1, BodyFacts
<1>4. ChainIns(c) \cup FirstIns(b, n) = ChainIns(e)
    <2>1. FirstIns(b, n) = BlockIns(b)
        BY <1>1, <1>3, FirstInsFacts
    <2>2. ChainIns(e) = ChainIns(c) \cup BlockIns(b)
        BY <1>1, <1>2, ChainInsAppend
    <2>3. QED
        BY <2>1, <2>2, Zenon
<1>5. ASSUME NEW a \in Amounts PROVE PartialOuts(c, b, n, a) = ReplayOuts(e, a)
    <2>1. ChainOuts(e, a) = ChainOuts(c, a) \o FirstOuts(b, n, a)
        BY <1>1, <1>2, <1>3, ChainOutsFacts DEF BlockOuts
    <2>2. QED
        BY <1>4, <2>1, Zenon DEF PartialOuts, ReplayOuts
<1>6. [a \in Amounts |-> PartialOuts(c, b, n, a)] = [a \in Amounts |-> ReplayOuts(e, a)]
    BY <1>5, Zenon
<1>7. Partial(c, b, n) = Replay(e)
    <2>1. PICK r : r = Replay(e)
        OBVIOUS
    <2>2. r = [keys |-> r.keys, outs |-> r.outs, indices |-> r.indices, pos |-> r.pos, stamps |-> r.stamps, trap |-> FALSE]
        BY <2>1, Zenon DEF Replay
    <2>3. r.keys = {in.key : in \in ChainIns(e)} /\ r.outs = [a \in Amounts |-> ReplayOuts(e, a)]
        BY <2>1, ReplayFields, Zenon
    <2>4. Partial(c, b, n) = [keys |-> {in.key : in \in ChainIns(e)}, outs |-> [a \in Amounts |-> ReplayOuts(e, a)],
                              indices |-> r.indices, pos |-> r.pos, stamps |-> r.stamps, trap |-> FALSE]
        BY <1>2, <1>4, <1>6, <2>1, Zenon DEF Partial
    <2>5. QED
        BY <2>1, <2>2, <2>3, <2>4, Zenon
<1>8. QED
    BY <1>2, <1>3, <1>7

LEMMA PartialNone ==
    ASSUME NEW c, NEW b, Fits(c, b)
    PROVE  /\ Partial(c, b, 0).keys = Replay(c).keys
           /\ Partial(c, b, 0).outs = Replay(c).outs
           /\ Partial(c, b, 0).trap = FALSE
<1>1. c \in Seq(Blocks) /\ b \in Blocks
    BY FitsFacts
<1>2. PICK n \in 0..Len(Body[b]) : n = 0
    BY <1>1, BodyFacts
<1>3. ChainIns(c) \cup FirstIns(b, n) = ChainIns(c)
    <2>1. FirstIns(b, n) = {}
        BY <1>1, <1>2, FirstInsFacts
    <2>2. QED
        BY <2>1, Zenon
<1>4. ASSUME NEW a \in Amounts PROVE PartialOuts(c, b, n, a) = ReplayOuts(c, a)
    <2>1. FirstOuts(b, n, a) = <<>>
        BY <1>1, <1>2, FirstOutsFacts
    <2>2. PICK C \in Seq(Fresh) : C = ChainOuts(c, a)
        BY <1>1, ChainOutsFacts
    <2>3. C \o <<>> = C
        OBVIOUS
    <2>4. QED
        BY <1>3, <2>1, <2>2, <2>3, Zenon DEF PartialOuts, ReplayOuts
<1>5. [a \in Amounts |-> PartialOuts(c, b, n, a)] = [a \in Amounts |-> ReplayOuts(c, a)]
    BY <1>4, Zenon
<1>6. PICK l : l = Partial(c, b, n)
    OBVIOUS
<1>7. /\ l.keys = {in.key : in \in ChainIns(c) \cup FirstIns(b, n)}
      /\ l.outs = [a \in Amounts |-> PartialOuts(c, b, n, a)]
      /\ l.trap = FALSE
    BY <1>6, Zenon DEF Partial
<1>8. l.keys = Replay(c).keys /\ l.outs = Replay(c).outs /\ l.trap = FALSE
    BY <1>3, <1>5, <1>7, ReplayFields, Zenon
<1>9. QED
    BY <1>2, <1>6, <1>8, Zenon

\* Undoing the tip of a chain leaves the replay of the rest, and no check ends
\* the process.
LEMMA UndoIsReplay ==
    ASSUME NEW c, NEW b, Next1(c, b)
    PROVE  UndoBlock(Replay(Append(c, b)), b) = Replay(c)
<1>1. /\ Fits(c, b) /\ c \in Seq(Blocks) /\ b \in Blocks
      /\ Len(c) \in Nat /\ Height(b) = Len(c)
      /\ \A i \in 1..Len(c) : c[i] # b
    BY FitsFacts DEF Next1
<1>2. PICK e : e = Append(c, b)
    OBVIOUS
<1>3. PICK l : l = Replay(e)
    OBVIOUS
<1>4. PICK u : u = UndoTransactions(l, b)
    OBVIOUS
<1>5. u.keys = Replay(c).keys /\ u.outs = Replay(c).outs /\ u.trap = FALSE
    <2>1. l = Partial(c, b, Len(Body[b]))
        BY <1>1, <1>2, <1>3, PartialFull
    <2>2. u = Partial(c, b, 0)
        BY <1>4, <2>1, UndoTransactionsIs
    <2>3. QED
        BY <1>1, <2>2, PartialNone, Zenon
<1>6. /\ Len(e) = Len(c) + 1
      /\ e[Len(c) + 1] = b
      /\ \A i \in 1..Len(c) : e[i] = c[i]
      /\ DOMAIN e = 1..Len(c) + 1 /\ DOMAIN c = 1..Len(c)
      /\ \A i \in 1..Len(c) : i \in 1..Len(c) + 1
      /\ Len(c) + 1 \in 1..Len(c) + 1
      /\ \A i \in 1..Len(c) + 1 : i \in 1..Len(c) \/ i = Len(c) + 1
    BY <1>1, <1>2, AppendFacts
<1>7. ToSet(e) = ToSet(c) \cup {b}
    BY <1>1, <1>2, ToSetAppend
<1>8. b \notin ToSet(c)
    BY <1>1, <1>6, Zenon DEF ToSet
<1>9. PICK n \in DOMAIN e : n = Len(c) + 1
    BY <1>6
<1>10. e[n] = b /\ n - 1 = Height(b)
    BY <1>1, <1>6, <1>9
<1>11. l.indices = [d \in Blocks |-> IF d \in ToSet(e) THEN ReplayIndices(d) ELSE <<>>]
    BY <1>3, ReplayFields, Zenon
<1>12. [l.indices EXCEPT ![b] = <<>>] = Replay(c).indices
    <2>1. PICK x : x = l.indices
        OBVIOUS
    <2>2. PICK y : y = Replay(c).indices
        OBVIOUS
    <2>3. x = [d \in Blocks |-> IF d \in ToSet(e) THEN ReplayIndices(d) ELSE <<>>]
        BY <1>11, <2>1, Zenon
    <2>4. y = [d \in Blocks |-> IF d \in ToSet(c) THEN ReplayIndices(d) ELSE <<>>]
        BY <2>2, ReplayFields, Zenon
    <2>5. PICK no : no = <<>>
        OBVIOUS
    <2>6. ASSUME NEW d \in Blocks PROVE [x EXCEPT ![b] = no][d] = y[d]
        <3>1. CASE d = b
            <4>1. [x EXCEPT ![b] = no][d] = no
                BY <1>1, <2>3, <3>1
            <4>2. y[d] = no
                BY <1>8, <2>4, <2>5, <3>1, Zenon
            <4>3. QED
                BY <4>1, <4>2
        <3>2. CASE d # b
            <4>1. [x EXCEPT ![b] = no][d] = x[d]
                BY <1>1, <2>3, <3>2
            <4>2. x[d] = y[d]
                BY <1>7, <2>3, <2>4, <3>2, Zenon
            <4>3. QED
                BY <4>1, <4>2
        <3>3. QED
            BY <3>1, <3>2
    <2>7. [x EXCEPT ![b] = no] = y
        BY <2>3, <2>4, <2>6
    <2>8. QED
        BY <2>1, <2>2, <2>5, <2>7, Zenon
<1>13. {p \in l.pos : p[1] \notin ToSet(Body[b])} = Replay(c).pos
    <2>1. ASSUME NEW p \in l.pos, p[1] \notin ToSet(Body[b]) PROVE p \in Replay(c).pos
        <3>1. PICK i \in DOMAIN e : \E t \in ToSet(Body[e[i]]) : p = <<t, i - 1>>
            BY <1>3, PosIs
        <3>2. PICK t \in ToSet(Body[e[i]]) : p = <<t, i - 1>>
            BY <3>1
        <3>3. p[1] = t
            BY <3>2
        <3>4. i \in 1..Len(c)
            BY <1>6, <2>1, <3>2, <3>3, Zenon
        <3>5. i \in DOMAIN c /\ e[i] = c[i]
            BY <1>6, <3>4
        <3>6. QED
            BY <3>1, <3>5, PosIs
    <2>2. ASSUME NEW p \in Replay(c).pos PROVE p \in l.pos /\ p[1] \notin ToSet(Body[b])
        <3>1. PICK i \in DOMAIN c : \E t \in ToSet(Body[c[i]]) : p = <<t, i - 1>>
            BY PosIs
        <3>2. i \in DOMAIN e /\ e[i] = c[i] /\ i \in 1..Len(c)
            BY <1>6
        <3>3. p \in l.pos
            BY <1>3, <3>1, <3>2, PosIs
        <3>4. PICK t \in ToSet(Body[c[i]]) : p = <<t, i - 1>>
            BY <3>1
        <3>5. p[1] = t
            BY <3>4
        <3>6. QED
            BY <3>2, <3>3, <3>4, <3>5, TxApart, Zenon
    <2>3. QED
        BY <2>1, <2>2, Zenon
<1>14. l.stamps = {<<Stamp[e[i]], i - 1>> : i \in DOMAIN e}
    BY <1>3, ReplayFields, Zenon
<1>15. l.stamps \ {<<Stamp[b], Height(b)>>} = Replay(c).stamps
    <2>1. Replay(c).stamps = {<<Stamp[c[i]], i - 1>> : i \in DOMAIN c}
        BY ReplayFields, Zenon
    <2>2. ASSUME NEW i \in 1..Len(c) PROVE <<Stamp[c[i]], i - 1>> # <<Stamp[b], Height(b)>>
        BY <1>1
    <2>3. ASSUME NEW s \in Replay(c).stamps PROVE s \in l.stamps /\ s # <<Stamp[b], Height(b)>>
        <3>1. PICK i \in DOMAIN c : s = <<Stamp[c[i]], i - 1>>
            BY <2>1, Zenon
        <3>2. i \in DOMAIN e /\ e[i] = c[i] /\ i \in 1..Len(c)
            BY <1>6
        <3>3. QED
            BY <1>14, <2>2, <3>1, <3>2, Zenon
    <2>4. ASSUME NEW s \in l.stamps, s # <<Stamp[b], Height(b)>> PROVE s \in Replay(c).stamps
        <3>1. PICK i \in DOMAIN e : s = <<Stamp[e[i]], i - 1>>
            BY <1>14, Zenon
        <3>2. i # n
            BY <1>10, <2>4, <3>1, Zenon
        <3>3. i \in DOMAIN c /\ e[i] = c[i]
            BY <1>6, <1>9, <3>2
        <3>4. QED
            BY <2>1, <3>1, <3>3, Zenon
    <2>5. QED
        BY <2>3, <2>4, Zenon
<1>16. l.indices[b] # <<>>
    <2>1. l.indices[b] = ReplayIndices(b)
        BY <1>1, <1>7, <1>11, Zenon
    <2>2. DOMAIN ReplayIndices(b) = DOMAIN Body[b]
        BY Zenon DEF ReplayIndices
    <2>3. 1 \in DOMAIN Body[b] /\ ~(1 \in DOMAIN <<>>)
        BY <1>1, BodyFacts
    <2>4. QED
        BY <2>1, <2>2, <2>3, Zenon
<1>17. \A t \in ToSet(Body[b]) : \E p \in l.pos : p[1] = t
    <2>1. ASSUME NEW t \in ToSet(Body[b]) PROVE \E p \in l.pos : p[1] = t
        <3>1. PICK p : p = <<t, n - 1>>
            OBVIOUS
        <3>2. p \in l.pos
            <4>1. \E s \in ToSet(Body[e[n]]) : p = <<s, n - 1>>
                BY <1>10, <3>1, Zenon
            <4>2. QED
                BY <1>3, <4>1, PosIs
        <3>3. p[1] = t
            BY <3>1
        <3>4. QED
            BY <3>2, <3>3
    <2>2. QED
        BY <2>1
<1>18. <<Stamp[b], Height(b)>> \in l.stamps
    BY <1>10, <1>14, Zenon
<1>19. ( \/ u.trap
         \/ l.indices[b] = <<>>
         \/ \E t \in ToSet(Body[b]) : \A p \in l.pos : p[1] # t
         \/ <<Stamp[b], Height(b)>> \notin l.stamps ) = FALSE
    BY <1>5, <1>16, <1>17, <1>18, Zenon
<1>20. UndoBlock(l, b)
         = [keys |-> Replay(c).keys, outs |-> Replay(c).outs, indices |-> Replay(c).indices,
            pos |-> Replay(c).pos, stamps |-> Replay(c).stamps, trap |-> FALSE]
    BY <1>4, <1>5, <1>12, <1>13, <1>15, <1>19, Zenon DEF UndoBlock
<1>21. Replay(c)
         = [keys |-> Replay(c).keys, outs |-> Replay(c).outs, indices |-> Replay(c).indices,
            pos |-> Replay(c).pos, stamps |-> Replay(c).stamps, trap |-> FALSE]
    BY Zenon DEF Replay
<1>22. QED
    BY <1>2, <1>3, <1>20, <1>21, Zenon

-----------------------------------------------------------------------------
(***************************************************************************)
(* Valid blocks: the whole ancestry can be redone.                         *)
(***************************************************************************)
Valid(x) == x \in Blocks /\ \A j \in 1..Len(Path[x]) : Path[x][j] \in Redoable

LEMMA GenesisNext == Next1(<<>>, Genesis)
<1>1. Genesis \in Blocks /\ Path[Genesis] = <<Genesis>>
    BY TreeAssumption DEF TreeAssumption
<1>2. Fits(<<>>, Genesis)
    BY <1>1 DEF Fits
<1>3. BlockIns(Genesis) = {}
    <2>1. ASSUME NEW in \in BlockIns(Genesis) PROVE FALSE
        <3>1. PICK n \in 1..Len(Body[Genesis]) : in \in Ins(Body[Genesis][n])
            BY <1>1, BlockInsFacts
        <3>2. n = 1 /\ n \in DOMAIN Body[Genesis] /\ Body[Genesis][n] \in Txs
            BY <1>1, BodyFacts, BodyAssumption DEF BodyAssumption
        <3>3. Tx[Body[Genesis][n]].ins = <<>>
            BY <1>1, <3>2, BodyAssumption DEF BodyAssumption
        <3>4. DOMAIN Tx[Body[Genesis][n]].ins = {}
            BY <3>3
        <3>5. QED
            BY <3>1, <3>4, Zenon DEF Ins
    <2>2. QED
        BY <2>1, Zenon
<1>4. CanRedo(Replay(<<>>), Genesis)
    <2>1. \A n, m \in DOMAIN Body[Genesis] : n = m
        BY <1>1, BodyFacts, BodyAssumption DEF BodyAssumption
    <2>2. ~KeyTwice(Genesis)
        BY <2>1, Zenon DEF KeyTwice
    <2>3. QED
        BY <1>3, <2>2, Zenon DEF CanRedo, AllFound
<1>5. QED
    BY <1>2, <1>4, EmptySound DEF Next1

LEMMA ParentNext ==
    ASSUME NEW x \in Blocks, x # Genesis, Sound(Path[Parent(x)]), x \in Redoable
    PROVE  Next1(Path[Parent(x)], x)
<1>1. Parent(x) \in Blocks /\ Path[x] = Append(Path[Parent(x)], x)
    BY ParentFacts
<1>2. Path[Parent(x)] \in Seq(Blocks)
    BY <1>1, PathFacts
<1>3. Fits(Path[Parent(x)], x)
    BY <1>1, <1>2 DEF Fits
<1>4. CanRedo(Replay(Path[Parent(x)]), x)
    BY Zenon DEF Redoable
<1>5. QED
    BY <1>3, <1>4 DEF Next1

LEMMA ValidParent ==
    ASSUME NEW x, Valid(x), x # Genesis
    PROVE  Valid(Parent(x)) /\ x \in Redoable /\ Len(Path[Parent(x)]) < Len(Path[x])
<1>1. x \in Blocks /\ \A j \in 1..Len(Path[x]) : Path[x][j] \in Redoable
    BY DEF Valid
<1>2. PICK p \in Blocks : p = Parent(x)
    BY <1>1, ParentFacts
<1>3. /\ Len(Path[x]) \in Nat \ {0} /\ Path[x][Len(Path[x])] = x
      /\ Path[p] \in Seq(Blocks) /\ Path[x] = Append(Path[p], x)
      /\ Len(Path[p]) = Len(Path[x]) - 1
    BY <1>1, <1>2, ParentFacts, PathFacts
<1>4. ASSUME NEW j \in 1..Len(Path[p]) PROVE Path[p][j] \in Redoable
    <2>1. Path[x][j] = Path[p][j] /\ j \in 1..Len(Path[x])
        BY <1>3
    <2>2. QED
        BY <1>1, <2>1
<1>5. Valid(p)
    BY <1>4 DEF Valid
<1>6. x \in Redoable
    BY <1>1, <1>3
<1>7. QED
    BY <1>2, <1>3, <1>5, <1>6

LEMMA ValidSound ==
    ASSUME NEW x, Valid(x)
    PROVE  Sound(Path[x])
<1> DEFINE T == {n \in Nat : \E y : Valid(y) /\ Len(Path[y]) = n /\ ~Sound(Path[y])}
<1>1. SUFFICES ASSUME ~Sound(Path[x]) PROVE FALSE
    OBVIOUS
<1>2. x \in Blocks /\ Len(Path[x]) \in Nat
    BY PathFacts DEF Valid
<1>3. Len(Path[x]) \in T
    BY <1>1, <1>2
<1>4. PICK n \in T : \A q \in T : n <= q
    BY <1>3, LeastNat
<1>5. PICK y : Valid(y) /\ Len(Path[y]) = n /\ ~Sound(Path[y])
    BY <1>4
<1>6. y \in Blocks
    BY <1>5 DEF Valid
<1>7. y # Genesis
    <2>1. Sound(Append(<<>>, Genesis))
        BY GenesisNext, SoundStep
    <2>2. Path[Genesis] = <<Genesis>>
        BY TreeAssumption DEF TreeAssumption
    <2>3. Append(<<>>, Genesis) = <<Genesis>>
        OBVIOUS
    <2>4. QED
        BY <1>5, <2>1, <2>2, <2>3
<1>8. PICK p \in Blocks : p = Parent(y)
    BY <1>6, <1>7, ParentFacts
<1>9. Valid(p) /\ y \in Redoable /\ Len(Path[p]) < Len(Path[y]) /\ Len(Path[p]) \in Nat
    BY <1>5, <1>7, <1>8, ValidParent, PathFacts
<1>10. Sound(Path[p])
    <2>1. ~(n <= Len(Path[p]))
        BY <1>5, <1>9
    <2>2. QED
        BY <1>4, <1>9, <2>1
<1>11. Next1(Path[p], y)
    BY <1>6, <1>7, <1>8, <1>9, <1>10, ParentNext
<1>12. Path[y] = Append(Path[p], y)
    BY <1>6, <1>7, <1>8, ParentFacts
<1>13. QED
    BY <1>5, <1>11, <1>12, SoundStep

LEMMA ValidNext ==
    ASSUME NEW x, Valid(x), x # Genesis
    PROVE  Next1(Path[Parent(x)], x) /\ Path[x] = Append(Path[Parent(x)], x)
<1>1. x \in Blocks /\ Valid(Parent(x)) /\ x \in Redoable
    BY ValidParent DEF Valid
<1>2. Sound(Path[Parent(x)])
    BY <1>1, ValidSound
<1>3. QED
    BY <1>1, <1>2, ParentNext, ParentFacts

\* A block on top of a valid one is valid when its inputs fit the ledger.
LEMMA ValidChild ==
    ASSUME NEW x \in Blocks, x # Genesis, Valid(Parent(x)), x \in Redoable
    PROVE  Valid(x)
<1>1. PICK p \in Blocks : p = Parent(x)
    BY ParentFacts
<1>2. /\ Len(Path[x]) \in Nat \ {0} /\ Path[x][Len(Path[x])] = x
      /\ Path[p] \in Seq(Blocks) /\ Path[x] = Append(Path[p], x)
      /\ Len(Path[p]) = Len(Path[x]) - 1
    BY <1>1, ParentFacts, PathFacts
<1>3. ASSUME NEW j \in 1..Len(Path[x]) PROVE Path[x][j] \in Redoable
    <2>1. CASE j = Len(Path[x])
        BY <1>2, <2>1
    <2>2. CASE j # Len(Path[x])
        <3>1. j \in 1..Len(Path[p]) /\ Path[x][j] = Path[p][j]
            BY <1>2, <2>2
        <3>2. QED
            BY <1>1, <3>1 DEF Valid
    <2>3. QED
        BY <2>1, <2>2
<1>4. QED
    BY <1>3 DEF Valid

LEMMA GenesisValid == Valid(Genesis)
<1>1. Genesis \in Blocks /\ Path[Genesis] = <<Genesis>>
    BY TreeAssumption DEF TreeAssumption
<1>2. \A j \in 1..Len(Path[Genesis]) : Path[Genesis][j] = Genesis
    BY <1>1
<1>3. Genesis \in Redoable
    BY <1>1 DEF Redoable
<1>4. QED
    BY <1>1, <1>2, <1>3 DEF Valid

\* The ledger of an empty chain, and the one with the genesis block.
LEMMA EmptyIsReplay == EmptyLedger = Replay(<<>>)
<1>1. DOMAIN <<>> = {} /\ Len(<<>>) = 0 /\ <<>> \in Seq(Blocks)
    OBVIOUS
<1>a. 1..0 = {}
    OBVIOUS
<1>2. ChainIns(<<>>) = {}
    BY <1>1, <1>a, ChainInsFacts
<1>3. ASSUME NEW a \in Amounts PROVE ReplayOuts(<<>>, a) = <<>>
    <2>1. ChainOuts(<<>>, a) = <<>>
        BY <1>1, ChainOutsFacts
    <2>a. <<>> \in Seq(Out)
        OBVIOUS
    <2>2. PICK s \in Seq(Out) : s = <<>>
        BY <2>a, Zenon
    <2>3. PICK yes \in BOOLEAN : yes = TRUE
        OBVIOUS
    <2>4. PICK r : r = SpendOutputs(s, ChainIns(<<>>), a, yes)
        OBVIOUS
    <2>5. r \in Seq(Out) /\ Len(r) = Len(s)
        BY <2>4, SpendOutputsFacts
    <2>6. r = <<>>
        BY <2>2, <2>5
    <2>7. QED
        BY <2>1, <2>2, <2>3, <2>4, <2>6, Zenon DEF ReplayOuts
<1>4. [a \in Amounts |-> ReplayOuts(<<>>, a)] = [a \in Amounts |-> <<>>]
    BY <1>3, Zenon
<1>5. ToSet(<<>>) = {}
    BY <1>1, Zenon DEF ToSet
<1>6. [b \in Blocks |-> IF b \in ToSet(<<>>) THEN ReplayIndices(b) ELSE <<>>] = [b \in Blocks |-> <<>>]
    BY <1>5, Zenon
<1>7. {in.key : in \in ChainIns(<<>>)} = {}
    BY <1>2, Zenon
<1>8. UNION {{<<t, i - 1>> : t \in ToSet(Body[<<>>[i]])} : i \in DOMAIN <<>>} = {}
    BY <1>1, Zenon
<1>9. {<<Stamp[<<>>[i]], i - 1>> : i \in DOMAIN <<>>} = {}
    BY <1>1, Zenon
<1>10. QED
    BY <1>4, <1>6, <1>7, <1>8, <1>9, Zenon DEF EmptyLedger, Replay

\* The cache after a push or a pop of block b.
LEMMA CountedRedo ==
    ASSUME NEW c, NEW b, Fits(c, b), NEW g, Exact(c, g), NEW l, l = Replay(c)
    PROVE  Exact(Append(c, b), Counted(l, g, b, 1))
<1>1. c \in Seq(Blocks) /\ b \in Blocks
    BY FitsFacts
<1>2. ASSUME NEW a \in Amounts
      PROVE  Counted(l, g, b, 1)[a] = Unknown \/ Counted(l, g, b, 1)[a] = Len(ChainOuts(Append(c, b), a))
    <2>1. PICK A \in Seq(Fresh) : A = ChainOuts(c, a)
        BY <1>1, ChainOutsFacts
    <2>2. PICK B \in Seq(Fresh) : B = BlockOuts(b, a)
        BY <1>1, BlockOutsFacts
    <2>3. ChainOuts(Append(c, b), a) = A \o B
        BY <1>1, <2>1, <2>2, ChainOutsFacts
    <2>4. Len(A \o B) = Len(A) + Len(B) /\ Len(A) \in Nat /\ Len(B) \in Nat
        OBVIOUS
    <2>5. NextGlobalIndex(l, g, a) = Len(A)
        BY <1>1, <2>1, NextIs
    <2>6. Counted(l, g, b, 1)[a] = IF B = <<>> THEN g[a] ELSE Len(A) + 1 * Len(B)
        BY <2>2, <2>5, Zenon DEF Counted
    <2>7. CASE B = <<>>
        <3>1. Counted(l, g, b, 1)[a] = g[a]
            BY <2>6, <2>7, Zenon
        <3>2. g[a] = Unknown \/ g[a] = Len(A)
            BY <2>1, Zenon DEF Exact
        <3>3. A \o B = A
            BY <2>7
        <3>4. QED
            BY <2>3, <3>1, <3>2, <3>3, Zenon
    <2>8. CASE B # <<>>
        <3>1. Counted(l, g, b, 1)[a] = Len(A) + 1 * Len(B)
            BY <2>6, <2>8, Zenon
        <3>2. QED
            BY <2>3, <2>4, <3>1
    <2>9. QED
        BY <2>7, <2>8
<1>3. QED
    BY <1>2 DEF Exact

LEMMA CountedUndo ==
    ASSUME NEW c, NEW b, Fits(c, b), NEW g, Exact(Append(c, b), g), NEW l, l = Replay(Append(c, b))
    PROVE  Exact(c, Counted(l, g, b, -1))
<1>1. c \in Seq(Blocks) /\ b \in Blocks /\ Append(c, b) \in Seq(Blocks)
    BY FitsFacts
<1>2. ASSUME NEW a \in Amounts
      PROVE  Counted(l, g, b, -1)[a] = Unknown \/ Counted(l, g, b, -1)[a] = Len(ChainOuts(c, a))
    <2>1. PICK A \in Seq(Fresh) : A = ChainOuts(c, a)
        BY <1>1, ChainOutsFacts
    <2>2. PICK B \in Seq(Fresh) : B = BlockOuts(b, a)
        BY <1>1, BlockOutsFacts
    <2>3. ChainOuts(Append(c, b), a) = A \o B
        BY <1>1, <2>1, <2>2, ChainOutsFacts
    <2>4. Len(A \o B) = Len(A) + Len(B) /\ Len(A) \in Nat /\ Len(B) \in Nat
        OBVIOUS
    <2>5. NextGlobalIndex(l, g, a) = Len(A) + Len(B)
        BY <1>1, <2>3, <2>4, NextIs
    <2>6. Counted(l, g, b, -1)[a] = IF B = <<>> THEN g[a] ELSE Len(A) + Len(B) + (-1) * Len(B)
        BY <2>2, <2>5, Zenon DEF Counted
    <2>7. CASE B = <<>>
        <3>1. Counted(l, g, b, -1)[a] = g[a]
            BY <2>6, <2>7, Zenon
        <3>2. g[a] = Unknown \/ g[a] = Len(A \o B)
            BY <2>3, Zenon DEF Exact
        <3>3. A \o B = A
            BY <2>7
        <3>4. QED
            BY <2>1, <3>1, <3>2, <3>3, Zenon
    <2>8. CASE B # <<>>
        <3>1. Counted(l, g, b, -1)[a] = Len(A) + Len(B) + (-1) * Len(B)
            BY <2>6, <2>8, Zenon
        <3>2. QED
            BY <2>1, <2>4, <3>1
    <2>9. QED
        BY <2>7, <2>8
<1>3. QED
    BY <1>2 DEF Exact


-----------------------------------------------------------------------------
(***************************************************************************)
(* The tables of the block tree, as far as the ledger depends on them.     *)
(***************************************************************************)
IsRec(d) ==
    d = [blocks |-> d.blocks, cd |-> d.cd, chain |-> d.chain,
         children |-> d.children, tips |-> d.tips, import |-> d.import]

IsDb(d) ==
    /\ IsRec(d)
    /\ d.blocks \subseteq Blocks /\ d.cd \in [Blocks -> Nat]
    /\ \A x \in Blocks : BC!Has(d, x) =>
          /\ x \in d.blocks
          /\ \A i \in 1..Len(Path[x]) : BC!Has(d, Path[x][i])

\* The tip chain leads to a valid block.
OnPath(d) == Valid(BC!Tip(d)) /\ d.chain = Path[BC!Tip(d)]

GoodTree(d) == IsDb(d) /\ OnPath(d)

LEMMA ModifyKeeps ==
    ASSUME NEW d, IsRec(d), NEW b, NEW n, NEW e, e = BC!ModifyChildrenCounter(d, b, n)
    PROVE  IsRec(e) /\ e.blocks = d.blocks /\ e.cd = d.cd /\ e.chain = d.chain
<1>1. PICK x : x = [d.children EXCEPT ![b] = d.children[b] + n]
    OBVIOUS
<1>2. PICK y : y = IF d.children[b] + n = 0 THEN d.tips \cup {<<d.cd[b], b>>} ELSE d.tips \ {<<d.cd[b], b>>}
    OBVIOUS
<1>3. e = [d EXCEPT !.children = x, !.tips = y]
    BY <1>1, <1>2 DEF BC!ModifyChildrenCounter
<1>4. PICK f1, f2, f3, f4, f5, f6 :
         d = [blocks |-> f1, cd |-> f2, chain |-> f3, children |-> f4, tips |-> f5, import |-> f6]
    BY DEF IsRec
<1>5. e = [blocks |-> f1, cd |-> f2, chain |-> f3, children |-> x, tips |-> y, import |-> f6]
    BY <1>3, <1>4
<1>6. e.blocks = f1 /\ e.cd = f2 /\ e.chain = f3 /\ d.blocks = f1 /\ d.cd = f2 /\ d.chain = f3
    BY <1>4, <1>5
<1>7. IsRec(e)
    BY <1>5 DEF IsRec
<1>8. QED
    BY <1>6, <1>7

StoreKept(d, e, b, w) ==
    /\ IsRec(e) /\ e.blocks = d.blocks \cup {b} /\ e.cd = [d.cd EXCEPT ![b] = w]
    /\ e.chain = d.chain

LEMMA StoreKeeps ==
    ASSUME NEW d, IsRec(d), NEW b, NEW w, NEW e, e = BC!StoreHeader(BC!StoreBlock(d, b), b, w)
    PROVE  StoreKept(d, e, b, w)
<1>1. PICK x : x = [d.cd EXCEPT ![b] = w]
    OBVIOUS
<1>2. PICK y : y = d.blocks \cup {b}
    OBVIOUS
<1>3. PICK f1, f2, f3, f4, f5, f6 :
         d = [blocks |-> f1, cd |-> f2, chain |-> f3, children |-> f4, tips |-> f5, import |-> f6]
    BY DEF IsRec
<1>4. PICK g : g = BC!StoreBlock(d, b)
    OBVIOUS
<1>5. g = [d EXCEPT !.blocks = y]
    BY <1>2, <1>4 DEF BC!StoreBlock
<1>6. g = [blocks |-> y, cd |-> f2, chain |-> f3, children |-> f4, tips |-> f5, import |-> f6]
    BY <1>3, <1>5
<1>7. d.cd = f2 /\ g.cd = f2 /\ d.chain = f3
    BY <1>3, <1>6
<1>8. e = [g EXCEPT !.cd = x]
    BY <1>1, <1>4, <1>7 DEF BC!StoreHeader
<1>9. e = [blocks |-> y, cd |-> x, chain |-> f3, children |-> f4, tips |-> f5, import |-> f6]
    BY <1>6, <1>8
<1>10. e.blocks = y /\ e.cd = x /\ e.chain = f3
    BY <1>9
<1>11. IsRec(e)
    BY <1>9 DEF IsRec
<1>12. QED
    BY <1>1, <1>2, <1>7, <1>10, <1>11 DEF StoreKept

LEMMA ChainKeeps ==
    ASSUME NEW d, IsRec(d), NEW c, NEW e, e = [d EXCEPT !.chain = c]
    PROVE  IsRec(e) /\ e.blocks = d.blocks /\ e.cd = d.cd /\ e.chain = c
<1>1. PICK f1, f2, f3, f4, f5, f6 :
         d = [blocks |-> f1, cd |-> f2, chain |-> f3, children |-> f4, tips |-> f5, import |-> f6]
    BY DEF IsRec
<1>2. e = [blocks |-> f1, cd |-> f2, chain |-> c, children |-> f4, tips |-> f5, import |-> f6]
    BY <1>1
<1>3. e.blocks = f1 /\ e.cd = f2 /\ e.chain = c /\ d.blocks = f1 /\ d.cd = f2
    BY <1>1, <1>2
<1>4. IsRec(e)
    BY <1>2 DEF IsRec
<1>5. QED
    BY <1>3, <1>4

\* Only the chain table differs.
LEMMA ChainOnly ==
    ASSUME NEW d, IsRec(d), NEW g, d = [g EXCEPT !.chain = d.chain], IsRec(g), NEW c,
           NEW e, e = [d EXCEPT !.chain = c]
    PROVE  e = [g EXCEPT !.chain = e.chain]
<1>1. PICK f1, f2, f3, f4, f5, f6 :
         g = [blocks |-> f1, cd |-> f2, chain |-> f3, children |-> f4, tips |-> f5, import |-> f6]
    BY DEF IsRec
<1>2. PICK k : k = d.chain
    OBVIOUS
<1>3. d = [g EXCEPT !.chain = k]
    BY <1>2
<1>4. d = [blocks |-> f1, cd |-> f2, chain |-> k, children |-> f4, tips |-> f5, import |-> f6]
    BY <1>1, <1>3
<1>5. e = [blocks |-> f1, cd |-> f2, chain |-> c, children |-> f4, tips |-> f5, import |-> f6]
    BY <1>4
<1>6. e.chain = c
    BY <1>5
<1>7. PICK h : h = [g EXCEPT !.chain = c]
    OBVIOUS
<1>8. h = [blocks |-> f1, cd |-> f2, chain |-> c, children |-> f4, tips |-> f5, import |-> f6]
    BY <1>1, <1>7
<1>9. QED
    BY <1>5, <1>6, <1>7, <1>8

LEMMA SameChain ==
    ASSUME NEW d, IsRec(d)
    PROVE  d = [d EXCEPT !.chain = d.chain]
<1>1. PICK f1, f2, f3, f4, f5, f6 :
         d = [blocks |-> f1, cd |-> f2, chain |-> f3, children |-> f4, tips |-> f5, import |-> f6]
    BY DEF IsRec
<1>2. d.chain = f3
    BY <1>1
<1>3. PICK h : h = [d EXCEPT !.chain = f3]
    OBVIOUS
<1>4. h = [blocks |-> f1, cd |-> f2, chain |-> f3, children |-> f4, tips |-> f5, import |-> f6]
    BY <1>1, <1>3
<1>5. QED
    BY <1>1, <1>2, <1>3, <1>4

\* A new block whose parent's header is known, and its difficulty.
NewBlock(d, b, w) ==
    /\ b \in Blocks /\ b # Genesis /\ BC!Has(d, Parent(b)) /\ w \in Difficulty[b]
    /\ ~(b \in d.blocks /\ BC!Has(d, b))

LEMMA StoredFacts ==
    ASSUME NEW d, IsDb(d), NEW b, NEW w, NewBlock(d, b, w), NEW e, e = BC!Stored(d, b, w)
    PROVE  IsDb(e) /\ e.chain = d.chain /\ e.blocks = d.blocks \cup {b}
<1>1. /\ b \in Blocks /\ b # Genesis /\ BC!Has(d, Parent(b))
      /\ w \in Nat \ {0} /\ Parent(b) \in Blocks
    <2>1. b \in Blocks /\ b # Genesis /\ BC!Has(d, Parent(b)) /\ w \in Difficulty[b]
        BY DEF NewBlock
    <2>2. w \in Nat \ {0}
        BY <2>1, TreeAssumption DEF TreeAssumption
    <2>3. QED
        BY <2>1, <2>2, ParentFacts
<1>2. BC!Parent(b) = Parent(b)
    BY DEF BC!Parent, Parent
<1>3. PICK v \in Nat \ {0} : v = d.cd[Parent(b)] + w
    BY <1>1 DEF IsDb
<1>4. PICK d1 : d1 = BC!StoreHeader(BC!StoreBlock(d, b), b, v)
    OBVIOUS
<1>5. PICK d2 : d2 = BC!ModifyChildrenCounter(d1, Parent(b), 1)
    OBVIOUS
<1>6. e = BC!ModifyChildrenCounter(d2, b, -1)
    <2>1. e = BC!ModifyChildrenCounter(BC!ModifyChildrenCounter(
                BC!StoreHeader(BC!StoreBlock(d, b), b, d.cd[BC!Parent(b)] + w), BC!Parent(b), 1), b, -1)
        BY DEF BC!Stored
    <2>2. QED
        BY <1>2, <1>3, <1>4, <1>5, <2>1
<1>7. IsRec(d1) /\ d1.blocks = d.blocks \cup {b} /\ d1.cd = [d.cd EXCEPT ![b] = v] /\ d1.chain = d.chain
    <2>1. IsRec(d)
        BY DEF IsDb
    <2>2. StoreKept(d, d1, b, v)
        BY <1>4, <2>1, StoreKeeps
    <2>3. QED
        BY <2>2 DEF StoreKept
<1>8. IsRec(d2) /\ d2.blocks = d1.blocks /\ d2.cd = d1.cd /\ d2.chain = d1.chain
    BY <1>5, <1>7, ModifyKeeps
<1>9. IsRec(e) /\ e.blocks = d2.blocks /\ e.cd = d2.cd /\ e.chain = d2.chain
    BY <1>6, <1>8, ModifyKeeps
<1>10. e.cd = [d.cd EXCEPT ![b] = v] /\ e.blocks = d.blocks \cup {b} /\ e.chain = d.chain
    BY <1>7, <1>8, <1>9
<1>11. d.cd \in [Blocks -> Nat] /\ d.blocks \subseteq Blocks
    BY DEF IsDb
<1>12. /\ e.cd \in [Blocks -> Nat] /\ e.blocks \subseteq Blocks
       /\ e.cd[b] = v /\ \A x \in Blocks : x # b => e.cd[x] = d.cd[x]
    BY <1>1, <1>10, <1>11
<1>13. BC!Has(e, b) /\ \A x \in Blocks : BC!Has(d, x) => BC!Has(e, x)
    BY <1>12 DEF BC!Has
<1>14. \A x \in Blocks : BC!Has(e, x) => x = b \/ BC!Has(d, x)
    BY <1>12 DEF BC!Has
<1>15. ASSUME NEW x \in Blocks, BC!Has(d, x), NEW i \in 1..Len(Path[x]) PROVE BC!Has(e, Path[x][i])
    BY <1>13, <1>15, PathFacts DEF IsDb
<1>16. ASSUME NEW i \in 1..Len(Path[b]) PROVE BC!Has(e, Path[b][i])
    <2>1. PICK p \in Blocks : p = Parent(b)
        BY <1>1
    <2>2. /\ Len(Path[b]) \in Nat /\ Path[b][Len(Path[b])] = b /\ Path[p] \in Seq(Blocks)
          /\ Path[b] = Append(Path[p], b) /\ Len(Path[p]) = Len(Path[b]) - 1
        BY <1>1, <2>1, PathFacts, ParentFacts
    <2>3. CASE i = Len(Path[b])
        BY <1>13, <2>2, <2>3
    <2>4. CASE i # Len(Path[b])
        <3>1. i \in 1..Len(Path[p]) /\ Path[b][i] = Path[p][i]
            BY <2>2, <2>4
        <3>2. QED
            BY <1>1, <1>15, <2>1, <3>1
    <2>5. QED
        BY <2>3, <2>4
<1>17. ASSUME NEW x \in Blocks, BC!Has(e, x)
       PROVE  x \in e.blocks /\ \A i \in 1..Len(Path[x]) : BC!Has(e, Path[x][i])
    <2>1. CASE x = b
        BY <1>10, <1>16, <2>1
    <2>2. CASE x # b
        <3>1. BC!Has(d, x)
            BY <1>14, <1>17, <2>2
        <3>2. x \in d.blocks
            BY <3>1 DEF IsDb
        <3>3. QED
            BY <1>10, <1>15, <3>1, <3>2
    <2>3. QED
        BY <2>1, <2>2
<1>18. IsDb(e)
    BY <1>9, <1>12, <1>17 DEF IsDb
<1>19. QED
    BY <1>10, <1>18

NoDb == BC!EmptyDb({}, <<>>)

LEMMA GenesisTree ==
    ASSUME NEW w \in Difficulty[Genesis], NEW e, e = BC!AddGenesis(NoDb, w)
    PROVE  GoodTree(e) /\ BC!Tip(e) = Genesis /\ e.chain = <<Genesis>>
<1>1. /\ Genesis \in Blocks /\ Path[Genesis] = <<Genesis>> /\ w \in Nat \ {0}
    BY TreeAssumption DEF TreeAssumption
<1>2. PICK d : d = NoDb
    OBVIOUS
<1>3. d = [blocks |-> {}, cd |-> [x \in Blocks |-> 0], chain |-> <<>>,
           children |-> [x \in Blocks |-> 1], tips |-> {}, import |-> <<>>]
    BY <1>2 DEF NoDb, BC!EmptyDb
<1>4. IsRec(d) /\ d.blocks = {} /\ d.cd = [x \in Blocks |-> 0] /\ d.chain = <<>>
    BY <1>3 DEF IsRec
<1>5. PICK d1 : d1 = BC!StoreHeader(BC!StoreBlock(d, Genesis), Genesis, w)
    OBVIOUS
<1>6. StoreKept(d, d1, Genesis, w)
    BY <1>4, <1>5, StoreKeeps
<1>7. IsRec(d1) /\ d1.blocks = {Genesis} /\ d1.cd = [d.cd EXCEPT ![Genesis] = w] /\ d1.chain = <<>>
    BY <1>4, <1>6 DEF StoreKept
<1>8. PICK d2 : d2 = BC!PushChain(d1, Genesis)
    OBVIOUS
<1>9. d2 = [d1 EXCEPT !.chain = Append(d1.chain, Genesis)]
    BY <1>8 DEF BC!PushChain
<1>10. IsRec(d2) /\ d2.blocks = d1.blocks /\ d2.cd = d1.cd /\ d2.chain = Append(d1.chain, Genesis)
    BY <1>7, <1>9, ChainKeeps
<1>11. e = BC!ModifyChildrenCounter(d2, Genesis, -1)
    BY <1>2, <1>5, <1>8, Zenon DEF BC!AddGenesis
<1>12. IsRec(e) /\ e.blocks = d2.blocks /\ e.cd = d2.cd /\ e.chain = d2.chain
    BY <1>10, <1>11, ModifyKeeps
<1>13. e.blocks = {Genesis} /\ e.chain = <<Genesis>>
    BY <1>7, <1>10, <1>12
<1>14. /\ e.cd \in [Blocks -> Nat] /\ e.cd[Genesis] # 0
       /\ \A x \in Blocks : x # Genesis => e.cd[x] = 0
    BY <1>1, <1>4, <1>7, <1>10, <1>12
<1>15. BC!Has(e, Genesis) /\ \A x \in Blocks : BC!Has(e, x) => x = Genesis
    BY <1>14 DEF BC!Has
<1>16. \A i \in 1..Len(Path[Genesis]) : Path[Genesis][i] = Genesis
    BY <1>1
<1>17. IsDb(e)
    BY <1>1, <1>12, <1>13, <1>14, <1>15, <1>16 DEF IsDb
<1>18. BC!Tip(e) = Genesis
    BY <1>13 DEF BC!Tip
<1>19. OnPath(e)
    BY <1>1, <1>13, <1>18, GenesisValid DEF OnPath
<1>20. QED
    BY <1>13, <1>17, <1>18, <1>19 DEF GoodTree

\* The common ancestor of two blocks.
LEMMA CommonExists ==
    ASSUME NEW x \in Blocks, NEW b \in Blocks
    PROVE  \E i \in 1..Len(Path[b]) : BC!IsCommon(x, b, i)
<1>1. PICK n \in Nat \ {0} : n = Len(Path[x])
    BY PathFacts
<1>2. PICK m \in Nat \ {0} : m = Len(Path[b])
    BY PathFacts
<1> DEFINE T == {q \in Nat : q < n /\ q < m + n /\ n - q \in 1..m /\ Path[x][n - q] = Path[b][n - q]}
<1>3. n - 1 \in T
    <2>1. PICK k \in Nat : k = n - 1
        BY <1>1
    <2>2. n - k = 1 /\ k < n /\ k < m + n /\ 1 \in 1..m
        BY <2>1
    <2>3. Path[x][1] = Path[b][1]
        BY PathFacts
    <2>4. k \in T
        BY <2>2, <2>3
    <2>5. QED
        BY <2>1, <2>4
<1>4. PICK q \in T : \A p \in T : q <= p
    BY <1>3, LeastNat
<1>5. PICK i \in Nat : i = n - q
    BY <1>4
<1>6. i \in 1..n /\ i \in 1..m /\ Path[x][i] = Path[b][i] /\ q = n - i
    BY <1>4, <1>5
<1>7. ASSUME NEW j \in i + 1 .. n, j \in 1..m, Path[x][j] = Path[b][j] PROVE FALSE
    <2>1. PICK p \in Nat : p = n - j
        BY <1>7
    <2>2. p < n /\ p < m + n /\ n - p = j /\ ~(q <= p)
        BY <1>6, <1>7, <2>1
    <2>3. p \in T
        BY <1>7, <2>2
    <2>4. QED
        BY <1>4, <2>2, <2>3
<1>8. BC!IsCommon(x, b, i)
    BY <1>1, <1>2, <1>6, <1>7 DEF BC!IsCommon
<1>9. QED
    BY <1>2, <1>6, <1>8

Common(x, b, i) ==
    /\ i \in 1..Len(Path[x]) /\ i \in 1..Len(Path[b]) /\ i \in Nat
    /\ Path[x][i] = Path[b][i]
    /\ \A k \in Nat : k >= i /\ k \in 1..Len(Path[x]) /\ k \in 1..Len(Path[b])
                         /\ Path[x][k] = Path[b][k] => k = i

LEMMA CommonFacts ==
    ASSUME NEW x \in Blocks, NEW b \in Blocks, NEW i, BC!IsCommon(x, b, i)
    PROVE  Common(x, b, i)
<1>1. /\ i \in 1..Len(Path[x]) /\ i \in 1..Len(Path[b]) /\ Path[x][i] = Path[b][i]
      /\ \A j \in i + 1 .. Len(Path[x]) : j \in 1..Len(Path[b]) => Path[x][j] # Path[b][j]
    BY DEF BC!IsCommon
<1>2. i \in Nat /\ Len(Path[x]) \in Nat /\ Len(Path[b]) \in Nat
    BY <1>1, PathFacts
<1>3. ASSUME NEW k \in Nat, k >= i, k \in 1..Len(Path[x]), k \in 1..Len(Path[b]), Path[x][k] = Path[b][k], k # i
      PROVE  FALSE
    <2>1. k \in i + 1 .. Len(Path[x])
        BY <1>2, <1>3
    <2>2. QED
        BY <1>1, <1>3, <2>1
<1>4. QED
    BY <1>1, <1>2, <1>3 DEF Common

\* Block Path[b][k], its parent and the block after it.
LEMMA PathStep ==
    ASSUME NEW b \in Blocks, NEW k \in 1..Len(Path[b]), NEW x, x = Path[b][k]
    PROVE  /\ x \in Blocks /\ Len(Path[x]) = k
           /\ k # 1 => x # Genesis /\ Parent(x) = Path[b][k - 1]
           /\ k < Len(Path[b]) => Path[b][k + 1] \in Blocks /\ Path[b][k + 1] # Genesis
                                  /\ Parent(Path[b][k + 1]) = x
           /\ k = Len(Path[b]) <=> x = b
<1>1. /\ Path[b] \in Seq(Blocks) /\ Len(Path[b]) \in Nat \ {0} /\ Path[b][Len(Path[b])] = b
      /\ \A i \in 1..Len(Path[b]) :
            /\ Path[b][i] \in Blocks
            /\ Path[Path[b][i]] = SubSeq(Path[b], 1, i)
            /\ Len(Path[Path[b][i]]) = i
    BY PathFacts
<1>2. x \in Blocks /\ Len(Path[x]) = k /\ Path[x] = SubSeq(Path[b], 1, k)
    BY <1>1
<1>3. Len(Path[Genesis]) = 1
    BY TreeAssumption DEF TreeAssumption
<1>4. ASSUME NEW j \in 1..Len(Path[b]), j # 1, NEW y, y = Path[b][j]
      PROVE  y # Genesis /\ Parent(y) = Path[b][j - 1]
    <2>1. Len(Path[y]) = j /\ Path[y] = SubSeq(Path[b], 1, j)
        BY <1>1, <1>4
    <2>2. y # Genesis
        BY <1>3, <1>4, <2>1
    <2>3. Path[y][j - 1] = Path[b][j - 1]
        BY <1>1, <1>4, <2>1
    <2>4. QED
        BY <2>1, <2>2, <2>3 DEF Parent
<1>5. ASSUME k < Len(Path[b])
      PROVE  Path[b][k + 1] \in Blocks /\ Path[b][k + 1] # Genesis /\ Parent(Path[b][k + 1]) = x
    <2>1. PICK j \in 1..Len(Path[b]) : j = k + 1
        BY <1>1, <1>5
    <2>2. j # 1 /\ j - 1 = k
        BY <2>1
    <2>3. Path[b][j] # Genesis /\ Parent(Path[b][j]) = Path[b][j - 1]
        BY <1>4, <2>2
    <2>4. QED
        BY <1>1, <2>1, <2>2, <2>3
<1>6. k = Len(Path[b]) <=> x = b
    BY <1>1, <1>2
<1>7. QED
    BY <1>2, <1>4, <1>5, <1>6

-----------------------------------------------------------------------------
(***************************************************************************)
(* A switch under way: from `before', block b with difficulty w was        *)
(* stored, i is the position of the common ancestor, and the tip is at or  *)
(* above it, on the old branch or on the redone part of the new one.       *)
(***************************************************************************)
OnOld(before, d, i) ==
    \E k \in i..Len(Path[BC!Tip(before)]) : BC!Tip(d) = Path[BC!Tip(before)][k]
OnNew(b, d, i) ==
    \E k \in i..Len(Path[b]) :
        BC!Tip(d) = Path[b][k] /\ \A j \in i + 1 .. k : Path[b][j] \in Redoable

SwitchAt(before, b, d, w, i) ==
    /\ GoodTree(before) /\ NewBlock(before, b, w)
    /\ before.cd[Parent(b)] + w > BC!TipCd(before)
    /\ BC!IsCommon(BC!Tip(before), b, i)
    /\ d = [BC!Stored(before, b, w) EXCEPT !.chain = d.chain]
    /\ OnOld(before, d, i) \/ OnNew(b, d, i)

OnBranchOf(b, x) == \E n \in DOMAIN Path[b] : Path[b][n] = x

LEMMA GoodTreeFacts ==
    ASSUME NEW d, GoodTree(d)
    PROVE  /\ IsDb(d) /\ IsRec(d) /\ Valid(BC!Tip(d)) /\ BC!Tip(d) \in Blocks
           /\ d.chain = Path[BC!Tip(d)]
           /\ d.chain \in Seq(Blocks) /\ Len(d.chain) \in Nat \ {0}
<1>1. IsDb(d) /\ IsRec(d) /\ Valid(BC!Tip(d)) /\ BC!Tip(d) \in Blocks /\ d.chain = Path[BC!Tip(d)]
    BY DEF GoodTree, IsDb, OnPath, Valid
<1>2. QED
    BY <1>1, PathFacts

\* Another chain table that leads to a valid block.
LEMMA GoodTreeMove ==
    ASSUME NEW d, GoodTree(d), NEW y, Valid(y), NEW e, e = [d EXCEPT !.chain = Path[y]]
    PROVE  GoodTree(e) /\ BC!Tip(e) = y /\ e.chain = Path[y]
<1>1. IsDb(d) /\ IsRec(d)
    BY GoodTreeFacts
<1>2. IsRec(e) /\ e.blocks = d.blocks /\ e.cd = d.cd /\ e.chain = Path[y]
    BY <1>1, ChainKeeps
<1>3. \A x : BC!Has(e, x) <=> BC!Has(d, x)
    BY <1>2 DEF BC!Has
<1>4. IsDb(e)
    BY <1>1, <1>2, <1>3 DEF IsDb
<1>5. y \in Blocks
    BY DEF Valid
<1>6. BC!Tip(e) = y
    BY <1>2, <1>5, PathFacts DEF BC!Tip
<1>7. QED
    BY <1>2, <1>4, <1>6 DEF GoodTree, OnPath

LEMMA SwitchStart ==
    ASSUME NEW d, GoodTree(d), NEW b, NEW w, NewBlock(d, b, w), NEW e, e = BC!Stored(d, b, w)
    PROVE  GoodTree(e) /\ BC!Tip(e) = BC!Tip(d) /\ e.chain = d.chain /\ IsRec(e)
<1>1. IsDb(d) /\ Valid(BC!Tip(d)) /\ d.chain = Path[BC!Tip(d)]
    BY GoodTreeFacts
<1>2. IsDb(e) /\ e.chain = d.chain
    BY <1>1, StoredFacts
<1>3. BC!Tip(e) = BC!Tip(d)
    BY <1>2 DEF BC!Tip
<1>4. QED
    BY <1>1, <1>2, <1>3 DEF GoodTree, OnPath, IsDb

LEMMA SwitchBegins ==
    ASSUME NEW d, GoodTree(d), NEW b, NEW w, NewBlock(d, b, w), NEW e, e = BC!Stored(d, b, w),
           d.cd[Parent(b)] + w > BC!TipCd(d)
    PROVE  \E i \in 1..Len(Path[b]) : SwitchAt(d, b, e, w, i)
<1>1. GoodTree(e) /\ BC!Tip(e) = BC!Tip(d) /\ e.chain = d.chain /\ IsRec(e)
    BY SwitchStart
<1>2. BC!Tip(d) \in Blocks /\ b \in Blocks
    BY GoodTreeFacts DEF NewBlock
<1>3. PICK i \in 1..Len(Path[b]) : BC!IsCommon(BC!Tip(d), b, i)
    BY <1>2, CommonExists
<1>4. PICK x \in Blocks : x = BC!Tip(d)
    BY <1>2
<1>5. i \in 1..Len(Path[x]) /\ Len(Path[x]) \in Nat /\ Path[x][Len(Path[x])] = x
    BY <1>2, <1>3, <1>4, CommonFacts, PathFacts DEF Common
<1>6. Len(Path[x]) \in i..Len(Path[x])
    BY <1>5
<1>7. OnOld(d, e, i)
    BY <1>1, <1>4, <1>5, <1>6 DEF OnOld
<1>8. e = [e EXCEPT !.chain = e.chain]
    BY <1>1, SameChain
<1>9. SwitchAt(d, b, e, w, i)
    BY <1>3, <1>7, <1>8 DEF SwitchAt
<1>10. QED
    BY <1>9

\* The rest of SwitchAt when only the tip moves.
LEMMA SwitchMove ==
    ASSUME NEW before, NEW b, NEW d, NEW w, NEW i, SwitchAt(before, b, d, w, i), GoodTree(d),
           NEW y, Valid(y), NEW e, e = [d EXCEPT !.chain = Path[y]],
           OnOld(before, e, i) \/ OnNew(b, e, i)
    PROVE  SwitchAt(before, b, e, w, i)
<1>1. PICK g : g = BC!Stored(before, b, w)
    OBVIOUS
<1>2. GoodTree(before) /\ NewBlock(before, b, w) /\ d = [g EXCEPT !.chain = d.chain]
    BY <1>1 DEF SwitchAt
<1>3. IsRec(g)
    BY <1>1, <1>2, SwitchStart
<1>4. IsRec(d)
    BY GoodTreeFacts
<1>5. e = [g EXCEPT !.chain = e.chain]
    BY <1>2, <1>3, <1>4, ChainOnly
<1>6. QED
    BY <1>1, <1>5 DEF SwitchAt

Popped(d) == [d EXCEPT !.chain = SubSeq(d.chain, 1, Len(d.chain) - 1)]

\* The tip is not on the new branch: it is above the common ancestor on the old one.
LEMMA SwitchUndo ==
    ASSUME NEW before, NEW b, NEW d, NEW w, NEW i, SwitchAt(before, b, d, w, i), GoodTree(d),
           ~OnBranchOf(b, BC!Tip(d)),
           NEW e, e = Popped(d)
    PROVE  /\ BC!Tip(d) # Genesis /\ GoodTree(e) /\ SwitchAt(before, b, e, w, i)
           /\ e.chain = Path[Parent(BC!Tip(d))]
<1>1. PICK x \in Blocks : x = BC!Tip(d)
    BY GoodTreeFacts
<1>2. GoodTree(before) /\ NewBlock(before, b, w) /\ BC!IsCommon(BC!Tip(before), b, i)
    BY DEF SwitchAt
<1>3. b \in Blocks
    BY <1>2 DEF NewBlock
<1>4. PICK t \in Blocks : t = BC!Tip(before)
    BY <1>2, GoodTreeFacts
<1>5. Common(t, b, i)
    BY <1>2, <1>3, <1>4, CommonFacts
<1>6. Path[b] \in Seq(Blocks) /\ DOMAIN Path[b] = 1..Len(Path[b]) /\ Path[b][1] = Genesis
      /\ Len(Path[b]) \in Nat \ {0} /\ Len(Path[t]) \in Nat \ {0}
    BY <1>3, PathFacts
<1>7. x # Genesis
    BY <1>1, <1>6 DEF OnBranchOf
<1>8. ~OnNew(b, d, i)
    <2>1. ASSUME NEW k \in i..Len(Path[b]), x = Path[b][k] PROVE FALSE
        <3>1. k \in 1..Len(Path[b])
            BY <1>5, <1>6 DEF Common
        <3>2. QED
            BY <1>1, <1>6, <2>1, <3>1 DEF OnBranchOf
    <2>2. QED
        BY <1>1, <2>1 DEF OnNew
<1>9. OnOld(before, d, i)
    BY <1>8 DEF SwitchAt
<1>10. PICK k \in i..Len(Path[t]) : x = Path[t][k]
    BY <1>1, <1>4, <1>9 DEF OnOld
<1>11. i \in Nat /\ i >= 1 /\ i \in 1..Len(Path[b]) /\ Path[t][i] = Path[b][i]
    BY <1>5 DEF Common
<1>12. k # i
    BY <1>1, <1>6, <1>10, <1>11 DEF OnBranchOf
<1>13. k \in 1..Len(Path[t]) /\ k # 1
    BY <1>6, <1>10, <1>11, <1>12
<1>14. Parent(x) = Path[t][k - 1]
    BY <1>10, <1>13, PathStep
<1>15. PICK p \in Blocks : p = Parent(x)
    BY <1>7, ParentFacts
<1>16. Valid(x) /\ d.chain = Path[x]
    BY <1>1, GoodTreeFacts
<1>17. Valid(p)
    BY <1>7, <1>15, <1>16, ValidParent
<1>18. SubSeq(d.chain, 1, Len(d.chain) - 1) = Path[p]
    <2>1. Path[x] = Append(Path[p], x) /\ Path[p] \in Seq(Blocks)
        BY <1>7, <1>15, ParentFacts, PathFacts
    <2>2. PICK s \in Seq(Blocks) : s = Path[p]
        BY <2>1
    <2>3. SubSeq(Append(s, x), 1, Len(Append(s, x)) - 1) = s
        OBVIOUS
    <2>4. QED
        BY <1>16, <2>1, <2>2, <2>3
<1>19. e = [d EXCEPT !.chain = Path[p]]
    BY <1>18 DEF Popped
<1>20. GoodTree(e) /\ BC!Tip(e) = p /\ e.chain = Path[p]
    BY <1>17, <1>19, GoodTreeMove
<1>21. OnOld(before, e, i)
    <2>1. PICK j \in Nat : j = k - 1
        BY <1>13
    <2>2. j \in i..Len(Path[t])
        BY <1>6, <1>10, <1>11, <1>12, <2>1
    <2>3. QED
        BY <1>4, <1>14, <1>15, <1>20, <2>1, <2>2 DEF OnOld
<1>22. SwitchAt(before, b, e, w, i)
    BY <1>17, <1>19, <1>21, SwitchMove
<1>23. QED
    BY <1>1, <1>7, <1>15, <1>20, <1>22

\* Where the tip is when it is on the new branch.
LEMMA SwitchBranch ==
    ASSUME NEW before, NEW b, NEW d, NEW w, NEW i, SwitchAt(before, b, d, w, i), GoodTree(d),
           OnBranchOf(b, BC!Tip(d))
    PROVE  \E k \in i..Len(Path[b]) :
              /\ k \in 1..Len(Path[b])
              /\ BC!Tip(d) = Path[b][k] /\ Len(d.chain) = k
              /\ \A j \in i + 1 .. k : Path[b][j] \in Redoable
<1>1. PICK x \in Blocks : x = BC!Tip(d)
    BY GoodTreeFacts
<1>2. GoodTree(before) /\ NewBlock(before, b, w) /\ BC!IsCommon(BC!Tip(before), b, i)
    BY DEF SwitchAt
<1>3. b \in Blocks
    BY <1>2 DEF NewBlock
<1>4. PICK t \in Blocks : t = BC!Tip(before)
    BY <1>2, GoodTreeFacts
<1>5. Common(t, b, i)
    BY <1>2, <1>3, <1>4, CommonFacts
<1>6. Path[b] \in Seq(Blocks) /\ DOMAIN Path[b] = 1..Len(Path[b])
      /\ Len(Path[b]) \in Nat \ {0} /\ Len(Path[t]) \in Nat \ {0}
    BY <1>3, PathFacts
<1>7. PICK n \in 1..Len(Path[b]) : Path[b][n] = x
    BY <1>1, <1>6 DEF OnBranchOf
<1>8. Len(Path[x]) = n /\ d.chain = Path[x]
    BY <1>1, <1>3, <1>7, PathFacts, GoodTreeFacts
<1>9. i \in Nat /\ i >= 1
    BY <1>5 DEF Common
<1>10. CASE OnOld(before, d, i)
    <2>1. PICK k \in i..Len(Path[t]) : x = Path[t][k]
        BY <1>1, <1>4, <1>10 DEF OnOld
    <2>2. k \in 1..Len(Path[t]) /\ k \in Nat
        BY <1>6, <1>9
    <2>3. Len(Path[x]) = k
        BY <2>1, <2>2, PathFacts
    <2>4. k = n
        BY <1>8, <2>3
    <2>5. k = i
        BY <1>5, <1>7, <2>1, <2>2, <2>4 DEF Common
    <2>6. n \in i..Len(Path[b]) /\ i + 1 .. n = {}
        BY <1>6, <1>7, <1>9, <2>4, <2>5
    <2>7. QED
        BY <1>1, <1>7, <1>8, <2>6
<1>11. CASE OnNew(b, d, i)
    <2>1. PICK k \in i..Len(Path[b]) : x = Path[b][k] /\ \A j \in i + 1 .. k : Path[b][j] \in Redoable
        BY <1>1, <1>11 DEF OnNew
    <2>2. k \in 1..Len(Path[b])
        BY <1>6, <1>9
    <2>3. Len(Path[x]) = k
        BY <1>3, <2>1, <2>2, PathFacts
    <2>4. QED
        BY <1>1, <1>8, <2>1, <2>2, <2>3
<1>12. QED
    BY <1>10, <1>11 DEF SwitchAt

\* The block after the tip on the new branch.
LEMMA SwitchNext ==
    ASSUME NEW before, NEW b, NEW d, NEW w, NEW i, SwitchAt(before, b, d, w, i), GoodTree(d),
           OnBranchOf(b, BC!Tip(d)), BC!Tip(d) # b, NEW x, x = Path[b][Len(d.chain) + 1]
    PROVE  /\ x \in Blocks /\ x # Genesis /\ Parent(x) = BC!Tip(d)
           /\ CanRedo(Replay(d.chain), x) <=> x \in Redoable
<1>1. PICK k \in i..Len(Path[b]) :
              /\ k \in 1..Len(Path[b])
              /\ BC!Tip(d) = Path[b][k] /\ Len(d.chain) = k
              /\ \A j \in i + 1 .. k : Path[b][j] \in Redoable
    BY SwitchBranch
<1>2. b \in Blocks
    BY DEF SwitchAt, NewBlock
<1>3. Len(Path[b]) \in Nat \ {0} /\ Path[b][Len(Path[b])] = b
    BY <1>2, PathFacts
<1>4. k < Len(Path[b])
    BY <1>1, <1>3
<1>5. PICK y : y = Path[b][k]
    OBVIOUS
<1>6. x \in Blocks /\ x # Genesis /\ Parent(x) = y
    BY <1>1, <1>2, <1>4, <1>5, PathStep
<1>7. d.chain = Path[Parent(x)]
    BY <1>1, <1>5, <1>6, GoodTreeFacts
<1>8. CanRedo(Replay(d.chain), x) <=> x \in Redoable
    BY <1>6, <1>7, Zenon DEF Redoable
<1>9. QED
    BY <1>1, <1>5, <1>6, <1>8

LEMMA SwitchRedo ==
    ASSUME NEW before, NEW b, NEW d, NEW w, NEW i, SwitchAt(before, b, d, w, i), GoodTree(d),
           OnBranchOf(b, BC!Tip(d)), BC!Tip(d) # b, NEW x, x = Path[b][Len(d.chain) + 1],
           CanRedo(Replay(d.chain), x), NEW e, e = BC!PushChain(d, x)
    PROVE  /\ Next1(d.chain, x) /\ GoodTree(e) /\ SwitchAt(before, b, e, w, i)
           /\ e.chain = Append(d.chain, x)
<1>1. x \in Blocks /\ x # Genesis /\ Parent(x) = BC!Tip(d) /\ x \in Redoable
    BY SwitchNext
<1>2. d.chain = Path[Parent(x)] /\ Valid(Parent(x))
    BY <1>1, GoodTreeFacts
<1>3. Valid(x)
    BY <1>1, <1>2, ValidChild
<1>4. Next1(d.chain, x) /\ Path[x] = Append(d.chain, x)
    BY <1>1, <1>2, <1>3, ValidNext
<1>5. e = [d EXCEPT !.chain = Path[x]]
    BY <1>4 DEF BC!PushChain
<1>6. GoodTree(e) /\ BC!Tip(e) = x /\ e.chain = Path[x]
    BY <1>3, <1>5, GoodTreeMove
<1>7. OnNew(b, e, i)
    <2>1. PICK k \in i..Len(Path[b]) :
              /\ k \in 1..Len(Path[b])
              /\ BC!Tip(d) = Path[b][k] /\ Len(d.chain) = k
              /\ \A j \in i + 1 .. k : Path[b][j] \in Redoable
        BY SwitchBranch
    <2>2. b \in Blocks
        BY DEF SwitchAt, NewBlock
    <2>3. Len(Path[b]) \in Nat \ {0} /\ Path[b][Len(Path[b])] = b
        BY <2>2, PathFacts
    <2>4. PICK t \in Blocks : t = BC!Tip(before) /\ BC!IsCommon(t, b, i)
        BY GoodTreeFacts DEF SwitchAt
    <2>5. i \in Nat
        BY <2>2, <2>4, CommonFacts DEF Common
    <2>6. PICK m \in Nat : m = k + 1
        BY <2>1, <2>3
    <2>7. m \in i..Len(Path[b]) /\ \A j \in i + 1 .. m : j \in i + 1 .. k \/ j = m
        BY <2>1, <2>3, <2>5, <2>6
    <2>8. Path[b][m] = x
        BY <2>1, <2>6
    <2>9. QED
        BY <1>1, <1>6, <2>1, <2>7, <2>8 DEF OnNew
<1>8. SwitchAt(before, b, e, w, i)
    BY <1>3, <1>5, <1>7, SwitchMove
<1>9. QED
    BY <1>4, <1>6, <1>8

\* The switch ends where the abstract add_block says.
LEMMA SwitchEnd ==
    ASSUME NEW before, NEW b, NEW d, NEW w, NEW i, SwitchAt(before, b, d, w, i), GoodTree(d),
           OnBranchOf(b, BC!Tip(d)),
           BC!Tip(d) # b => ~CanRedo(Replay(d.chain), Path[b][Len(d.chain) + 1])
    PROVE  /\ BC!IsRedoneTip(b, i, BC!Tip(d))
           /\ d = BC!SwitchedTo(BC!Stored(before, b, w), BC!Tip(d))
           /\ \A j \in i + 1 .. Len(Path[b]) : Path[b][j] \in before.blocks \cup {b}
           /\ Parent(b) = BC!Tip(before) => (BC!Tip(d) # b <=> b \notin Redoable)
<1>1. PICK k \in i..Len(Path[b]) :
              /\ k \in 1..Len(Path[b])
              /\ BC!Tip(d) = Path[b][k] /\ Len(d.chain) = k
              /\ \A j \in i + 1 .. k : Path[b][j] \in Redoable
    BY SwitchBranch
<1>2. GoodTree(before) /\ NewBlock(before, b, w) /\ BC!IsCommon(BC!Tip(before), b, i)
    BY DEF SwitchAt
<1>3. b \in Blocks /\ b # Genesis /\ BC!Has(before, Parent(b))
    BY <1>2 DEF NewBlock
<1>4. PICK x \in Blocks : x = BC!Tip(d)
    BY GoodTreeFacts
<1>5. Len(Path[b]) \in Nat \ {0} /\ Path[b][Len(Path[b])] = b
    BY <1>3, PathFacts
<1>6. (k = Len(Path[b])) <=> (x = b)
    BY <1>1, <1>3, <1>4, PathStep
<1>7. k < Len(Path[b]) => Path[b][k + 1] \notin Redoable
    <2>1. SUFFICES ASSUME k < Len(Path[b]) PROVE Path[b][k + 1] \notin Redoable
        OBVIOUS
    <2>2. x # b
        BY <1>1, <1>6, <2>1
    <2>3. PICK y : y = Path[b][Len(d.chain) + 1]
        OBVIOUS
    <2>4. CanRedo(Replay(d.chain), y) <=> y \in Redoable
        BY <1>4, <2>2, <2>3, SwitchNext
    <2>5. ~CanRedo(Replay(d.chain), y)
        BY <1>4, <2>2, <2>3
    <2>6. QED
        BY <1>1, <2>3, <2>4, <2>5
<1>8. BC!IsRedoneTip(b, i, x)
    BY <1>1, <1>4, <1>7 DEF BC!IsRedoneTip
<1>9. d = BC!SwitchedTo(BC!Stored(before, b, w), x)
    <2>1. d.chain = Path[x]
        BY <1>4, GoodTreeFacts
    <2>2. d = [BC!Stored(before, b, w) EXCEPT !.chain = d.chain]
        BY DEF SwitchAt
    <2>3. QED
        BY <2>1, <2>2 DEF BC!SwitchedTo
<1>10. PICK p \in Blocks : p = Parent(b)
    BY <1>3, ParentFacts
<1>11. /\ Path[b] = Append(Path[p], b) /\ Path[p] \in Seq(Blocks)
       /\ Len(Path[p]) = Len(Path[b]) - 1
       /\ Len(Path[p]) \in Nat \ {0} /\ Path[p][Len(Path[p])] = p
    BY <1>3, <1>10, ParentFacts, PathFacts
<1>12. PICK t \in Blocks : t = BC!Tip(before)
    BY <1>2, GoodTreeFacts
<1>13. Common(t, b, i)
    BY <1>2, <1>3, <1>12, CommonFacts
<1>14. i \in Nat /\ i >= 1 /\ i \in 1..Len(Path[t]) /\ i \in 1..Len(Path[b])
    BY <1>13 DEF Common
<1>15. ASSUME NEW j \in i + 1 .. Len(Path[b]) PROVE Path[b][j] \in before.blocks \cup {b}
    <2>1. CASE j = Len(Path[b])
        BY <1>5, <2>1
    <2>2. CASE j # Len(Path[b])
        <3>1. j \in 1..Len(Path[p]) /\ Path[b][j] = Path[p][j]
            BY <1>11, <1>14, <2>2
        <3>2. Path[p][j] \in Blocks
            BY <3>1, PathFacts
        <3>3. IsDb(before)
            BY <1>2, GoodTreeFacts
        <3>4. BC!Has(before, Path[p][j])
            BY <1>3, <1>10, <3>1, <3>3 DEF IsDb
        <3>5. Path[p][j] \in before.blocks
            BY <3>2, <3>3, <3>4 DEF IsDb
        <3>6. QED
            BY <3>1, <3>5
    <2>3. QED
        BY <2>1, <2>2
<1>16. ASSUME p = t PROVE (x # b <=> b \notin Redoable)
    <2>1. PICK n \in Nat : n = Len(Path[p])
        BY <1>11
    <2>2. n \in 1..Len(Path[t]) /\ n \in 1..Len(Path[b]) /\ Path[t][n] = Path[b][n] /\ n >= i
        BY <1>11, <1>14, <1>16, <2>1
    <2>3. n = i
        BY <1>13, <2>2 DEF Common
    <2>4. k = n \/ k = Len(Path[b])
        BY <1>1, <1>11, <1>14, <2>1, <2>3
    <2>5. CASE x = b
        <3>1. k = Len(Path[b]) /\ k \in i + 1 .. k
            BY <1>6, <1>11, <1>14, <2>1, <2>3, <2>5
        <3>2. QED
            BY <1>1, <1>5, <2>5, <3>1
    <2>6. CASE x # b
        <3>1. k = n /\ k < Len(Path[b]) /\ k + 1 = Len(Path[b])
            BY <1>6, <1>11, <2>1, <2>4, <2>6
        <3>2. QED
            BY <1>5, <1>7, <2>6, <3>1
    <2>7. QED
        BY <2>5, <2>6
<1>17. QED
    BY <1>4, <1>8, <1>9, <1>10, <1>12, <1>15, <1>16

-----------------------------------------------------------------------------
(***************************************************************************)
(* The invariant.                                                          *)
(***************************************************************************)
LedgerOk ==
    /\ GoodTree(tree) /\ ledger = Replay(tree.chain)
    /\ Exact(tree.chain, gi) /\ gi = [a \in Amounts |-> gi[a]]

DiskOk(k) ==
    /\ k = [tree |-> k.tree, ledger |-> k.ledger]
    /\ \/ k.tree = NoDb /\ k.ledger = EmptyLedger
       \/ GoodTree(k.tree) /\ k.ledger = Replay(k.tree.chain)

JobOk ==
    \/ job = Idle
    \/ /\ job.phase = "switch"
       /\ \E w \in Difficulty[job.block] : \E i \in 1..Len(Path[job.block]) :
             SwitchAt(job.before, job.block, tree, w, i)
    \/ job.phase = "exit"

Inv == LedgerOk /\ DiskOk(disk) /\ JobOk

Unset == [a \in Amounts |-> Unknown]

LEMMA GenesisLedger ==
    /\ Genesised(EmptyLedger) = Replay(<<Genesis>>)
    /\ Exact(<<Genesis>>, Counted(EmptyLedger, Unset, Genesis, 1))
<1>1. Next1(<<>>, Genesis) /\ Fits(<<>>, Genesis)
    BY GenesisNext DEF Next1
<1>2. PICK g : g = Unset
    OBVIOUS
<1>3. Exact(<<>>, g)
    BY <1>2 DEF Exact, Unset
<1>4. Append(<<>>, Genesis) = <<Genesis>>
    OBVIOUS
<1>5. RedoBlock(Replay(<<>>), g, Genesis) = Replay(Append(<<>>, Genesis))
    BY <1>1, <1>3, RedoIsReplay
<1>6. Exact(Append(<<>>, Genesis), Counted(EmptyLedger, g, Genesis, 1))
    BY <1>1, <1>3, EmptyIsReplay, CountedRedo
<1>7. Genesised(EmptyLedger) = RedoBlock(EmptyLedger, g, Genesis)
    BY <1>2, Zenon DEF Genesised, Unset
<1>8. QED
    BY <1>2, <1>4, <1>5, <1>6, <1>7, EmptyIsReplay, Zenon

LEMMA CountedIsFunction ==
    ASSUME NEW l, NEW g, NEW b, NEW n, NEW h, h = Counted(l, g, b, n)
    PROVE  h = [a \in Amounts |-> h[a]]
    BY DEF Counted

LEMMA NoDbFacts == NoDb.chain = <<>>
    BY DEF NoDb, BC!EmptyDb

LEMMA IdlePhase == Idle.phase = "idle"
    BY DEF Idle

\* A database that was opened: an empty one gets the genesis block.
LEMMA OpenedOk ==
    ASSUME NEW k, DiskOk(k), NEW e, BC!Opened(k.tree, e),
           NEW l, l = IF k.tree.chain = <<>> THEN Genesised(k.ledger) ELSE k.ledger,
           NEW g, g = IF k.tree.chain = <<>> THEN Counted(k.ledger, Unset, Genesis, 1) ELSE Unset
    PROVE  GoodTree(e) /\ l = Replay(e.chain) /\ Exact(e.chain, g) /\ g = [a \in Amounts |-> g[a]]
<1>1. CASE k.tree = NoDb /\ k.ledger = EmptyLedger
    <2>1. k.tree.chain = <<>>
        BY <1>1, NoDbFacts
    <2>2. PICK w \in Difficulty[Genesis] : e = BC!AddGenesis(NoDb, w)
        BY <1>1, <2>1 DEF BC!Opened
    <2>3. GoodTree(e) /\ e.chain = <<Genesis>>
        BY <2>2, GenesisTree
    <2>4. l = Genesised(EmptyLedger) /\ g = Counted(EmptyLedger, Unset, Genesis, 1)
        BY <1>1, <2>1, Zenon
    <2>5. l = Replay(<<Genesis>>) /\ Exact(<<Genesis>>, g)
        BY <2>4, GenesisLedger, Zenon
    <2>6. g = [a \in Amounts |-> g[a]]
        BY <2>4, CountedIsFunction
    <2>7. QED
        BY <2>3, <2>5, <2>6, Zenon
<1>2. CASE GoodTree(k.tree) /\ k.ledger = Replay(k.tree.chain)
    <2>1. k.tree.chain \in Seq(Blocks) /\ Len(k.tree.chain) \in Nat \ {0}
        BY <1>2, GoodTreeFacts
    <2>2. k.tree.chain # <<>>
        BY <2>1
    <2>3. e = k.tree
        BY <2>2 DEF BC!Opened
    <2>4. l = k.ledger /\ g = Unset
        BY <2>2, Zenon
    <2>5. Exact(e.chain, g) /\ g = [a \in Amounts |-> g[a]]
        BY <2>4 DEF Exact, Unset
    <2>6. QED
        BY <1>2, <2>3, <2>4, <2>5
<1>3. QED
    BY <1>1, <1>2 DEF DiskOk

LEMMA InvInit == Init => Inv
<1>1. SUFFICES ASSUME Init PROVE Inv
    OBVIOUS
<1>2. disk = [tree |-> NoDb, ledger |-> EmptyLedger] /\ job = Idle
    BY <1>1 DEF Init, NoDb
<1>3. disk.tree = NoDb /\ disk.ledger = EmptyLedger /\ DiskOk(disk)
    BY <1>2 DEF DiskOk
<1>4. PICK w \in Difficulty[Genesis] : tree = BC!AddGenesis(NoDb, w)
    BY <1>1, <1>3 DEF Init
<1>5. GoodTree(tree) /\ tree.chain = <<Genesis>>
    BY <1>4, GenesisTree
<1>6. ledger = Genesised(EmptyLedger) /\ gi = Counted(EmptyLedger, Unset, Genesis, 1)
    BY <1>1, <1>3, Zenon DEF Init, Unset
<1>7. ledger = Replay(<<Genesis>>) /\ Exact(<<Genesis>>, gi)
    BY <1>6, GenesisLedger, Zenon
<1>8. gi = [a \in Amounts |-> gi[a]]
    BY <1>6, CountedIsFunction
<1>9. LedgerOk
    BY <1>5, <1>7, <1>8, Zenon DEF LedgerOk
<1>10. QED
    BY <1>2, <1>3, <1>9 DEF Inv, JobOk

LEMMA JobPhase ==
    ASSUME JobOk
    PROVE  /\ job.phase = "idle" => job = Idle
           /\ job.phase = "switch" =>
                 \E w \in Difficulty[job.block] : \E i \in 1..Len(Path[job.block]) :
                     SwitchAt(job.before, job.block, tree, w, i)
           /\ job.phase \in {"idle", "switch", "exit"}
    BY IdlePhase DEF JobOk

\* What BlockChain calls Processable and Heavier, in terms of the tables.
LEMMA ProcessableIs ==
    ASSUME NEW b \in Blocks, NEW w \in Difficulty[b], NEW d,
           d = IF job.phase = "idle" THEN tree ELSE job.before
    PROVE  /\ BC!Processable(b) <=> NewBlock(d, b, w)
           /\ BC!Heavier(b, w) <=> d.cd[Parent(b)] + w > BC!TipCd(d)
<1>1. BC!Parent(b) = Parent(b)
    BY DEF BC!Parent, Parent
<1>2. BC!Processable(b) <=> (~(b \in d.blocks /\ BC!Has(d, b)) /\ b # Genesis /\ BC!Has(d, Parent(b)))
    BY <1>1 DEF BC!Processable
<1>3. BC!Heavier(b, w) <=> d.cd[Parent(b)] + w > BC!TipCd(d)
    BY <1>1 DEF BC!Heavier
<1>4. QED
    BY <1>2, <1>3 DEF NewBlock

LEMMA CommitsOk ==
    ASSUME DiskOk(disk), LedgerOk', NEW ban, Commits(ban)
    PROVE  DiskOk(disk')
<1>1. disk' = disk \/ disk' = [tree |-> tree', ledger |-> ledger']
    BY DEF Commits
<1>2. CASE disk' = disk
    BY <1>2 DEF DiskOk
<1>3. CASE disk' = [tree |-> tree', ledger |-> ledger']
    <2>1. disk'.tree = tree' /\ disk'.ledger = ledger'
        BY <1>3
    <2>2. GoodTree(tree') /\ ledger' = Replay(tree'.chain)
        BY DEF LedgerOk
    <2>3. QED
        BY <1>3, <2>1, <2>2 DEF DiskOk
<1>4. QED
    BY <1>1, <1>2, <1>3

LEMMA StepSide ==
    ASSUME Inv, NEW b \in Blocks, NEW w \in Difficulty[b], AddSideBlock(b, w)
    PROVE  Inv'
<1>1. /\ job.phase = "idle" /\ BC!Processable(b) /\ tree' = BC!Stored(tree, b, w)
      /\ UNCHANGED <<ledger, gi, job, crashes>> /\ Commits(FALSE)
    BY DEF AddSideBlock
<1>2. LedgerOk /\ DiskOk(disk) /\ job = Idle
    BY <1>1, JobPhase DEF Inv
<1>3. NewBlock(tree, b, w)
    BY <1>1, ProcessableIs
<1>4. GoodTree(tree') /\ tree'.chain = tree.chain
    BY <1>1, <1>2, <1>3, SwitchStart DEF LedgerOk
<1>5. LedgerOk'
    BY <1>1, <1>2, <1>4 DEF LedgerOk
<1>6. DiskOk(disk')
    BY <1>1, <1>2, <1>5, CommitsOk
<1>7. JobOk'
    BY <1>1, <1>2 DEF JobOk, Idle
<1>8. QED
    BY <1>5, <1>6, <1>7 DEF Inv

LEMMA StepStart ==
    ASSUME Inv, NEW b \in Blocks, NEW w \in Difficulty[b], StartSwitch(b, w)
    PROVE  Inv'
<1>1. /\ job.phase = "idle" /\ BC!Processable(b) /\ BC!Heavier(b, w) /\ tree' = BC!Stored(tree, b, w)
      /\ job' = [phase |-> "switch", block |-> b, before |-> tree]
      /\ UNCHANGED <<ledger, gi, disk, crashes>>
    BY DEF StartSwitch
<1>2. LedgerOk /\ DiskOk(disk)
    BY DEF Inv
<1>3. NewBlock(tree, b, w) /\ tree.cd[Parent(b)] + w > BC!TipCd(tree)
    BY <1>1, ProcessableIs
<1>4. GoodTree(tree') /\ tree'.chain = tree.chain
    BY <1>1, <1>2, <1>3, SwitchStart DEF LedgerOk
<1>5. LedgerOk'
    BY <1>1, <1>2, <1>4 DEF LedgerOk
<1>6. PICK i \in 1..Len(Path[b]) : SwitchAt(tree, b, tree', w, i)
    BY <1>1, <1>2, <1>3, SwitchBegins DEF LedgerOk
<1>7. job'.phase = "switch" /\ job'.block = b /\ job'.before = tree
    BY <1>1
<1>8. JobOk'
    BY <1>6, <1>7 DEF JobOk
<1>9. QED
    BY <1>1, <1>2, <1>5, <1>8 DEF Inv

LEMMA BranchIs ==
    OnBranch <=> OnBranchOf(job.block, BC!Tip(tree))
    BY DEF OnBranch, OnBranchOf

LEMMA StepUndo ==
    ASSUME Inv, Undo
    PROVE  Inv'
<1>1. PICK x : x = BC!Tip(tree)
    OBVIOUS
<1>2. /\ job.phase = "switch" /\ ~OnBranchOf(job.block, BC!Tip(tree))
      /\ ledger' = UndoBlock(ledger, x) /\ gi' = Counted(ledger, gi, x, -1)
      /\ tree' = [tree EXCEPT !.chain = SubSeq(tree.chain, 1, Len(tree.chain) - 1)]
      /\ UNCHANGED <<disk, job, crashes>>
    BY <1>1, BranchIs DEF Undo
<1>3. LedgerOk /\ DiskOk(disk) /\ GoodTree(tree)
    BY DEF Inv, LedgerOk
<1>4. PICK w \in Difficulty[job.block], i \in 1..Len(Path[job.block]) :
         SwitchAt(job.before, job.block, tree, w, i)
    BY <1>2, JobPhase DEF Inv
<1>5. x # Genesis /\ GoodTree(tree') /\ SwitchAt(job.before, job.block, tree', w, i)
      /\ tree'.chain = Path[Parent(x)]
    <2>1. PICK before, b, d, e : before = job.before /\ b = job.block /\ d = tree /\ e = tree'
        OBVIOUS
    <2>2. SwitchAt(before, b, d, w, i) /\ GoodTree(d) /\ ~OnBranchOf(b, BC!Tip(d))
        BY <1>2, <1>3, <1>4, <2>1
    <2>3. e = Popped(d)
        BY <1>2, <2>1 DEF Popped
    <2>4. /\ BC!Tip(d) # Genesis /\ GoodTree(e) /\ SwitchAt(before, b, e, w, i)
          /\ e.chain = Path[Parent(BC!Tip(d))]
        BY <2>2, <2>3, SwitchUndo
    <2>5. QED
        BY <1>1, <2>1, <2>4
<1>6. Valid(x) /\ tree.chain = Path[x]
    BY <1>1, <1>3, GoodTreeFacts
<1>7. PICK c : c = Path[Parent(x)]
    OBVIOUS
<1>8. Next1(c, x) /\ Path[x] = Append(c, x)
    BY <1>5, <1>6, <1>7, ValidNext
<1>9. ledger = Replay(Append(c, x)) /\ Exact(Append(c, x), gi)
    BY <1>3, <1>6, <1>8 DEF LedgerOk
<1>10. ledger' = Replay(c)
    BY <1>2, <1>8, <1>9, UndoIsReplay
<1>11. Fits(c, x)
    BY <1>8 DEF Next1
<1>12. Exact(c, gi') /\ gi' = [a \in Amounts |-> gi'[a]]
    BY <1>2, <1>9, <1>11, CountedUndo, CountedIsFunction
<1>13. LedgerOk'
    BY <1>5, <1>7, <1>10, <1>12 DEF LedgerOk
<1>14. JobOk'
    BY <1>2, <1>4, <1>5 DEF JobOk
<1>15. QED
    BY <1>2, <1>3, <1>13, <1>14 DEF Inv

LEMMA StepRedo ==
    ASSUME Inv, Redo
    PROVE  Inv'
<1>1. PICK x : x = Path[job.block][Len(tree.chain) + 1]
    OBVIOUS
<1>2. /\ job.phase = "switch" /\ OnBranchOf(job.block, BC!Tip(tree)) /\ BC!Tip(tree) # job.block
      /\ CanRedo(ledger, x) /\ ledger' = RedoBlock(ledger, gi, x) /\ gi' = Counted(ledger, gi, x, 1)
      /\ tree' = BC!PushChain(tree, x) /\ UNCHANGED <<disk, job, crashes>>
    BY <1>1, BranchIs DEF Redo, NextBlock
<1>3. LedgerOk /\ DiskOk(disk) /\ GoodTree(tree) /\ ledger = Replay(tree.chain) /\ Exact(tree.chain, gi)
    BY DEF Inv, LedgerOk
<1>4. PICK w \in Difficulty[job.block], i \in 1..Len(Path[job.block]) :
         SwitchAt(job.before, job.block, tree, w, i)
    BY <1>2, JobPhase DEF Inv
<1>5. /\ Next1(tree.chain, x) /\ GoodTree(tree') /\ SwitchAt(job.before, job.block, tree', w, i)
      /\ tree'.chain = Append(tree.chain, x)
    <2>1. PICK d, e, l, bf, b : d = tree /\ e = tree' /\ l = ledger /\ bf = job.before /\ b = job.block
        OBVIOUS
    <2>2. SwitchAt(bf, b, d, w, i) /\ GoodTree(d) /\ OnBranchOf(b, BC!Tip(d)) /\ BC!Tip(d) # b
        BY <1>2, <1>3, <1>4, <2>1, Zenon
    <2>3. x = Path[b][Len(d.chain) + 1] /\ CanRedo(Replay(d.chain), x) /\ e = BC!PushChain(d, x)
        BY <1>1, <1>2, <1>3, <2>1, Zenon
    <2>4. /\ Next1(d.chain, x) /\ GoodTree(e) /\ SwitchAt(bf, b, e, w, i)
          /\ e.chain = Append(d.chain, x)
        BY <2>2, <2>3, SwitchRedo
    <2>5. QED
        BY <2>1, <2>4, Zenon
<1>6. ledger' = Replay(tree'.chain)
    <2>1. PICK l, c : l = ledger /\ c = tree.chain
        OBVIOUS
    <2>2. RedoBlock(l, gi, x) = Replay(Append(c, x))
        BY <2>1, <1>3, <1>5, RedoIsReplay
    <2>3. QED
        BY <1>2, <1>5, <2>1, <2>2, Zenon
<1>7. Exact(tree'.chain, gi') /\ gi' = [a \in Amounts |-> gi'[a]]
    BY <1>2, <1>3, <1>5, CountedRedo, CountedIsFunction DEF Next1
<1>8. LedgerOk'
    BY <1>5, <1>6, <1>7 DEF LedgerOk
<1>9. JobOk'
    BY <1>2, <1>4, <1>5 DEF JobOk
<1>10. QED
    BY <1>2, <1>3, <1>8, <1>9 DEF Inv

LEMMA StepEnd ==
    ASSUME Inv, EndSwitch
    PROVE  Inv'
<1>1. /\ job' = Idle /\ UNCHANGED <<tree, ledger, gi, crashes>>
      /\ Commits(BC!Tip(tree) # job.block /\ Parent(job.block) = BC!Tip(job.before))
    BY DEF EndSwitch
<1>2. LedgerOk /\ DiskOk(disk)
    BY DEF Inv
<1>3. LedgerOk'
    BY <1>1, <1>2 DEF LedgerOk
<1>4. DiskOk(disk')
    BY <1>1, <1>2, <1>3, CommitsOk
<1>5. JobOk'
    BY <1>1 DEF JobOk, Idle
<1>6. QED
    BY <1>3, <1>4, <1>5 DEF Inv

LEMMA StepExit ==
    ASSUME Inv, ExitProcess
    PROVE  Inv'
<1>1. /\ job' = [phase |-> "exit", block |-> job.block, before |-> job.before]
      /\ UNCHANGED <<tree, ledger, gi, disk, crashes>>
    BY DEF ExitProcess
<1>2. LedgerOk /\ DiskOk(disk)
    BY DEF Inv
<1>3. LedgerOk' /\ DiskOk(disk')
    BY <1>1, <1>2 DEF LedgerOk
<1>4. JobOk'
    BY <1>1 DEF JobOk
<1>5. QED
    BY <1>3, <1>4 DEF Inv

LEMMA StepLookUp ==
    ASSUME Inv, NEW a \in Amounts, LookUp(a)
    PROVE  Inv'
<1>1. /\ gi' = [gi EXCEPT ![a] = NextGlobalIndex(ledger, gi, a)]
      /\ UNCHANGED <<tree, ledger, disk, job, crashes>>
    BY DEF LookUp
<1>2. LedgerOk /\ DiskOk(disk) /\ JobOk
    BY DEF Inv
<1>3. /\ GoodTree(tree) /\ ledger = Replay(tree.chain) /\ Exact(tree.chain, gi)
      /\ gi = [x \in Amounts |-> gi[x]]
    BY <1>2 DEF LedgerOk
<1>4. tree.chain \in Seq(Blocks)
    BY <1>3, GoodTreeFacts
<1>5. NextGlobalIndex(ledger, gi, a) = Len(ChainOuts(tree.chain, a))
    BY <1>3, <1>4, NextIs
<1>6. ASSUME NEW x \in Amounts
      PROVE  gi'[x] = Unknown \/ gi'[x] = Len(ChainOuts(tree.chain, x))
    <2>1. CASE x = a
        BY <1>1, <1>3, <1>5, <2>1
    <2>2. CASE x # a
        <3>1. gi'[x] = gi[x]
            BY <1>1, <1>3, <2>2
        <3>2. QED
            BY <1>3, <3>1, Zenon DEF Exact
    <2>3. QED
        BY <2>1, <2>2
<1>7. gi' = [x \in Amounts |-> gi'[x]]
    BY <1>1, <1>3
<1>8. LedgerOk'
    BY <1>1, <1>2, <1>6, <1>7 DEF LedgerOk, Exact
<1>9. JobOk' /\ DiskOk(disk')
    BY <1>1, <1>2 DEF JobOk, DiskOk, Idle
<1>10. QED
    BY <1>8, <1>9 DEF Inv

LEMMA StepCommit ==
    ASSUME Inv, DbCommit
    PROVE  Inv'
<1>1. disk' = [tree |-> tree, ledger |-> ledger] /\ UNCHANGED <<tree, ledger, gi, job, crashes>>
    BY DEF DbCommit
<1>2. LedgerOk /\ JobOk
    BY DEF Inv
<1>3. LedgerOk' /\ JobOk'
    BY <1>1, <1>2 DEF LedgerOk, JobOk, Idle
<1>4. disk'.tree = tree /\ disk'.ledger = ledger
    BY <1>1
<1>5. DiskOk(disk')
    BY <1>1, <1>2, <1>4 DEF DiskOk, LedgerOk
<1>6. QED
    BY <1>3, <1>5 DEF Inv

LEMMA StepRestart ==
    ASSUME Inv, Restart
    PROVE  Inv'
<1>1. BC!Opened(disk.tree, tree') /\ job' = Idle /\ disk' = disk
    BY DEF Restart
<1>2. ledger' = IF disk.tree.chain = <<>> THEN Genesised(disk.ledger) ELSE disk.ledger
    BY DEF Restart
<1>3. gi' = IF disk.tree.chain = <<>> THEN Counted(disk.ledger, Unset, Genesis, 1) ELSE Unset
    BY DEF Restart, Unset
<1>4. DiskOk(disk)
    BY DEF Inv
<1>5. GoodTree(tree') /\ ledger' = Replay(tree'.chain) /\ Exact(tree'.chain, gi') /\ gi' = [a \in Amounts |-> gi'[a]]
    <2>1. PICK k, e, l, g : k = disk /\ e = tree' /\ l = ledger' /\ g = gi'
        OBVIOUS
    <2>2. DiskOk(k) /\ BC!Opened(k.tree, e)
        BY <1>1, <1>4, <2>1
    <2>3. l = IF k.tree.chain = <<>> THEN Genesised(k.ledger) ELSE k.ledger
        BY <1>2, <2>1, Zenon
    <2>4. g = IF k.tree.chain = <<>> THEN Counted(k.ledger, Unset, Genesis, 1) ELSE Unset
        BY <1>3, <2>1, Zenon
    <2>5. GoodTree(e) /\ l = Replay(e.chain) /\ Exact(e.chain, g) /\ g = [a \in Amounts |-> g[a]]
        BY <2>2, <2>3, <2>4, OpenedOk
    <2>6. QED
        BY <2>1, <2>5, Zenon
<1>6. LedgerOk'
    BY <1>5 DEF LedgerOk
<1>7. JobOk'
    BY <1>1 DEF JobOk, Idle
<1>8. DiskOk(disk')
    BY <1>1, <1>4 DEF DiskOk
<1>9. QED
    BY <1>6, <1>7, <1>8 DEF Inv

LEMMA StepStutter ==
    ASSUME Inv, UNCHANGED vars
    PROVE  Inv'
    BY DEF Inv, LedgerOk, DiskOk, JobOk, vars, Idle

LEMMA InvStep == Inv /\ [Next]_vars => Inv'
<1>1. SUFFICES ASSUME Inv, [Next]_vars PROVE Inv'
    OBVIOUS
<1>2. CASE UNCHANGED vars
    BY <1>1, <1>2, StepStutter
<1>3. CASE AddBlockReturns \/ Exited
    BY <1>1, <1>3, StepStutter DEF AddBlockReturns, Exited
<1>4. CASE \E b \in Blocks : \E w \in Difficulty[b] : AddSideBlock(b, w) \/ StartSwitch(b, w)
    BY <1>1, <1>4, StepSide, StepStart
<1>5. CASE Undo
    BY <1>1, <1>5, StepUndo
<1>6. CASE Redo
    BY <1>1, <1>6, StepRedo
<1>7. CASE EndSwitch
    BY <1>1, <1>7, StepEnd
<1>8. CASE \E a \in Amounts : LookUp(a)
    BY <1>1, <1>8, StepLookUp
<1>9. CASE DbCommit
    BY <1>1, <1>9, StepCommit
<1>10. CASE Restart
    BY <1>1, <1>10, StepRestart
<1>11. CASE ExitProcess
    BY <1>1, <1>11, StepExit
<1>12. QED
    BY <1>1, <1>2, <1>3, <1>4, <1>5, <1>6, <1>7, <1>8, <1>9, <1>10, <1>11 DEF Next

\* The ledger, the index cache, the last commit and the running switch stay as
\* the chain, the branch and the abstract call of add_block determine them.
THEOREM Invariance == Spec => []Inv
    BY InvInit, InvStep, PTL DEF Spec

-----------------------------------------------------------------------------
(***************************************************************************)
(* What follows from the invariant.                                        *)
(***************************************************************************)
\* No key image is stored twice in the tables or deleted when absent, and no
\* output is popped out of order, whatever the blocks hold: a key image that is
\* twice in one ends the process in the delta, before the tables are reached.
THEOREM NeverTraps == Spec => []NothingTraps
<1>1. ASSUME Inv PROVE NothingTraps
    <2>1. ledger = Replay(tree.chain)
        BY <1>1 DEF Inv, LedgerOk
    <2>2. ledger.trap = FALSE
        BY <2>1, ReplayFields, Zenon
    <2>3. QED
        BY <2>2, Zenon DEF NothingTraps
<1>2. Inv => NothingTraps
    BY <1>1
<1>3. QED
    BY <1>2, Invariance, PTL

\* m_next_gi_for_amount, where it knows an amount, counts its outputs.
THEOREM CacheExact == Spec => []GlobalIndexCacheExact
<1>1. ASSUME Inv PROVE GlobalIndexCacheExact
    <2>1. ledger = Replay(tree.chain) /\ Exact(tree.chain, gi) /\ tree.chain \in Seq(Blocks)
        BY <1>1, GoodTreeFacts DEF Inv, LedgerOk
    <2>2. ASSUME NEW a \in Amounts PROVE gi[a] \in {Unknown, Len(ledger.outs[a])}
        <3>1. gi[a] = Unknown \/ gi[a] = Len(ChainOuts(tree.chain, a))
            BY <2>1, Zenon DEF Exact
        <3>2. Len(ledger.outs[a]) = Len(ChainOuts(tree.chain, a))
            BY <2>1, ReplayOutsFacts, Zenon
        <3>3. QED
            BY <3>1, <3>2, Zenon
    <2>3. QED
        BY <2>2 DEF GlobalIndexCacheExact
<1>2. Inv => GlobalIndexCacheExact
    BY <1>1
<1>3. QED
    BY <1>2, Invariance, PTL

LEMMA IndexNat ==
    ASSUME NEW b \in Blocks, NEW n \in 1..Len(Body[b]), NEW a \in Amounts,
           NEW i \in 1..Tx[Body[b][n]].outs[a]
    PROVE  ReplayIndices(b)[n][a][i] \in Nat
<1>1. PICK c \in Seq(Blocks) : c = SubSeq(Path[b], 1, Height(b))
    <2>1. PICK s \in Seq(Blocks) : s = Path[b]
        BY PathFacts
    <2>2. Height(b) = Len(s) - 1 /\ Len(s) \in Nat \ {0}
        BY <2>1, PathFacts DEF Height
    <2>3. SubSeq(s, 1, Len(s) - 1) \in Seq(Blocks)
        BY <2>2
    <2>4. QED
        BY <2>1, <2>2, <2>3
<1>2. ReplayIndices(b)[n][a][i] = Len(ChainOuts(c, a)) + Len(FirstOuts(b, n - 1, a)) + i - 1
    <2>1. n \in DOMAIN Body[b]
        BY BodyFacts
    <2>2. QED
        BY <1>1, <2>1, Zenon DEF ReplayIndices
<1>3. ChainOuts(c, a) \in Seq(Fresh)
    BY ChainOutsFacts
<1>4. n - 1 \in 0..Len(Body[b]) /\ Body[b][n] \in Txs
    BY BodyFacts
<1>5. FirstOuts(b, n - 1, a) \in Seq(Fresh)
    BY <1>4, FirstOutsFacts
<1>6. i \in Nat \ {0}
    BY <1>4, TxFacts
<1>7. PICK p, q \in Nat : p = Len(ChainOuts(c, a)) /\ q = Len(FirstOuts(b, n - 1, a))
    BY <1>3, <1>5
<1>8. QED
    BY <1>2, <1>6, <1>7

LeadsIn(l, b, n, a, i) ==
    /\ l.indices[b][n][a][i] < Len(l.outs[a])
    /\ l.outs[a][l.indices[b][n][a][i] + 1].key = <<Body[b][n], a, i>>

LEMMA SoundLeads ==
    ASSUME NEW c \in Seq(Blocks), Sound(c), NEW b \in ToSet(c), NEW n \in DOMAIN Body[b],
           NEW a \in Amounts, NEW i \in 1..Tx[Body[b][n]].outs[a],
           NEW l, l = Replay(c)
    PROVE  LeadsIn(l, b, n, a, i)
<1>a. DOMAIN c = 1..Len(c)
    OBVIOUS
<1>1. PICK j \in 1..Len(c) : b = c[j]
    BY <1>a, Zenon DEF ToSet
<1>2. b \in Blocks
    BY <1>1
<1>3. n \in 1..Len(Body[b]) /\ Body[b][n] \in Txs
    BY <1>2, BodyFacts
<1>4. AllLead(c, b)
    BY <1>1 DEF Sound
<1>5. Leads(c, b, n, a, i)
    BY <1>3, <1>4, Zenon DEF AllLead
<1>6. l.indices[b] = ReplayIndices(b)
    BY <1>2, ReplayFields, Zenon
<1>7. PICK g : g = ReplayIndices(b)[n][a][i]
    OBVIOUS
<1>8. l.indices[b][n][a][i] = g
    BY <1>6, <1>7, Zenon
<1>9. g + 1 \in 1..Len(ChainOuts(c, a)) /\ ChainOuts(c, a)[g + 1].key = <<Body[b][n], a, i>>
    BY <1>5, <1>7, Zenon DEF Leads
<1>10. /\ Len(l.outs[a]) = Len(ChainOuts(c, a)) /\ ChainOuts(c, a) \in Seq(Fresh)
       /\ \A k \in 1..Len(ChainOuts(c, a)) : l.outs[a][k].key = ChainOuts(c, a)[k].key
    BY ReplayOutsFacts, ChainOutsFacts, Zenon
<1>11. l.outs[a][g + 1].key = <<Body[b][n], a, i>>
    BY <1>9, <1>10, Zenon
<1>12. g \in Nat
    BY <1>2, <1>3, <1>7, IndexNat
<1>13. g < Len(l.outs[a])
    <2>1. Len(ChainOuts(c, a)) \in Nat
        BY <1>10
    <2>2. QED
        BY <1>9, <1>10, <1>12, <2>1
<1>14. QED
    BY <1>8, <1>11, <1>13, Zenon DEF LeadsIn

\* Whatever was undone and redone, in memory and on disk the ledger is the one
\* its chain determines, and every recorded index leads to its output.
THEOREM ReplayedLedger == Spec => []LedgerIsReplay
<1>1. ASSUME Inv PROVE LedgerIsReplay
    <2>1. /\ ledger = Replay(tree.chain) /\ GoodTree(tree) /\ DiskOk(disk)
        BY <1>1 DEF Inv, LedgerOk
    <2>2. tree.chain \in Seq(Blocks) /\ Sound(tree.chain)
        BY <2>1, GoodTreeFacts, ValidSound
    <2>3. IndicesLead
        <3>1. ASSUME NEW b \in ToSet(tree.chain), NEW n \in DOMAIN Body[b], NEW a \in Amounts,
                     NEW i \in 1..Tx[Body[b][n]].outs[a]
              PROVE  /\ ledger.indices[b][n][a][i] < Len(ledger.outs[a])
                     /\ ledger.outs[a][ledger.indices[b][n][a][i] + 1].key = <<Body[b][n], a, i>>
            <4>1. PICK c, l : c = tree.chain /\ l = ledger
                OBVIOUS
            <4>2. c \in Seq(Blocks) /\ Sound(c) /\ b \in ToSet(c) /\ l = Replay(c)
                BY <2>1, <2>2, <4>1, Zenon
            <4>3. LeadsIn(l, b, n, a, i)
                BY <4>2, SoundLeads
            <4>4. QED
                BY <4>1, <4>3, Zenon DEF LeadsIn
        <3>2. QED
            BY <3>1, Zenon DEF IndicesLead
    <2>4. disk.tree.chain # <<>> => disk.ledger = Replay(disk.tree.chain)
        BY <2>1, NoDbFacts DEF DiskOk
    <2>5. QED
        BY <2>1, <2>3, <2>4 DEF LedgerIsReplay
<1>2. Inv => LedgerIsReplay
    BY <1>1
<1>3. QED
    BY <1>2, Invariance, PTL

Once(c, i, n, j, m) ==
    LET t == Body[c[i]][n]
        u == Body[c[j]][m]
    IN  /\ t = u => i = j /\ n = m
        /\ \A x \in DOMAIN Tx[t].ins, y \in DOMAIN Tx[u].ins :
              Tx[t].ins[x].key = Tx[u].ins[y].key => i = j /\ n = m /\ x = y

\* Inputs of two transactions of a chain, of one block or of two, differ in
\* their key images.
KeyShared(c, i, n, j, m) ==
    \E in \in Ins(Body[c[i]][n]), jn \in Ins(Body[c[j]][m]) : in.key = jn.key

LEMMA InputsApart ==
    ASSUME NEW c \in Seq(Blocks), Sound(c), NEW i \in 1..Len(c), NEW j \in 1..Len(c),
           NEW n \in DOMAIN Body[c[i]], NEW m \in DOMAIN Body[c[j]], KeyShared(c, i, n, j, m)
    PROVE  i = j /\ n = m
<1>0. PICK in \in Ins(Body[c[i]][n]), jn \in Ins(Body[c[j]][m]) : in.key = jn.key
    BY Zenon DEF KeyShared
<1>1. c[i] \in Blocks /\ c[j] \in Blocks
    OBVIOUS
<1>2. in \in BlockIns(c[i]) /\ jn \in BlockIns(c[j])
    BY Zenon DEF BlockIns, ToSet
<1>3. i = j
    BY <1>0, <1>2, Zenon DEF Sound, KeysApart
<1>4. ASSUME n # m PROVE FALSE
    <2>1. Keys(Body[c[i]][n]) \cap Keys(Body[c[i]][m]) = {}
        <3>1. ~KeyTwice(c[i])
            BY DEF Sound
        <3>2. n \in DOMAIN Body[c[i]] /\ m \in DOMAIN Body[c[i]]
            BY <1>3
        <3>3. QED
            BY <1>4, <3>1, <3>2, Zenon DEF KeyTwice
    <2>2. in.key \in Keys(Body[c[i]][n]) /\ in.key \in Keys(Body[c[i]][m])
        BY <1>0, <1>3, Zenon DEF Keys
    <2>3. QED
        BY <2>1, <2>2, Zenon
<1>5. QED
    BY <1>3, <1>4

LEMMA SoundOnce ==
    ASSUME NEW c \in Seq(Blocks), Sound(c), NEW i \in 1..Len(c), NEW j \in 1..Len(c),
           Height(c[i]) = i - 1, Height(c[j]) = j - 1,
           NEW n \in DOMAIN Body[c[i]], NEW m \in DOMAIN Body[c[j]]
    PROVE  Once(c, i, n, j, m)
<1>1. PICK b \in Blocks : b = c[i]
    OBVIOUS
<1>2. PICK d \in Blocks : d = c[j]
    OBVIOUS
<1>3. PICK t \in Txs : t = Body[b][n]
    BY <1>1, BodyFacts
<1>4. PICK u \in Txs : u = Body[d][m]
    BY <1>2, BodyFacts
<1>5. ASSUME NEW in \in Ins(t), NEW jn \in Ins(u), in.key = jn.key PROVE i = j /\ n = m
    <2>1. in \in Ins(Body[c[i]][n]) /\ jn \in Ins(Body[c[j]][m])
        BY <1>1, <1>2, <1>3, <1>4
    <2>2. KeyShared(c, i, n, j, m)
        BY <1>5, <2>1, Zenon DEF KeyShared
    <2>3. QED
        BY <2>2, InputsApart
<1>6. ASSUME t = u PROVE i = j /\ n = m
    <2>1. (Tx[t].ins = <<>> <=> n = 1) /\ (Tx[t].ins = <<>> <=> m = 1)
        <3>1. ASSUME NEW e \in Blocks, NEW k \in DOMAIN Body[e]
              PROVE  Tx[Body[e][k]].ins = <<>> <=> k = 1
            BY BodyAssumption DEF BodyAssumption
        <3>2. (Tx[Body[b][n]].ins = <<>> <=> n = 1) /\ (Tx[Body[d][m]].ins = <<>> <=> m = 1)
            BY <1>1, <1>2, <3>1
        <3>3. QED
            BY <1>3, <1>4, <1>6, <3>2, Zenon
    <2>2. CASE n = 1
        <3>1. m = 1 /\ Body[b][1] = Body[d][1]
            BY <1>3, <1>4, <1>6, <2>1, <2>2
        <3>2. Height(b) = Height(d)
            BY <3>1, BodyAssumption DEF BodyAssumption
        <3>3. i - 1 = j - 1
            BY <1>1, <1>2, <3>2
        <3>4. QED
            BY <2>2, <3>1, <3>3
    <2>3. CASE n # 1
        <3>1. Tx[t].ins # <<>> /\ Tx[t].ins \in Seq(Ins(t))
            BY <2>1, <2>3, TxAssumption DEF TxAssumption
        <3>2. 1 \in DOMAIN Tx[t].ins
            BY <3>1
        <3>3. PICK in : in \in Ins(t)
            BY <3>2, Zenon DEF Ins
        <3>4. QED
            BY <1>5, <1>6, <3>3
    <2>4. QED
        BY <2>2, <2>3
<1>7. ASSUME NEW x \in DOMAIN Tx[t].ins, NEW y \in DOMAIN Tx[u].ins,
             Tx[t].ins[x].key = Tx[u].ins[y].key
      PROVE  i = j /\ n = m /\ x = y
    <2>1. Tx[t].ins[x] \in Ins(t) /\ Tx[u].ins[y] \in Ins(u)
        BY Zenon DEF Ins
    <2>2. i = j /\ n = m
        BY <1>5, <1>7, <2>1
    <2>3. t = u
        BY <1>1, <1>2, <1>3, <1>4, <2>2
    <2>4. \A p, q \in DOMAIN Tx[t].ins : Tx[t].ins[p].key = Tx[t].ins[q].key => p = q
        BY TxAssumption DEF TxAssumption
    <2>5. x = y
        BY <1>7, <2>3, <2>4, Zenon
    <2>6. QED
        BY <2>2, <2>5
<1>8. QED
    BY <1>1, <1>2, <1>3, <1>4, <1>6, <1>7, Zenon DEF Once

\* No key image is spent twice on the main chain, and no transaction is on it
\* twice.
THEOREM NoKeyTwice == Spec => []NoDoubleSpend
<1>1. ASSUME Inv PROVE NoDoubleSpend
    <2>1. GoodTree(tree)
        BY <1>1 DEF Inv, LedgerOk
    <2>2. PICK c \in Seq(Blocks) : c = tree.chain
        BY <2>1, GoodTreeFacts
    <2>3. PICK z \in Blocks : z = BC!Tip(tree) /\ c = Path[z] /\ Sound(c)
        BY <2>1, <2>2, GoodTreeFacts, ValidSound
    <2>4. \A i \in 1..Len(c) : Height(c[i]) = i - 1
        BY <2>3, PathFacts DEF Height
    <2>5. DOMAIN c = 1..Len(c)
        OBVIOUS
    <2>6. ASSUME NEW i \in DOMAIN tree.chain, NEW j \in DOMAIN tree.chain,
                 NEW n \in DOMAIN Body[tree.chain[i]], NEW m \in DOMAIN Body[tree.chain[j]]
          PROVE  Once(tree.chain, i, n, j, m)
        <3>1. i \in 1..Len(c) /\ j \in 1..Len(c) /\ n \in DOMAIN Body[c[i]] /\ m \in DOMAIN Body[c[j]]
            BY <2>2, <2>5, Zenon
        <3>2. Height(c[i]) = i - 1 /\ Height(c[j]) = j - 1
            BY <2>4, <3>1
        <3>3. Once(c, i, n, j, m)
            BY <2>3, <3>1, <3>2, SoundOnce
        <3>4. QED
            BY <2>2, <3>3, Zenon
    <2>7. QED
        BY <2>6, Zenon DEF NoDoubleSpend, Once
<1>2. Inv => NoDoubleSpend
    BY <1>1
<1>3. QED
    BY <1>2, Invariance, PTL

-----------------------------------------------------------------------------
(***************************************************************************)
(* ChainState implements BlockChain.                                       *)
(***************************************************************************)
Abs == IF job.phase = "idle" THEN tree ELSE job.before

\* A call of add_block that takes the tables from d to e and the last commit
\* from k to l.
AbsHeavier(d, b, w) == d.cd[Parent(b)] + w > BC!TipCd(d)
AbsAdds(d, b, w, r) ==
    /\ NewBlock(d, b, w)
    /\ \E i \in 1..Len(Path[b]) :
          /\ BC!IsCommon(BC!Tip(d), b, i)
          /\ IF AbsHeavier(d, b, w) /\ \A j \in i + 1 .. Len(Path[b]) : Path[b][j] \in d.blocks \cup {b}
               THEN BC!IsRedoneTip(b, i, r) ELSE r = BC!Tip(d)
AbsBanned(d, b, w) == AbsHeavier(d, b, w) /\ Parent(b) = BC!Tip(d) /\ b \notin Redoable
AbsAddBlock(d, e, k, l, b, w, r) ==
    /\ AbsAdds(d, b, w, r)
    /\ e = BC!SwitchedTo(BC!Stored(d, b, w), r)
    /\ l = IF BC!CommitDue(e) /\ ~AbsBanned(d, b, w) THEN e ELSE k

LEMMA AbsAddBlockIs ==
    ASSUME NEW b \in Blocks, NEW w \in Difficulty[b], NEW r \in Blocks,
           AbsAddBlock(Abs, Abs', disk.tree, disk'.tree, b, w, r), crashes' = crashes
    PROVE  BC!Next
<1>1. PICK d, e, k, l : d = Abs /\ e = Abs' /\ k = disk.tree /\ l = disk'.tree
    OBVIOUS
<1>2. AbsAddBlock(d, e, k, l, b, w, r)
    BY <1>1
<1>3. /\ AbsAdds(d, b, w, r) /\ e = BC!SwitchedTo(BC!Stored(d, b, w), r)
      /\ l = IF BC!CommitDue(e) /\ ~AbsBanned(d, b, w) THEN e ELSE k
    BY <1>2 DEF AbsAddBlock
<1>4. d = IF job.phase = "idle" THEN tree ELSE job.before
    BY <1>1 DEF Abs
<1>5. /\ BC!Processable(b) <=> NewBlock(d, b, w)
      /\ BC!Heavier(b, w) <=> AbsHeavier(d, b, w)
    BY <1>4, ProcessableIs DEF AbsHeavier
<1>6. BC!Adds(b, w, r)
    BY <1>3, <1>4, <1>5 DEF AbsAdds, BC!Adds
<1>7. BC!Banned(b, w) <=> AbsBanned(d, b, w)
    <2>1. BC!Parent(b) = Parent(b)
        BY DEF BC!Parent, Parent
    <2>2. QED
        BY <1>4, <1>5, <2>1 DEF AbsBanned, BC!Banned
<1>8. e = IF job'.phase = "idle" THEN tree' ELSE job'.before
    BY <1>1 DEF Abs
<1>9. BC!AddBlock(b, w, r)
    BY <1>1, <1>3, <1>4, <1>6, <1>7, <1>8 DEF BC!AddBlock
<1>10. QED
    BY <1>9 DEF BC!Next

LEMMA AbsStutter ==
    ASSUME Abs' = Abs, disk'.tree = disk.tree, crashes' = crashes
    PROVE  BC!vars' = BC!vars
    BY DEF Abs, BC!vars

LEMMA AbsInit == Init => BC!Init
<1>1. SUFFICES ASSUME Init PROVE BC!Init
    OBVIOUS
<1>2. disk = [tree |-> NoDb, ledger |-> EmptyLedger] /\ job = Idle /\ crashes = 0
    BY <1>1 DEF Init, NoDb
<1>3. disk.tree = NoDb /\ job.phase = "idle"
    BY <1>2, IdlePhase
<1>4. PICK w \in Difficulty[Genesis] : tree = BC!AddGenesis(NoDb, w)
    BY <1>1, <1>3 DEF Init
<1>5. BC!Opened(NoDb, tree)
    BY <1>4, NoDbFacts DEF BC!Opened
<1>6. QED
    BY <1>2, <1>3, <1>5 DEF BC!Init, NoDb

\* What a commit at the end of add_block makes of the tables of the tree.
LEMMA CommitsTree ==
    ASSUME NEW ban, Commits(ban)
    PROVE  disk'.tree = IF BC!CommitDue(tree') /\ ~ban THEN tree' ELSE disk.tree
<1>1. CASE BC!CommitDue(tree') /\ ~ban
    BY <1>1 DEF Commits
<1>2. CASE ~(BC!CommitDue(tree') /\ ~ban)
    BY <1>2 DEF Commits
<1>3. QED
    BY <1>1, <1>2

LEMMA RefineSide ==
    ASSUME Inv, NEW b \in Blocks, NEW w \in Difficulty[b], AddSideBlock(b, w)
    PROVE  BC!Next
<1>1. /\ job.phase = "idle" /\ BC!Processable(b) /\ ~BC!Heavier(b, w)
      /\ tree' = BC!Stored(tree, b, w) /\ job' = job /\ crashes' = crashes /\ Commits(FALSE)
    BY DEF AddSideBlock
<1>2. GoodTree(tree)
    BY DEF Inv, LedgerOk
<1>3. PICK d, e : d = tree /\ e = tree'
    OBVIOUS
<1>4. NewBlock(d, b, w) /\ ~AbsHeavier(d, b, w)
    BY <1>1, <1>3, ProcessableIs DEF AbsHeavier
<1>5. GoodTree(e) /\ BC!Tip(e) = BC!Tip(d) /\ e.chain = d.chain /\ IsRec(e) /\ e = BC!Stored(d, b, w)
    BY <1>1, <1>2, <1>3, <1>4, SwitchStart
<1>6. PICK r \in Blocks : r = BC!Tip(d)
    BY <1>2, <1>3, GoodTreeFacts
<1>7. e = BC!SwitchedTo(e, r)
    <2>1. e.chain = Path[r]
        BY <1>5, <1>6, GoodTreeFacts
    <2>2. e = [e EXCEPT !.chain = e.chain]
        BY <1>5, SameChain
    <2>3. QED
        BY <2>1, <2>2 DEF BC!SwitchedTo
<1>8. AbsAdds(d, b, w, r)
    <2>1. PICK i \in 1..Len(Path[b]) : BC!IsCommon(r, b, i)
        BY CommonExists
    <2>2. QED
        BY <1>4, <1>6, <2>1 DEF AbsAdds
<1>9. disk'.tree = IF BC!CommitDue(e) /\ ~AbsBanned(d, b, w) THEN e ELSE disk.tree
    BY <1>1, <1>3, <1>4, CommitsTree DEF AbsBanned
<1>10. AbsAddBlock(d, e, disk.tree, disk'.tree, b, w, r)
    BY <1>5, <1>7, <1>8, <1>9 DEF AbsAddBlock
<1>11. Abs = d /\ Abs' = e
    BY <1>1, <1>3 DEF Abs
<1>12. QED
    BY <1>1, <1>10, <1>11, AbsAddBlockIs

LEMMA RefineEnd ==
    ASSUME Inv, EndSwitch
    PROVE  BC!Next
<1>1. PICK b, d, e : b = job.block /\ d = job.before /\ e = tree
    OBVIOUS
<1>2. /\ job.phase = "switch" /\ OnBranchOf(b, BC!Tip(e))
      /\ BC!Tip(e) # b => ~CanRedo(ledger, Path[b][Len(e.chain) + 1])
      /\ job' = Idle /\ tree' = tree /\ crashes' = crashes
      /\ Commits(BC!Tip(e) # b /\ Parent(b) = BC!Tip(d))
    BY <1>1, BranchIs DEF EndSwitch, NextBlock
<1>3. GoodTree(e) /\ ledger = Replay(e.chain)
    BY <1>1 DEF Inv, LedgerOk
<1>4. PICK w \in Difficulty[b], i \in 1..Len(Path[b]) : SwitchAt(d, b, e, w, i)
    BY <1>1, <1>2, JobPhase DEF Inv
<1>5. PICK r \in Blocks : r = BC!Tip(e)
    BY <1>3, GoodTreeFacts
<1>6. BC!Tip(e) # b => ~CanRedo(Replay(e.chain), Path[b][Len(e.chain) + 1])
    BY <1>2, <1>3
<1>7. /\ BC!IsRedoneTip(b, i, r)
      /\ e = BC!SwitchedTo(BC!Stored(d, b, w), r)
      /\ \A j \in i + 1 .. Len(Path[b]) : Path[b][j] \in d.blocks \cup {b}
      /\ Parent(b) = BC!Tip(d) => (r # b <=> b \notin Redoable)
    BY <1>2, <1>3, <1>4, <1>5, <1>6, SwitchEnd
<1>8. NewBlock(d, b, w) /\ AbsHeavier(d, b, w) /\ BC!IsCommon(BC!Tip(d), b, i) /\ b \in Blocks
    BY <1>4 DEF SwitchAt, AbsHeavier, NewBlock
<1>9. AbsAdds(d, b, w, r)
    BY <1>7, <1>8 DEF AbsAdds
<1>10. (r # b /\ Parent(b) = BC!Tip(d)) <=> AbsBanned(d, b, w)
    BY <1>7, <1>8 DEF AbsBanned
<1>11. disk'.tree = IF BC!CommitDue(e) /\ ~AbsBanned(d, b, w) THEN e ELSE disk.tree
    BY <1>1, <1>2, <1>5, <1>10, CommitsTree
<1>12. AbsAddBlock(d, e, disk.tree, disk'.tree, b, w, r)
    BY <1>7, <1>9, <1>11 DEF AbsAddBlock
<1>13. Abs = d /\ Abs' = e
    BY <1>1, <1>2, IdlePhase DEF Abs
<1>14. QED
    BY <1>2, <1>8, <1>12, <1>13, AbsAddBlockIs

LEMMA RefineCommit ==
    ASSUME Inv, DbCommit
    PROVE  BC!Next \/ BC!vars' = BC!vars
<1>1. /\ job.phase = "idle" /\ disk' = [tree |-> tree, ledger |-> ledger]
      /\ UNCHANGED <<tree, ledger, gi, job, crashes>>
    BY DEF DbCommit
<1>2. disk'.tree = tree /\ Abs = tree /\ Abs' = tree
    BY <1>1 DEF Abs
<1>3. CASE disk.tree = tree
    BY <1>1, <1>2, <1>3, AbsStutter
<1>4. CASE disk.tree # tree
    <2>1. BC!DbCommit
        BY <1>1, <1>2, <1>4 DEF BC!DbCommit
    <2>2. QED
        BY <2>1 DEF BC!Next
<1>5. QED
    BY <1>3, <1>4

LEMMA RefineRestart ==
    ASSUME Restart
    PROVE  BC!Next
<1>1. /\ crashes < MaxCrashes /\ crashes' = crashes + 1
      /\ BC!Opened(disk.tree, tree') /\ job' = Idle /\ disk' = disk
    BY DEF Restart
<1>2. job'.phase = "idle"
    BY <1>1, IdlePhase
<1>3. BC!Restart
    BY <1>1, <1>2 DEF BC!Restart
<1>4. QED
    BY <1>3 DEF BC!Next

LEMMA RefineSwitching ==
    ASSUME Undo \/ Redo
    PROVE  BC!vars' = BC!vars
<1>1. job.phase = "switch" /\ UNCHANGED <<disk, job, crashes>>
    BY DEF Undo, Redo
<1>2. Abs' = Abs
    BY <1>1 DEF Abs
<1>3. QED
    BY <1>1, <1>2, AbsStutter

LEMMA RefineExit ==
    ASSUME ExitProcess
    PROVE  BC!vars' = BC!vars
<1>1. /\ job.phase = "switch" /\ job' = [phase |-> "exit", block |-> job.block, before |-> job.before]
      /\ UNCHANGED <<tree, disk, crashes>>
    BY DEF ExitProcess
<1>2. job'.phase = "exit" /\ job'.before = job.before
    BY <1>1
<1>3. Abs' = Abs
    BY <1>1, <1>2 DEF Abs
<1>4. QED
    BY <1>1, <1>3, AbsStutter

LEMMA RefineStart ==
    ASSUME NEW b \in Blocks, NEW w \in Difficulty[b], StartSwitch(b, w)
    PROVE  BC!vars' = BC!vars
<1>1. /\ job.phase = "idle" /\ job' = [phase |-> "switch", block |-> b, before |-> tree]
      /\ UNCHANGED <<disk, crashes>>
    BY DEF StartSwitch
<1>2. job'.phase = "switch" /\ job'.before = tree
    BY <1>1
<1>3. Abs' = Abs
    BY <1>1, <1>2 DEF Abs
<1>4. QED
    BY <1>1, <1>3, AbsStutter

LEMMA RefineStep == Inv /\ [Next]_vars => [BC!Next]_(BC!vars)
<1>1. SUFFICES ASSUME Inv, [Next]_vars PROVE BC!Next \/ BC!vars' = BC!vars
    OBVIOUS
<1>2. CASE UNCHANGED <<tree, disk, job, crashes>>
    BY <1>2, AbsStutter DEF Abs
<1>3. CASE \E b \in Blocks : \E w \in Difficulty[b] : AddSideBlock(b, w) \/ StartSwitch(b, w)
    BY <1>1, <1>3, RefineSide, RefineStart
<1>4. CASE Undo \/ Redo
    BY <1>4, RefineSwitching
<1>5. CASE EndSwitch
    BY <1>1, <1>5, RefineEnd
<1>6. CASE DbCommit
    BY <1>1, <1>6, RefineCommit
<1>7. CASE Restart
    BY <1>7, RefineRestart
<1>8. CASE UNCHANGED vars \/ AddBlockReturns \/ Exited \/ \E a \in Amounts : LookUp(a)
    <2>1. UNCHANGED <<tree, disk, job, crashes>>
        BY <1>8 DEF vars, AddBlockReturns, Exited, LookUp
    <2>2. QED
        BY <1>2, <2>1
<1>9. CASE ExitProcess
    BY <1>9, RefineExit
<1>10. QED
    BY <1>1, <1>3, <1>4, <1>5, <1>6, <1>7, <1>8, <1>9 DEF Next

\* add_block, block by block and with restarts anywhere, implements the block
\* tree in which it is one step.
THEOREM ImplementsBlockChain == Spec => Refines
<1>1. Init => BC!Init
    BY AbsInit
<1>2. Inv /\ [Next]_vars => [BC!Next]_(BC!vars)
    BY RefineStep
<1>3. QED
    BY <1>1, <1>2, Invariance, PTL DEF Spec, Refines, BC!Spec
=============================================================================
