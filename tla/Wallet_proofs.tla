---------------------------- MODULE Wallet_proofs ---------------------------
(***************************************************************************)
(* Proofs about Wallet for any blocks, transactions, outputs and answers   *)
(* of the node: undo records are exact, the file of a payment is not lost, *)
(* no operation on the tables meets a key it must not meet, and the        *)
(* spendable balance is the sum of what api_add_unspent offers.            *)
(***************************************************************************)
EXTENDS Wallet, FiniteSetTheorems, WellFoundedInduction, TLAPS

\* A sequence of anything, and tables with all keys and no other.
IsSeq(s) == \E S : s \in Seq(S)
IsDb(d) == d = [k \in Keys |-> d[k]]

\* Every undo record of a chain leads to the tables before its block, when it
\* starts from the tables `base' after the last one.
BeforeIn(ch, base, i) == IF i > Len(ch) THEN base ELSE ch[i].before
Exact(ch, base) ==
    IsSeq(ch) /\ \A i \in 1..Len(ch) : Restore(BeforeIn(ch, base, i + 1), ch[i].undo) = ch[i].before

\* The calls of a handler end with the loop it is in, and those of a block end
\* with its push, before the loop that redoes blocks.
Loops == {"undo", "next", "rescan"}
InOrder(c) ==
    /\ IsSeq(c)
    /\ \A i \in 1..Len(c) : (c[i][1] \in Loops <=> i = Len(c)) /\ (c[i][1] = "push" <=> i = Len(c) - 1)
    /\ Len(c) > 1 => c[Len(c)][1] = "next"

\* Outside of a block nothing is recorded; inside there is one at hand.
Calling ==
    /\ InOrder(calls) /\ answer \in Seq(Blocks)
    /\ Len(calls) <= 1 => cur = NoUndo
    /\ Len(calls) > 1 => answer # <<>>
    /\ Running("undo") => IsAnswer(answer)

Tables == IsDb(db) /\ Exact(chain, Base)
OnDisk == IsDb(disk.db) /\ Exact(disk.chain, disk.db)
Inv == Calling /\ Tables /\ OnDisk

-----------------------------------------------------------------------------
\* Tables under undo: an operation keeps what the undo record leads back to.
Keeps(s, t) == IsDb(s.db) => IsDb(t.db) /\ Restore(t.db, t.cur) = Restore(s.db, s.cur)

Written(d, u, k, v, e, w) == e = [d EXCEPT ![k] = v] /\ w = RecordUndo(u, d, k)

\* record_undo keeps the first old value of a key.
LEMMA WriteKeeps ==
    ASSUME NEW d, IsDb(d), NEW u, NEW k, NEW v, NEW e, NEW w, Written(d, u, k, v, e, w)
    PROVE  IsDb(e) /\ Restore(e, w) = Restore(d, u)
<1>1. /\ \A j \in Keys : e[j] = IF j = k THEN v ELSE d[j]
      /\ e = [j \in Keys |-> e[j]]
    BY DEF IsDb, Written
<1>2. /\ DOMAIN w = DOMAIN u \cup {k}
      /\ \A j \in DOMAIN w : w[j] = IF j \in DOMAIN u THEN u[j] ELSE d[k]
    BY DEF RecordUndo, Written
<1>3. ASSUME NEW j \in Keys
      PROVE  (IF j \in DOMAIN w THEN w[j] ELSE e[j]) = (IF j \in DOMAIN u THEN u[j] ELSE d[j])
    BY <1>1, <1>2
<1>4. Restore(e, w) = Restore(d, u)
    BY <1>3 DEF Restore
<1>5. QED
    BY <1>1, <1>4 DEF IsDb

\* put_with_undo and del_with_undo.
LEMMA PutKeeps ==
    ASSUME NEW s, NEW k, NEW v, NEW f
    PROVE  Keeps(s, PutWithUndo(s, k, v, f))
<1> DEFINE t == PutWithUndo(s, k, v, f)
<1>1. t.db = [s.db EXCEPT ![k] = v] /\ t.cur = RecordUndo(s.cur, s.db, k)
    BY DEF PutWithUndo
<1> HIDE DEF t
<1>2. ASSUME IsDb(s.db)
      PROVE  IsDb(t.db) /\ Restore(t.db, t.cur) = Restore(s.db, s.cur)
    <2>1. Written(s.db, s.cur, k, v, t.db, t.cur)
        BY <1>1 DEF Written
    <2>2. QED
        BY <1>2, <2>1, WriteKeeps
<1>3. QED
    BY <1>2 DEF Keeps, t

LEMMA DelKeeps ==
    ASSUME NEW s, NEW k, NEW f
    PROVE  Keeps(s, DelWithUndo(s, k, f))
<1> DEFINE t == DelWithUndo(s, k, f)
<1>1. t.db = [s.db EXCEPT ![k] = Absent] /\ t.cur = RecordUndo(s.cur, s.db, k)
    BY DEF DelWithUndo
<1> HIDE DEF t
<1>2. ASSUME IsDb(s.db)
      PROVE  IsDb(t.db) /\ Restore(t.db, t.cur) = Restore(s.db, s.cur)
    <2>1. Written(s.db, s.cur, k, Absent, t.db, t.cur)
        BY <1>1 DEF Written
    <2>2. QED
        BY <1>2, <2>1, WriteKeeps
<1>3. QED
    BY <1>2 DEF Keeps, t

\* One operation after another.
LEMMA KeepsChain ==
    ASSUME NEW s, NEW t, NEW u, Keeps(s, t), Keeps(t, u)
    PROVE  Keeps(s, u)
BY DEF Keeps

LEMMA KeepsSelf ==
    ASSUME NEW s
    PROVE  Keeps(s, s)
BY DEF Keeps

\* modify_balance, of an address and of all.
LEMMA ModifyOneKeeps ==
    ASSUME NEW s, NEW a, NEW dl, NEW ds
    PROVE  Keeps(s, ModifyOne(s, a, dl, ds))
<1>1. \/ ModifyOne(s, a, dl, ds) = DelWithUndo(s, <<"balance", a>>, FALSE)
      \/ \E v : ModifyOne(s, a, dl, ds) = PutWithUndo(s, <<"balance", a>>, v, FALSE)
    BY DEF ModifyOne
<1>2. QED
    BY <1>1, PutKeeps, DelKeeps

LEMMA ModifyBalanceKeeps ==
    ASSUME NEW s, NEW o, NEW locked, NEW spendable
    PROVE  Keeps(s, ModifyBalance(s, o, locked, spendable))
<1>1. PICK a, b : ModifyBalance(s, o, locked, spendable)
                    = ModifyOne(ModifyOne(s, Addr[o], a, b), AllAddrs, a, b)
    BY DEF ModifyBalance
<1>2. PICK t : t = ModifyOne(s, Addr[o], a, b) /\ Keeps(s, t)
    BY ModifyOneKeeps
<1>3. Keeps(t, ModifyOne(t, AllAddrs, a, b))
    BY ModifyOneKeeps
<1>4. QED
    BY <1>1, <1>2, <1>3, KeepsChain

\* The indices of unspent and locked outputs.
LEMMA IndexKeeps ==
    ASSUME NEW s, NEW o, NEW h
    PROVE  /\ Keeps(s, AddToUnspentIndex(s, o, h)) /\ Keeps(s, RemoveFromUnspentIndex(s, o, h))
           /\ Keeps(s, AddToLockIndex(s, o, h)) /\ Keeps(s, RemoveFromLockIndex(s, o))
<1>1. PICK t : t = ModifyBalance(s, o, 0, 1) /\ Keeps(s, t)
    BY ModifyBalanceKeeps
<1>2. PICK u : u = ModifyBalance(s, o, 0, -1) /\ Keeps(s, u)
    BY ModifyBalanceKeeps
<1>3. PICK v : v = ModifyBalance(s, o, 1, 0) /\ Keeps(s, v)
    BY ModifyBalanceKeeps
<1>4. PICK w : w = ModifyBalance(s, o, -1, 0) /\ Keeps(s, w)
    BY ModifyBalanceKeeps
<1>5. Keeps(t, AddToUnspentIndex(s, o, h))
    BY <1>1, PutKeeps DEF AddToUnspentIndex
<1>6. Keeps(u, RemoveFromUnspentIndex(s, o, h))
    BY <1>2, DelKeeps DEF RemoveFromUnspentIndex
<1>7. Keeps(v, AddToLockIndex(s, o, h))
    BY <1>3, PutKeeps DEF AddToLockIndex
<1>8. Keeps(w, RemoveFromLockIndex(s, o))
    BY <1>4, DelKeeps DEF RemoveFromLockIndex
<1>9. QED
    BY <1>1, <1>2, <1>3, <1>4, <1>5, <1>6, <1>7, <1>8, KeepsChain

\* add_incoming_output, unlock and add_incoming_keyimage.
LEMMA TakePlaceKeeps ==
    ASSUME NEW s, NEW o, NEW h
    PROVE  Keeps(s, TakePlace(s, o, h))
<1>1. PICK freed :
        /\ freed = IF KnownKeyImage(s.db, Ki[o])
                   THEN RemoveFromUnspentIndex(s, Standing(s.db, Ki[o])[2], Standing(s.db, Ki[o])[1])
                   ELSE s
        /\ Keeps(s, freed)
    BY IndexKeeps, KeepsSelf
<1>2. PICK added : added = AddToUnspentIndex(freed, o, h) /\ Keeps(freed, added)
    BY IndexKeeps
<1>3. \/ TakePlace(s, o, h) = added
      \/ \E k, v, f : TakePlace(s, o, h) = PutWithUndo(added, k, v, f)
    BY <1>1, <1>2 DEF TakePlace
<1>4. Keeps(added, TakePlace(s, o, h))
    BY <1>3, PutKeeps, KeepsSelf
<1>5. Keeps(s, added)
    BY <1>1, <1>2, KeepsChain
<1>6. QED
    BY <1>4, <1>5, KeepsChain

LEMMA AddIncomingOutputKeeps ==
    ASSUME NEW s, NEW o, NEW h, NEW j
    PROVE  Keeps(s, AddIncomingOutput(s, o, h, j))
<1>1. AddIncomingOutput(s, o, h, j) \in {s, AddToLockIndex(s, o, h), TakePlace(s, o, h)}
    BY DEF AddIncomingOutput
<1>2. QED
    BY <1>1, IndexKeeps, TakePlaceKeeps, KeepsSelf

LEMMA UnlockOutputKeeps ==
    ASSUME NEW s, NEW o, NEW now
    PROVE  Keeps(s, UnlockOutput(s, o, now))
<1>1. PICK h : h = s.db[<<"locked", o>>]
    OBVIOUS
<1>2. PICK t : t = RemoveFromLockIndex(s, o) /\ Keeps(s, t)
    BY IndexKeeps
<1>3. PICK u : u = AddIncomingOutput(t, o, h, TRUE) /\ Keeps(t, u)
    BY AddIncomingOutputKeeps
<1>4. UnlockOutput(s, o, now) = PutWithUndo(u, <<"unlocked", now, o>>, h, TRUE)
    BY <1>1, <1>2, <1>3 DEF UnlockOutput
<1>5. Keeps(u, UnlockOutput(s, o, now))
    BY <1>4, PutKeeps
<1>6. Keeps(s, u)
    BY <1>2, <1>3, KeepsChain
<1>7. QED
    BY <1>5, <1>6, KeepsChain

LEMMA SpendKeyImageKeeps ==
    ASSUME NEW s, NEW k
    PROVE  Keeps(s, SpendKeyImage(s, k))
<1>1. SpendKeyImage(s, k) = s \/ \E o, h : SpendKeyImage(s, k) = RemoveFromUnspentIndex(s, o, h)
    BY DEF SpendKeyImage
<1>2. QED
    BY <1>1, IndexKeeps, KeepsSelf

-----------------------------------------------------------------------------
\* The order of calls.

LEMMA LenOrder ==
    ASSUME NEW c, InOrder(c)
    PROVE  Len(c) \in Nat /\ (c # <<>> => 1 \in 1..Len(c))
<1>1. PICK S : c \in Seq(S)
    BY DEF InOrder, IsSeq
<1>2. QED
    BY <1>1

\* A call inside of a block has the push of the block and the loop behind it.
LEMMA InsideBlock ==
    ASSUME NEW c, InOrder(c), c # <<>>, c[1][1] \notin Loops
    PROVE  Len(c) > 1 /\ (c[1][1] # "push" => Len(c) > 2)
<1>1. Len(c) \in Nat /\ 1 \in 1..Len(c)
    BY LenOrder
<1>2. QED
    BY <1>1 DEF InOrder

\* Outside of a block there is the loop alone.
LEMMA OutsideBlock ==
    ASSUME NEW c, InOrder(c), c # <<>>, c[1][1] \in Loops
    PROVE  Len(c) = 1
<1>1. 1 \in 1..Len(c)
    BY LenOrder
<1>2. QED
    BY <1>1 DEF InOrder

\* The first of several calls is not the loop.
LEMMA NotLoop ==
    ASSUME NEW c, InOrder(c), Len(c) > 1
    PROVE  c[1][1] \notin Loops
<1>1. c # <<>> /\ Len(c) # 1
    OBVIOUS
<1>2. QED
    BY <1>1, OutsideBlock

\* The first call is done.
LEMMA TailInOrder ==
    ASSUME NEW c, InOrder(c), Len(c) > 1
    PROVE  InOrder(Tail(c)) /\ Len(Tail(c)) = Len(c) - 1
<1>1. PICK S : c \in Seq(S)
    BY DEF InOrder, IsSeq
<1>2. /\ Tail(c) \in Seq(S) /\ Len(Tail(c)) = Len(c) - 1
      /\ \A i \in 1..Len(Tail(c)) : Tail(c)[i] = c[i + 1]
    BY <1>1
<1>3. ASSUME NEW i \in 1..Len(Tail(c))
      PROVE  /\ Tail(c)[i][1] \in Loops <=> i = Len(Tail(c))
             /\ Tail(c)[i][1] = "push" <=> i = Len(Tail(c)) - 1
    <2>1. i + 1 \in 1..Len(c) /\ Len(c) \in Nat
        BY <1>1, <1>2
    <2>2. /\ c[i + 1][1] \in Loops <=> i + 1 = Len(c)
          /\ c[i + 1][1] = "push" <=> i + 1 = Len(c) - 1
        BY <2>1 DEF InOrder
    <2>3. /\ i + 1 = Len(c) <=> i = Len(Tail(c))
          /\ i + 1 = Len(c) - 1 <=> i = Len(Tail(c)) - 1
        BY <1>2, <2>1
    <2>4. Tail(c)[i] = c[i + 1]
        BY <1>2
    <2>5. QED
        BY <2>2, <2>3, <2>4, Zenon
<1>4. Len(Tail(c)) > 1 => Tail(c)[Len(Tail(c))][1] = "next"
    <2>1. Tail(c)[Len(c) - 1] = c[Len(c)]
        BY <1>1
    <2>2. QED
        BY <1>2, <2>1 DEF InOrder
<1>5. QED
    BY <1>2, <1>3, <1>4 DEF InOrder, IsSeq

\* Calls of the middle of a block are put before the others.
LEMMA PrependInOrder ==
    ASSUME NEW c, InOrder(c), Len(c) > 1, NEW p, IsSeq(p),
           \A i \in 1..Len(p) : p[i][1] \notin Loops /\ p[i][1] # "push"
    PROVE  InOrder(p \o c) /\ Len(p \o c) > 1
<1>1. PICK S : c \in Seq(S)
    BY DEF InOrder, IsSeq
<1>2. PICK T : p \in Seq(T)
    BY DEF IsSeq
<1>3. c \in Seq(S \cup T) /\ p \in Seq(S \cup T)
    BY <1>1, <1>2
<1>4. /\ p \o c \in Seq(S \cup T) /\ Len(p \o c) = Len(p) + Len(c)
      /\ Len(p) \in Nat /\ Len(c) \in Nat
      /\ \A i \in 1..Len(p \o c) : (p \o c)[i] = IF i <= Len(p) THEN p[i] ELSE c[i - Len(p)]
    BY <1>3
<1>5. ASSUME NEW i \in 1..Len(p \o c)
      PROVE  /\ (p \o c)[i][1] \in Loops <=> i = Len(p \o c)
             /\ (p \o c)[i][1] = "push" <=> i = Len(p \o c) - 1
    <2>1. CASE i <= Len(p)
        <3>1. i \in 1..Len(p) /\ (p \o c)[i] = p[i]
            BY <1>4, <2>1
        <3>2. QED
            BY <1>4, <2>1, <3>1
    <2>2. CASE i > Len(p)
        <3>1. i - Len(p) \in 1..Len(c) /\ (p \o c)[i] = c[i - Len(p)]
            BY <1>4, <2>2
        <3>2. /\ c[i - Len(p)][1] \in Loops <=> i - Len(p) = Len(c)
              /\ c[i - Len(p)][1] = "push" <=> i - Len(p) = Len(c) - 1
            BY <3>1 DEF InOrder
        <3>3. QED
            BY <1>4, <2>2, <3>1, <3>2
    <2>3. QED
        BY <1>4, <2>1, <2>2
<1>6. (p \o c)[Len(p \o c)][1] = "next"
    <2>1. (p \o c)[Len(p \o c)] = c[Len(c)]
        BY <1>4
    <2>2. QED
        BY <2>1 DEF InOrder
<1>7. QED
    BY <1>4, <1>5, <1>6 DEF InOrder, IsSeq

\* A call of a block that changes the tables under undo and no more.
LEMMA BlockCall ==
    ASSUME Inv, NEW op, Running(op), op \notin Loops, op # "push",
           \/ calls' = Tail(calls)
           \/ \E p : /\ calls' = p \o Tail(calls) /\ IsSeq(p)
                     /\ \A i \in 1..Len(p) : p[i][1] \notin Loops /\ p[i][1] # "push",
           Keeps(Now, [db |-> db', cur |-> cur']), UNCHANGED <<chain, answer, disk>>
    PROVE  Inv'
<1>1. InOrder(calls) /\ calls # <<>> /\ calls[1][1] = op
    BY DEF Inv, Calling, Running
<1>2. Len(calls) > 2 /\ Len(calls) > 1 /\ Len(calls) \in Nat
    BY <1>1, InsideBlock, LenOrder
<1>3. InOrder(Tail(calls)) /\ Len(Tail(calls)) > 1
    BY <1>1, <1>2, TailInOrder
<1>4. InOrder(calls') /\ Len(calls') > 1
    BY <1>3, PrependInOrder
<1>5. ~(Running("undo"))'
    <2>1. calls'[1][1] \notin Loops
        BY <1>4, NotLoop
    <2>2. QED
        BY <2>1 DEF Running, Loops
<1>6. Calling'
    <2>1. ~(Len(calls') <= 1)
        <3>1. Len(calls') \in Nat
            BY <1>4, LenOrder
        <3>2. QED
            BY <1>4, <3>1
    <2>2. answer' \in Seq(Blocks) /\ answer' # <<>>
        BY <1>2 DEF Inv, Calling
    <2>3. QED
        BY <1>4, <1>5, <2>1, <2>2 DEF Calling
<1>7. IsDb(db') /\ Restore(db', cur') = Restore(db, cur)
    BY DEF Inv, Tables, Keeps, Now
<1>8. Tables' /\ OnDisk'
    BY <1>7 DEF Inv, Tables, OnDisk, Base
<1>9. QED
    BY <1>6, <1>8 DEF Inv

-----------------------------------------------------------------------------
\* The chain and its undo records.

\* Nothing is recorded: the tables are the ones to go back to.
LEMMA RestoreNothing ==
    ASSUME NEW d, IsDb(d)
    PROVE  Restore(d, NoUndo) = d
<1>1. \A k \in Keys : k \notin DOMAIN NoUndo
    BY DEF NoUndo
<1>2. [k \in Keys |-> IF k \in DOMAIN NoUndo THEN NoUndo[k] ELSE d[k]] = [k \in Keys |-> d[k]]
    BY <1>1
<1>3. QED
    BY <1>2 DEF Restore, IsDb

\* What an undo record leads to is a full table again.
LEMMA RestoreIsDb ==
    ASSUME NEW d, NEW u
    PROVE  IsDb(Restore(d, u))
BY DEF IsDb, Restore

\* push_chain: a block with the record of how to leave it.
LEMMA PushExact ==
    ASSUME NEW ch, NEW base, Exact(ch, base), NEW e, NEW d, Restore(d, e.undo) = base,
           e.before = base
    PROVE  Exact(ch \o <<e>>, d)
<1>1. PICK S : ch \in Seq(S)
    BY DEF Exact, IsSeq
<1>2. ch \in Seq(S \cup {e}) /\ <<e>> \in Seq(S \cup {e}) /\ Len(ch) \in Nat
    BY <1>1
<1> DEFINE n == Len(ch)
           new == ch \o <<e>>
<1>3. /\ new \in Seq(S \cup {e}) /\ Len(new) = n + 1 /\ new[n + 1] = e
      /\ \A i \in 1..n : new[i] = ch[i]
    BY <1>2
<1> HIDE DEF n, new
<1>4. n \in Nat
    BY <1>2 DEF n
<1>5. ASSUME NEW i \in 1..Len(new)
      PROVE  Restore(BeforeIn(new, d, i + 1), new[i].undo) = new[i].before
    <2>1. CASE i = n + 1
        BY <1>3, <1>4, <2>1 DEF BeforeIn
    <2>2. CASE i = n
        <3>1. i \in 1..n /\ i + 1 > Len(ch) /\ ~(i + 1 > Len(new)) /\ i \in 1..Len(ch)
            BY <1>3, <1>4, <2>2 DEF n
        <3>2. BeforeIn(new, d, i + 1) = base
            BY <1>3, <2>2, <3>1 DEF BeforeIn
        <3>3. BeforeIn(ch, base, i + 1) = base
            BY <3>1 DEF BeforeIn
        <3>4. QED
            BY <1>3, <3>1, <3>2, <3>3 DEF Exact
    <2>3. CASE i < n
        <3>1. /\ i \in 1..n /\ ~(i + 1 > Len(ch)) /\ ~(i + 1 > Len(new)) /\ i \in 1..Len(ch)
              /\ i + 1 \in 1..n
            BY <1>3, <1>4, <2>3 DEF n
        <3>2. BeforeIn(new, d, i + 1) = BeforeIn(ch, base, i + 1)
            BY <1>3, <3>1 DEF BeforeIn
        <3>3. QED
            BY <1>3, <3>1, <3>2 DEF Exact
    <2>4. QED
        BY <1>3, <1>4, <2>1, <2>2, <2>3
<1>6. QED
    BY <1>3, <1>5 DEF Exact, IsSeq, new

\* pop_chain: the tables of the time before the last block are back.
LEMMA PopExact ==
    ASSUME NEW ch, NEW d, Exact(ch, d), ch # <<>>
    PROVE  /\ Restore(d, ch[Len(ch)].undo) = ch[Len(ch)].before
           /\ Exact(SubSeq(ch, 1, Len(ch) - 1), ch[Len(ch)].before)
<1>1. PICK S : ch \in Seq(S)
    BY DEF Exact, IsSeq
<1> DEFINE n == Len(ch)
           new == SubSeq(ch, 1, n - 1)
<1>2. n \in Nat /\ n > 0
    BY <1>1
<1>3. /\ new \in Seq(S) /\ Len(new) = n - 1
      /\ \A i \in 1..n - 1 : new[i] = ch[i]
    <2>1. n - 1 \in Nat /\ n - 1 <= Len(ch)
        BY <1>2
    <2> HIDE DEF n
    <2>2. new \in Seq(S) /\ Len(new) = n - 1
        BY <1>1, <2>1
    <2>3. \A i \in 1..n - 1 : new[i] = ch[i]
        BY <1>1, <2>1
    <2>4. QED
        BY <2>2, <2>3
<1> HIDE DEF n, new
<1>4. Restore(d, ch[n].undo) = ch[n].before
    <2>1. n \in 1..Len(ch) /\ n + 1 > Len(ch)
        BY <1>2 DEF n
    <2>2. BeforeIn(ch, d, n + 1) = d
        BY <2>1 DEF BeforeIn
    <2>3. QED
        BY <2>1, <2>2 DEF Exact
<1>5. ASSUME NEW i \in 1..Len(new)
      PROVE  Restore(BeforeIn(new, ch[n].before, i + 1), new[i].undo) = new[i].before
    <2>1. i \in 1..n - 1 /\ i \in 1..Len(ch) /\ ~(i + 1 > Len(ch)) /\ new[i] = ch[i]
        BY <1>2, <1>3 DEF n
    <2>2. BeforeIn(ch, d, i + 1) = ch[i + 1].before
        BY <2>1 DEF BeforeIn
    <2>3. BeforeIn(new, ch[n].before, i + 1) = ch[i + 1].before
        <3>1. CASE i = n - 1
            BY <1>2, <1>3, <3>1 DEF BeforeIn
        <3>2. CASE i < n - 1
            <4>1. ~(i + 1 > Len(new)) /\ i + 1 \in 1..n - 1
                BY <1>2, <1>3, <2>1, <3>2
            <4>2. QED
                BY <1>3, <4>1 DEF BeforeIn
        <3>3. QED
            BY <1>2, <2>1, <3>1, <3>2
    <2>4. QED
        BY <2>1, <2>2, <2>3 DEF Exact
<1>6. QED
    BY <1>3, <1>4, <1>5 DEF Exact, IsSeq, n, new

\* fix_empty_chain: the genesis block changed nothing.
LEMMA FixEmptyExact ==
    ASSUME NEW ch, NEW d, IsDb(d), ch = <<>> \/ Exact(ch, d)
    PROVE  Exact(FixEmpty(ch, d), d)
<1>1. CASE ch = <<>>
    <2> DEFINE e == [block |-> Genesis, undo |-> NoUndo, before |-> d]
    <2>1. e.undo = NoUndo /\ e.before = d /\ FixEmpty(ch, d) = <<e>>
        BY <1>1 DEF FixEmpty
    <2> HIDE DEF e
    <2>2. <<e>> \in Seq({e}) /\ Len(<<e>>) = 1 /\ <<e>>[1] = e
        OBVIOUS
    <2>3. Restore(BeforeIn(<<e>>, d, 2), e.undo) = e.before
        BY <2>1, <2>2, RestoreNothing DEF BeforeIn
    <2>4. \A i \in 1..Len(<<e>>) : Restore(BeforeIn(<<e>>, d, i + 1), <<e>>[i].undo) = <<e>>[i].before
        <3>1. \A i \in 1..Len(<<e>>) : i = 1 /\ i + 1 = 2
            BY <2>2
        <3>2. QED
            BY <2>2, <2>3, <3>1
    <2>5. IsSeq(<<e>>)
        BY <2>2 DEF IsSeq
    <2>6. QED
        BY <2>1, <2>4, <2>5 DEF Exact
<1>2. CASE ch # <<>>
    BY <1>2 DEF FixEmpty
<1>3. QED
    BY <1>1, <1>2

-----------------------------------------------------------------------------
\* Handlers.

\* The calls at the start and the end of a handler, and of a block.
LEMMA LoopInOrder ==
    /\ InOrder(<<>>) /\ Len(<<>>) = 0
    /\ \A op \in Loops : \A x : InOrder(<<<<op, x>>>>) /\ Len(<<<<op, x>>>>) = 1
<1>1. InOrder(<<>>) /\ Len(<<>>) = 0
    <2>1. <<>> \in Seq({}) /\ Len(<<>>) = 0
        OBVIOUS
    <2>2. QED
        BY <2>1 DEF InOrder, IsSeq
<1>2. ASSUME NEW op \in Loops, NEW x
      PROVE  InOrder(<<<<op, x>>>>) /\ Len(<<<<op, x>>>>) = 1
    <2> DEFINE c == <<<<op, x>>>>
    <2>1. c \in Seq({<<op, x>>}) /\ Len(c) = 1 /\ c[1][1] = op /\ op # "push"
        BY DEF Loops
    <2> HIDE DEF c
    <2>2. ASSUME NEW i \in 1..Len(c)
          PROVE  (c[i][1] \in Loops <=> i = Len(c)) /\ (c[i][1] = "push" <=> i = Len(c) - 1)
        <3>1. i = 1
            BY <2>1
        <3>2. QED
            BY <2>1, <3>1
    <2>3. IsSeq(c) /\ ~(Len(c) > 1)
        BY <2>1 DEF IsSeq
    <2>4. InOrder(c)
        BY <2>2, <2>3 DEF InOrder
    <2>5. QED
        BY <2>1, <2>4 DEF c
<1>3. QED
    BY <1>1, <1>2

LEMMA BlockInOrder ==
    ASSUME NEW x
    PROVE  /\ InOrder(<<<<"ripe", x>>, <<"push", x>>, <<"next", x>>>>)
           /\ Len(<<<<"ripe", x>>, <<"push", x>>, <<"next", x>>>>) > 1
<1> DEFINE c == <<<<"ripe", x>>, <<"push", x>>, <<"next", x>>>>
<1>1. /\ c \in Seq({<<"ripe", x>>, <<"push", x>>, <<"next", x>>}) /\ Len(c) = 3
      /\ c[1][1] = "ripe" /\ c[2][1] = "push" /\ c[3][1] = "next"
    OBVIOUS
<1> HIDE DEF c
<1>2. ASSUME NEW i \in 1..Len(c)
      PROVE  (c[i][1] \in Loops <=> i = Len(c)) /\ (c[i][1] = "push" <=> i = Len(c) - 1)
    <2>1. i \in {1, 2, 3}
        BY <1>1
    <2>2. QED
        BY <1>1, <2>1 DEF Loops
<1>3. InOrder(c) /\ Len(c) > 1
    BY <1>1, <1>2 DEF InOrder, IsSeq
<1>4. QED
    BY <1>3 DEF c

\* Outside of a block the tables are the base.
LEMMA AtLoop ==
    ASSUME Inv, Len(calls) <= 1
    PROVE  cur = NoUndo /\ Base = db /\ Exact(chain, db)
BY RestoreNothing DEF Inv, Calling, Tables, Base

\* A step that ends outside of a block.
LEMMA OutsideKeeps ==
    ASSUME cur' = NoUndo, InOrder(calls'), Len(calls') <= 1, answer' \in Seq(Blocks),
           (Running("undo") => IsAnswer(answer))', IsDb(db'), Exact(chain', db'), OnDisk'
    PROVE  Inv'
<1>1. Base' = db'
    BY RestoreNothing DEF Base
<1>2. Tables'
    BY <1>1 DEF Tables
<1>3. Len(calls') \in Nat
    BY LenOrder
<1>4. Calling'
    BY <1>3 DEF Calling
<1>5. QED
    BY <1>2, <1>4 DEF Inv

\* A running loop is the only call; without a call there is nothing recorded.
LEMMA LoopAlone ==
    ASSUME Inv, NEW op \in Loops, Running(op)
    PROVE  Len(calls) = 1 /\ Len(calls) <= 1
<1>1. InOrder(calls) /\ calls # <<>> /\ calls[1][1] \in Loops
    BY DEF Inv, Calling, Running
<1>2. Len(calls) = 1
    BY <1>1, OutsideBlock
<1>3. QED
    BY <1>2

LEMMA IdleAlone ==
    ASSUME Inv, Idle
    PROVE  Len(calls) <= 1
<1>1. calls = <<>>
    BY DEF Idle
<1>2. Len(calls) = 0
    BY <1>1
<1>3. QED
    BY <1>2

\* A step that leaves the tables, the chain and the calls alone.
LEMMA Stays ==
    ASSUME Inv, UNCHANGED <<tables, chain, answer, calls, disk>>
    PROVE  Inv'
<1>1. Calling'
    BY DEF Inv, Calling, tables, Running
<1>2. Tables' /\ OnDisk'
    BY DEF Inv, Tables, OnDisk, tables, Base
<1>3. QED
    BY <1>1, <1>2 DEF Inv

-----------------------------------------------------------------------------
\* A set of numbers has a least one.
LEMMA Least ==
    ASSUME NEW S, S # {}, S \subseteq Nat
    PROVE  \E p \in S : \A q \in S : p <= q
<1>1. PICK p \in S : \A q \in S : ~(<<q, p>> \in OpToRel(<, Nat))
    BY NatLessThanWellFounded, WFMin
<1>2. ASSUME NEW q \in S PROVE p <= q
    <2>1. OpToRel(<, Nat) = {x \in Nat \X Nat : x[1] < x[2]}
        BY DEF OpToRel
    <2>2. q < p => <<q, p>> \in {x \in Nat \X Nat : x[1] < x[2]}
        OBVIOUS
    <2>3. ~(q < p)
        BY <1>1, <2>1, <2>2, Zenon
    <2>4. QED
        BY <2>3
<1>3. QED
    BY <1>2

\* The blocks of an answer go up one by one: there is no first one that does
\* not.
LEMMA AnswerHeights ==
    ASSUME NEW s \in Seq(Blocks), IsAnswer(s), NEW i \in 1..Len(s)
    PROVE  Height[s[i]] = Height[s[1]] + i - 1
<1> DEFINE T == {j \in 1..Len(s) : Height[s[j]] # Height[s[1]] + j - 1}
<1>1. SUFFICES ASSUME T # {} PROVE FALSE
    OBVIOUS
<1>2. T \subseteq Nat
    OBVIOUS
<1>3. PICK j \in T : \A q \in T : j <= q
    BY <1>1, <1>2, Least
<1>4. j \in 1..Len(s) /\ Height[s[j]] # Height[s[1]] + j - 1
    OBVIOUS
<1>5. \A b \in Blocks : Height[b] \in Nat
    BY WalletAssumption DEF WalletAssumption
<1>6. 1 \in 1..Len(s) /\ Len(s) \in Nat
    BY <1>4
<1>7. j # 1
    BY <1>4, <1>5, <1>6
<1>8. j - 1 \in 1..Len(s) - 1 /\ j - 1 \in 1..Len(s)
    BY <1>4, <1>6, <1>7
<1>9. ~(j <= j - 1)
    BY <1>4
<1>10. Height[s[j - 1]] = Height[s[1]] + (j - 1) - 1
    BY <1>3, <1>8, <1>9
<1>11. Parent[s[j]] = s[j - 1] /\ s[j] # Genesis
    <2>1. (j - 1) + 1 = j
        BY <1>4
    <2>2. QED
        BY <1>8, <2>1 DEF IsAnswer
<1>12. Height[s[j]] = Height[s[j - 1]] + 1
    <2>1. s[j] \in Blocks \ {Genesis}
        BY <1>4, <1>11
    <2>2. QED
        BY <1>11, <2>1, WalletAssumption DEF WalletAssumption
<1>13. Height[s[1]] \in Nat /\ j \in Nat
    BY <1>4, <1>5, <1>6
<1>14. Height[s[j]] = Height[s[1]] + j - 1
    BY <1>10, <1>12, <1>13, SMTT(30)
<1>15. QED
    BY <1>4, <1>14

\* The tip is in the answer, and what is above it is left.
LEMMA StartRedoKeeps ==
    ASSUME Inv, StartRedo
    PROVE  Inv'
<1>1. /\ Running("undo") /\ (chain # <<>> => OnAnswer(Tip)) /\ calls' = <<<<"next", Genesis>>>>
      /\ answer' = IF chain = <<>> THEN answer ELSE SubSeq(answer, Height[Tip] - At + 2, Len(answer))
      /\ UNCHANGED <<db, cur, trapped, chain, disk>>
    BY DEF StartRedo, tables
<1>2. Len(calls) <= 1
    BY <1>1, LoopAlone DEF Loops
<1>3. IsAnswer(answer) /\ answer \in Seq(Blocks)
    BY <1>1 DEF Inv, Calling
<1>4. answer' \in Seq(Blocks)
    <2>1. CASE chain = <<>>
        BY <1>1, <1>3, <2>1
    <2>2. CASE chain # <<>>
        <3>1. PICK i \in 1..Len(answer) : answer[i] = Tip
            BY <1>1, <2>2 DEF OnAnswer
        <3>2. Height[answer[i]] = Height[answer[1]] + i - 1
            BY <1>3, AnswerHeights
        <3>3. Height[answer[1]] \in Nat
            <4>1. answer[1] \in Blocks
                BY <1>3, <3>1
            <4>2. QED
                BY <4>1, WalletAssumption DEF WalletAssumption
        <3>4. Height[Tip] - At + 2 = i + 1
            BY <3>1, <3>2, <3>3 DEF At
        <3>5. QED
            BY <1>1, <1>3, <2>2, <3>4
    <2>3. QED
        BY <2>1, <2>2
<1>5. InOrder(calls') /\ Len(calls') <= 1
    BY <1>1, LoopInOrder DEF Loops
<1>6. ~(Running("undo"))'
    BY <1>1 DEF Running
<1>7. cur = NoUndo /\ Exact(chain, db)
    BY <1>2, AtLoop
<1>8. IsDb(db') /\ OnDisk'
    BY <1>1 DEF Inv, Tables, OnDisk
<1>9. QED
    BY <1>1, <1>4, <1>5, <1>6, <1>7, <1>8, OutsideKeeps

\* A block is popped by one of the two loops that do it.
LEMMA PopKeeps ==
    ASSUME Inv, NEW op \in Loops, Running(op), chain # <<>>, PopChain, UNCHANGED <<answer, calls, disk>>
    PROVE  Inv'
<1>1. Len(calls) <= 1
    BY LoopAlone
<1>2. cur = NoUndo /\ Exact(chain, db)
    BY <1>1, AtLoop
<1>3. /\ db' = Restore(db, chain[Len(chain)].undo) /\ chain' = SubSeq(chain, 1, Len(chain) - 1)
      /\ UNCHANGED <<cur, trapped>>
    BY DEF PopChain
<1>4. db' = chain[Len(chain)].before /\ Exact(chain', db')
    BY <1>2, <1>3, PopExact
<1>5. IsDb(db')
    BY <1>3, RestoreIsDb
<1>6. InOrder(calls') /\ answer' \in Seq(Blocks) /\ (Running("undo") => IsAnswer(answer))'
    BY <1>3 DEF Inv, Calling, Running
<1>7. OnDisk'
    BY DEF Inv, OnDisk
<1>8. QED
    BY <1>1, <1>2, <1>3, <1>4, <1>5, <1>6, <1>7, OutsideKeeps

\* The block is done: its record is pushed, and the loop goes on.
LEMMA PushChainKeeps ==
    ASSUME Inv, PushChain
    PROVE  Inv'
<1>1. /\ Running("push") /\ chain' = Pushed(answer[1]) /\ cur' = NoUndo /\ answer' = Tail(answer)
      /\ calls' = Tail(calls) /\ UNCHANGED <<db, disk>>
    BY DEF PushChain, Rest
<1>2. InOrder(calls) /\ calls # <<>> /\ calls[1][1] = "push"
    BY <1>1 DEF Inv, Calling, Running
<1>3. Len(calls) \in Nat /\ 1 \in 1..Len(calls)
    BY <1>2, LenOrder
<1>4. Len(calls) = 2
    <2>1. 1 = Len(calls) - 1
        BY <1>2, <1>3 DEF InOrder
    <2>2. QED
        BY <1>3, <2>1
<1>5. InOrder(calls') /\ Len(calls') = 1
    <2>1. Len(calls) > 1
        BY <1>4
    <2>2. InOrder(Tail(calls)) /\ Len(Tail(calls)) = Len(calls) - 1
        BY <1>2, <2>1, TailInOrder
    <2>3. QED
        BY <1>1, <1>4, <2>2
<1>6. calls'[1][1] = "next"
    <2>1. PICK S : calls \in Seq(S)
        BY <1>2 DEF InOrder, IsSeq
    <2>2. Tail(calls)[1] = calls[2]
        BY <1>4, <2>1
    <2>3. calls[2][1] = "next"
        BY <1>2, <1>4 DEF InOrder
    <2>4. QED
        BY <1>1, <2>2, <2>3
<1>7. answer \in Seq(Blocks) /\ answer # <<>>
    BY <1>4 DEF Inv, Calling
<1>8. answer' \in Seq(Blocks)
    BY <1>1, <1>7
<1>9. Exact(chain', db')
    <2> DEFINE e == [block |-> answer[1], undo |-> cur, before |-> Base]
    <2>1. chain' = chain \o <<e>> /\ e.undo = cur /\ e.before = Base
        BY <1>1 DEF Pushed, Base
    <2> HIDE DEF e
    <2>2. Restore(db, e.undo) = Base /\ Exact(chain, Base)
        BY <2>1 DEF Base, Inv, Tables
    <2>3. QED
        BY <1>1, <2>1, <2>2, PushExact
<1>10. ~(Running("undo"))' /\ Len(calls') <= 1
    BY <1>5, <1>6 DEF Running
<1>11. IsDb(db') /\ OnDisk'
    BY <1>1 DEF Inv, Tables, OnDisk
<1>12. QED
    BY <1>1, <1>5, <1>8, <1>9, <1>10, <1>11, OutsideKeeps

-----------------------------------------------------------------------------
\* The calls of a block.

\* Calls of the middle of a block.
LEMMA MiddleCalls ==
    ASSUME NEW o1 \in {"outputs", "keyimages", "unlock", "spend", "tx"}, NEW a1,
           NEW o2 \in {"outputs", "keyimages", "unlock", "spend", "tx"}, NEW a2,
           NEW o3 \in {"outputs", "keyimages", "unlock", "spend", "tx"}, NEW a3
    PROVE  /\ IsSeq(<<<<o1, a1>>>>) /\ IsSeq(<<<<o1, a1>>, <<o2, a2>>, <<o3, a3>>>>)
           /\ \A i \in 1..Len(<<<<o1, a1>>>>) :
                <<<<o1, a1>>>>[i][1] \notin Loops /\ <<<<o1, a1>>>>[i][1] # "push"
           /\ \A i \in 1..Len(<<<<o1, a1>>, <<o2, a2>>, <<o3, a3>>>>) :
                /\ <<<<o1, a1>>, <<o2, a2>>, <<o3, a3>>>>[i][1] \notin Loops
                /\ <<<<o1, a1>>, <<o2, a2>>, <<o3, a3>>>>[i][1] # "push"
<1> DEFINE c == <<<<o1, a1>>>>
           d == <<<<o1, a1>>, <<o2, a2>>, <<o3, a3>>>>
<1>1. /\ c \in Seq({<<o1, a1>>}) /\ Len(c) = 1 /\ c[1][1] = o1
      /\ d \in Seq({<<o1, a1>>, <<o2, a2>>, <<o3, a3>>}) /\ Len(d) = 3
      /\ d[1][1] = o1 /\ d[2][1] = o2 /\ d[3][1] = o3
    OBVIOUS
<1>2. \A o \in {o1, o2, o3} : o \notin Loops /\ o # "push"
    BY DEF Loops
<1> HIDE DEF c, d
<1>3. IsSeq(c) /\ IsSeq(d)
    BY <1>1 DEF IsSeq
<1>4. \A i \in 1..Len(c) : i = 1
    BY <1>1
<1>5. \A i \in 1..Len(d) : i \in {1, 2, 3}
    BY <1>1
<1>6. \A i \in 1..Len(c) : c[i][1] \notin Loops /\ c[i][1] # "push"
    BY <1>1, <1>2, <1>4
<1>7. \A i \in 1..Len(d) : d[i][1] \notin Loops /\ d[i][1] # "push"
    BY <1>1, <1>2, <1>5
<1>8. QED
    BY <1>3, <1>6, <1>7 DEF c, d

\* What an operation on the tables makes of them.
LEMMA SetKeeps ==
    ASSUME NEW t, Set(t), Keeps(Now, t)
    PROVE  Keeps(Now, [db |-> db', cur |-> cur'])
BY DEF Set, Keeps

LEMMA TablesStay ==
    ASSUME UNCHANGED tables
    PROVE  Keeps(Now, [db |-> db', cur |-> cur'])
BY DEF tables, Keeps, Now

\* Names of calls that are neither a loop nor a push.
LEMMA Middle ==
    \A o \in {"redo", "ripe", "outputs", "keyimages", "unlock", "spend", "tx"} : o \notin Loops /\ o # "push"
BY DEF Loops

\* Each call of redo_block but the push.
LEMMA RedoKeeps ==
    ASSUME Inv, RedoTransaction \/ AddOutput \/ AddKeyImage \/ UnlockNext \/ Spend
                \/ AddTransaction \/ UnlockBlock
    PROVE  Inv'
<1>1. CASE RedoTransaction
    <2>1. /\ Running("redo") /\ UNCHANGED <<tables, chain, answer, disk>>
          /\ \/ calls' = Tail(calls)
             \/ \E a, b, t : calls' = <<<<"outputs", a>>, <<"keyimages", b>>, <<"tx", t>>>> \o Tail(calls)
        BY <1>1 DEF RedoTransaction, Rest
    <2>2. \/ calls' = Tail(calls)
          \/ \E p : /\ calls' = p \o Tail(calls) /\ IsSeq(p)
                    /\ \A i \in 1..Len(p) : p[i][1] \notin Loops /\ p[i][1] # "push"
        BY <2>1, MiddleCalls
    <2>3. QED
        BY <2>1, <2>2, TablesStay, Middle, BlockCall
<1>2. CASE AddOutput
    <2>1. Running("outputs") /\ UNCHANGED <<chain, answer, disk>>
        BY <1>2 DEF AddOutput
    <2>2. \/ calls' = Tail(calls) /\ UNCHANGED tables
          \/ \E o, a : Set(AddIncomingOutput(Now, o, At, FALSE)) /\ calls' = <<<<"outputs", a>>>> \o Tail(calls)
        BY <1>2 DEF AddOutput, Rest
    <2>3. Keeps(Now, [db |-> db', cur |-> cur'])
        BY <2>2, TablesStay, AddIncomingOutputKeeps, SetKeeps
    <2>4. \/ calls' = Tail(calls)
          \/ \E p : /\ calls' = p \o Tail(calls) /\ IsSeq(p)
                    /\ \A i \in 1..Len(p) : p[i][1] \notin Loops /\ p[i][1] # "push"
        BY <2>2, MiddleCalls
    <2>5. QED
        BY <2>1, <2>3, <2>4, Middle, BlockCall
<1>3. CASE AddKeyImage
    <2>1. /\ Running("keyimages") /\ UNCHANGED <<tables, chain, answer, disk>>
          /\ \/ calls' = Tail(calls)
             \/ \E a, b, k : calls' = <<<<"unlock", a>>, <<"spend", k>>, <<"keyimages", b>>>> \o Tail(calls)
        BY <1>3 DEF AddKeyImage, Rest
    <2>2. \/ calls' = Tail(calls)
          \/ \E p : /\ calls' = p \o Tail(calls) /\ IsSeq(p)
                    /\ \A i \in 1..Len(p) : p[i][1] \notin Loops /\ p[i][1] # "push"
        BY <2>1, MiddleCalls
    <2>3. QED
        BY <2>1, <2>2, TablesStay, Middle, BlockCall
<1>4. CASE UnlockNext
    <2>1. Running("unlock") /\ UNCHANGED <<chain, answer, disk>>
        BY <1>4 DEF UnlockNext
    <2>2. \/ calls' = Tail(calls) /\ UNCHANGED tables
          \/ \E o, a : Set(UnlockOutput(Now, o, At)) /\ calls' = <<<<"unlock", a>>>> \o Tail(calls)
        BY <1>4 DEF UnlockNext, Rest
    <2>3. Keeps(Now, [db |-> db', cur |-> cur'])
        BY <2>2, TablesStay, UnlockOutputKeeps, SetKeeps
    <2>4. \/ calls' = Tail(calls)
          \/ \E p : /\ calls' = p \o Tail(calls) /\ IsSeq(p)
                    /\ \A i \in 1..Len(p) : p[i][1] \notin Loops /\ p[i][1] # "push"
        BY <2>2, MiddleCalls
    <2>5. QED
        BY <2>1, <2>3, <2>4, Middle, BlockCall
<1>5. CASE Spend
    <2>1. /\ Running("spend") /\ UNCHANGED <<chain, answer, disk>> /\ calls' = Tail(calls)
          /\ Set(SpendKeyImage(Now, Arg))
        BY <1>5 DEF Spend, Rest
    <2>2. Keeps(Now, [db |-> db', cur |-> cur'])
        BY <2>1, SpendKeyImageKeeps, SetKeeps
    <2>3. QED
        BY <2>1, <2>2, Middle, BlockCall
<1>6. CASE AddTransaction
    <2>1. /\ Running("tx") /\ UNCHANGED <<chain, answer, disk>> /\ calls' = Tail(calls)
          /\ Set(PutWithUndo(Now, <<"tx", Arg>>, At, TRUE))
        BY <1>6 DEF AddTransaction, Rest
    <2>2. Keeps(Now, [db |-> db', cur |-> cur'])
        BY <2>1, PutKeeps, SetKeeps
    <2>3. QED
        BY <2>1, <2>2, Middle, BlockCall
<1>7. CASE UnlockBlock
    <2>1. /\ Running("ripe") /\ UNCHANGED <<tables, chain, answer, disk>>
          /\ \E a : calls' = <<<<"unlock", a>>>> \o Tail(calls)
        BY <1>7 DEF UnlockBlock, Rest
    <2>2. \E p : /\ calls' = p \o Tail(calls) /\ IsSeq(p)
                 /\ \A i \in 1..Len(p) : p[i][1] \notin Loops /\ p[i][1] # "push"
        BY <2>1, MiddleCalls
    <2>3. QED
        BY <2>1, <2>2, TablesStay, Middle, BlockCall
<1>8. QED
    BY <1>1, <1>2, <1>3, <1>4, <1>5, <1>6, <1>7

\* redo_block starts: its transactions, the unlocks and the push.
LEMMA RedoBlockKeeps ==
    ASSUME Inv, RedoBlock
    PROVE  Inv'
<1> DEFINE b == <<<<"ripe", Genesis>>, <<"push", Genesis>>, <<"next", Genesis>>>>
           p == Each("redo", TxsOf[answer[1]])
<1>1. /\ Running("next") /\ answer # <<>> /\ calls' = p \o b
      /\ UNCHANGED <<db, cur, trapped, chain, answer, disk>>
    BY DEF RedoBlock, tables
<1>2. InOrder(b) /\ Len(b) > 1
    BY BlockInOrder
<1> HIDE DEF b
<1>3. PICK s \in Seq(Txs) : p = Each("redo", s)
    <2>1. answer[1] \in Blocks
        BY <1>1 DEF Inv, Calling
    <2>2. QED
        BY <2>1, WalletAssumption DEF WalletAssumption
<1>4. IsSeq(p) /\ \A i \in 1..Len(p) : p[i][1] = "redo"
    <2> HIDE DEF p
    <2>1. p = [i \in 1..Len(s) |-> <<"redo", s[i]>>]
        BY <1>3 DEF Each
    <2>2. p \in Seq({"redo"} \X Txs) /\ Len(p) = Len(s)
        BY <2>1
    <2>3. QED
        BY <2>1, <2>2 DEF IsSeq
<1> HIDE DEF p
<1>5. InOrder(calls') /\ Len(calls') > 1 /\ Len(calls') \in Nat
    <2>1. \A i \in 1..Len(p) : p[i][1] \notin Loops /\ p[i][1] # "push"
        BY <1>4 DEF Loops
    <2>2. InOrder(p \o b) /\ Len(p \o b) > 1
        BY <1>2, <1>4, <2>1, PrependInOrder
    <2>3. QED
        BY <1>1, <2>2, LenOrder
<1>6. ~(Running("undo"))'
    <2>1. calls'[1][1] \notin Loops
        BY <1>5, NotLoop
    <2>2. QED
        BY <2>1 DEF Running, Loops
<1>7. Calling'
    <2>1. ~(Len(calls') <= 1)
        BY <1>5
    <2>2. answer' \in Seq(Blocks) /\ answer' # <<>>
        BY <1>1 DEF Inv, Calling
    <2>3. QED
        BY <1>5, <1>6, <2>1, <2>2 DEF Calling
<1>8. Tables' /\ OnDisk'
    BY <1>1 DEF Inv, Tables, OnDisk, Base
<1>9. QED
    BY <1>7, <1>8 DEF Inv

\* A handler starts or ends outside of a block.
LEMMA HandlerKeeps ==
    ASSUME Inv, Len(calls) <= 1, UNCHANGED <<db, cur, trapped, chain, disk>>,
           answer' \in Seq(Blocks),
           \/ calls' = <<>>
           \/ \E op \in Loops : \E x : calls' = <<<<op, x>>>> /\ (op = "undo" => IsAnswer(answer'))
    PROVE  Inv'
<1>1. cur = NoUndo /\ Exact(chain, db)
    BY AtLoop
<1>2. InOrder(calls') /\ Len(calls') \in {0, 1}
    BY LoopInOrder
<1>3. (Running("undo") => IsAnswer(answer))'
    BY DEF Running
<1>4. IsDb(db') /\ OnDisk' /\ Len(calls') <= 1
    <2>1. IsDb(db) /\ OnDisk /\ db' = db /\ disk' = disk
        BY DEF Inv, Tables
    <2>2. OnDisk'
        BY <2>1 DEF OnDisk
    <2>3. QED
        BY <1>2, <2>1, <2>2
<1>5. QED
    BY <1>1, <1>2, <1>3, <1>4, OutsideKeeps

LEMMA RescanEndsKeeps ==
    ASSUME Inv, RescanEnds
    PROVE  Inv'
<1>1. /\ Running("rescan") /\ chain' = FixEmpty(chain, db) /\ disk' = [db |-> db, chain |-> chain']
      /\ calls' = <<>> /\ UNCHANGED <<db, cur, answer>>
    BY DEF RescanEnds, tables
<1>2. Len(calls) <= 1
    BY <1>1, LoopAlone DEF Loops
<1>3. cur = NoUndo /\ Exact(chain, db) /\ IsDb(db)
    BY <1>2, AtLoop DEF Inv, Tables
<1>4. Exact(chain', db)
    BY <1>1, <1>3, FixEmptyExact
<1>5. disk'.db = db /\ disk'.chain = chain'
    BY <1>1
<1>6. OnDisk'
    BY <1>3, <1>4, <1>5 DEF OnDisk
<1>7. InOrder(calls') /\ Len(calls') <= 1 /\ ~(Running("undo"))' /\ answer' \in Seq(Blocks)
    BY <1>1, LoopInOrder DEF Running, Inv, Calling
<1>8. QED
    BY <1>1, <1>3, <1>4, <1>6, <1>7, OutsideKeeps

LEMMA DbCommitKeeps ==
    ASSUME Inv, DbCommit
    PROVE  Inv'
<1>1. /\ disk' = [db |-> db, chain |-> chain] /\ UNCHANGED <<db, cur, trapped, chain, answer, calls>>
      /\ Len(calls) <= 1
    BY IdleAlone DEF DbCommit, tables
<1>2. Exact(chain, db) /\ IsDb(db)
    BY <1>1, AtLoop DEF Inv, Tables
<1>3. disk'.db = db /\ disk'.chain = chain
    BY <1>1
<1>4. OnDisk'
    BY <1>2, <1>3 DEF OnDisk
<1>5. Calling' /\ Tables'
    BY <1>1 DEF Inv, Calling, Tables, Base, Running
<1>6. QED
    BY <1>4, <1>5 DEF Inv

\* A crash in the middle of a block leaves nothing of it.
LEMMA RestartKeeps ==
    ASSUME Inv, Restart
    PROVE  Inv'
<1>1. /\ db' = disk.db /\ cur' = NoUndo /\ chain' = FixEmpty(disk.chain, disk.db)
      /\ answer' = <<>> /\ calls' = <<>> /\ disk' = disk
    BY DEF Restart
<1>2. IsDb(db') /\ Exact(chain', db') /\ OnDisk'
    BY <1>1, FixEmptyExact DEF Inv, OnDisk
<1>3. InOrder(calls') /\ Len(calls') <= 1 /\ ~(Running("undo"))' /\ answer' \in Seq(Blocks)
    BY <1>1, LoopInOrder DEF Running
<1>4. QED
    BY <1>1, <1>2, <1>3, OutsideKeeps

LEMMA InvInit == Init => Inv
<1> SUFFICES ASSUME Init PROVE Inv
    OBVIOUS
<1>1. /\ db = Blank /\ cur = NoUndo /\ chain = FixEmpty(<<>>, Blank) /\ answer = <<>>
      /\ calls = <<>> /\ disk = [db |-> Blank, chain |-> <<>>]
    BY DEF Init
<1>2. IsDb(Blank)
    BY DEF IsDb, Blank
<1>3. Exact(chain, db) /\ Base = db
    BY <1>1, <1>2, FixEmptyExact, RestoreNothing DEF Base
<1>4. disk.db = Blank /\ disk.chain = <<>>
    BY <1>1
<1>5. Exact(<<>>, Blank)
    <2>1. <<>> \in Seq({}) /\ Len(<<>>) = 0
        OBVIOUS
    <2>2. QED
        BY <2>1 DEF Exact, IsSeq
<1>6. Calling
    BY <1>1, LoopInOrder DEF Calling, Running
<1>7. QED
    BY <1>1, <1>2, <1>3, <1>4, <1>5, <1>6 DEF Inv, Tables, OnDisk

\* Every step keeps the invariant.
LEMMA InvStep ==
    ASSUME Inv, [Next]_vars
    PROVE  Inv'
<1>1. CASE Redo
    BY <1>1, RedoKeeps, PushChainKeeps DEF Redo
<1>2. CASE UndoBlock
    BY <1>2, PopKeeps DEF UndoBlock, Loops
<1>3. CASE RescanBlock
    BY <1>3, PopKeeps DEF RescanBlock, Loops
<1>4. CASE SyncEnds
    <2>1. Len(calls) <= 1
        BY <1>4, LoopAlone DEF SyncEnds, Loops
    <2>2. answer' \in Seq(Blocks)
        BY <1>4 DEF SyncEnds, Inv, Calling
    <2>3. QED
        BY <1>4, <2>1, <2>2, HandlerKeeps DEF SyncEnds, tables
<1>5. ASSUME NEW s \in Answers, SyncBlocks(s) PROVE Inv'
    <2>1. s \in Seq(Blocks)
        BY WalletAssumption DEF WalletAssumption
    <2>2. QED
        BY <1>5, <2>1, IdleAlone, HandlerKeeps DEF SyncBlocks, tables, Loops
<1>6. ASSUME NEW h \in Heights, WalletAddressesUpdated(h) PROVE Inv'
    <2>1. answer' \in Seq(Blocks)
        BY <1>6 DEF WalletAddressesUpdated, Inv, Calling
    <2>2. \E op \in Loops : \E x : calls' = <<<<op, x>>>> /\ (op = "undo" => IsAnswer(answer'))
        BY <1>6 DEF WalletAddressesUpdated, Loops
    <2>3. QED
        BY <1>6, <2>1, <2>2, IdleAlone, HandlerKeeps DEF WalletAddressesUpdated, tables
<1>7. ASSUME NEW t \in Txs, PoolAdds(t) \/ PoolRemoves(t) \/ AddToPaymentQueue(t) PROVE Inv'
    BY <1>7, Stays DEF PoolAdds, PoolRemoves, AddToPaymentQueue
<1>8. ASSUME NEW t \in Txs, NEW h \in Heights, ProcessPaymentQueueSendError(t, h) PROVE Inv'
    BY <1>8, Stays DEF ProcessPaymentQueueSendError
<1>9. CASE UNCHANGED vars
    BY <1>9, Stays DEF vars
<1>10. QED
    BY <1>1, <1>2, <1>3, <1>4, <1>5, <1>6, <1>7, <1>8, <1>9, StartRedoKeeps, RedoBlockKeeps,
       RescanEndsKeeps, DbCommitKeeps, RestartKeeps DEF Next

\* The inductive invariant holds in every state.
THEOREM Invariance == Spec => []Inv
BY InvInit, InvStep, PTL DEF Spec

\* UndoExact for any blocks, branches and answers of the node, any outputs and
\* key images and any number of restarts (WalletStateBasic.cpp).
THEOREM UndoExactAlways == Spec => []UndoExact
<1>1. Inv => UndoExact
    BY DEF Inv, Tables, Exact, UndoExact, BeforeBlock, BeforeIn
<1>2. QED
    BY <1>1, Invariance, PTL

-----------------------------------------------------------------------------
\* fix_payment_queue_after_undo_redo gives up only what is in the chain.
LEMMA FixedKeepsFiles ==
    ASSUME NEW ch, NEW d, FixPaymentQueue(ch, d), NEW t \in files \ files'
    PROVE  Has(d, t)
<1> DEFINE at == Height[ch[Len(ch)].block]
           removed == {u \in Txs : queue[u] > 0 /\ ~Has(d, u)}
           added == {u \in Txs : queue[u] = 0 /\ Has(d, u)}
           new == [u \in Txs |-> CASE u \in removed -> 0
                                   [] u \in added -> d[<<"tx", u>>] + Day
                                   [] OTHER -> queue[u]]
           expired == {u \in Txs : new[u] > 0 /\ at >= new[u]}
<1>1. files' = files \ expired
    BY DEF FixPaymentQueue, Fixed
<1>2. t \in Txs /\ new[t] > 0
    BY <1>1
<1>3. t \notin removed
    <2>1. t \in removed => new[t] = 0
        BY <1>2
    <2>2. QED
        BY <1>2, <2>1
<1>4. CASE t \in added
    BY <1>4
<1>5. CASE t \notin added
    <2>1. new[t] = queue[t]
        BY <1>2, <1>3, <1>5
    <2>2. QED
        BY <1>2, <1>3, <2>1
<1>6. QED
    BY <1>4, <1>5

\* PaymentKept for the same: no order of blocks, reorganizations, answers of
\* the pool and restarts loses a payment that is not in the chain
\* (WalletState.cpp fix_payment_queue_after_undo_redo).
THEOREM PaymentKeptAlways == Spec => PaymentKept
<1>1. ASSUME [Next]_vars, NEW t \in files \ files'
      PROVE  Has(db', t) \/ \E h \in Heights : ProcessPaymentQueueSendError(t, h)
    <2>1. files' # files
        BY <1>1
    <2>2. CASE SyncEnds
        BY <2>2, FixedKeepsFiles DEF SyncEnds, tables
    <2>3. CASE RescanEnds
        BY <2>3, FixedKeepsFiles DEF RescanEnds, tables
    <2>4. ASSUME NEW u \in Txs, NEW h \in Heights, ProcessPaymentQueueSendError(u, h)
          PROVE  ProcessPaymentQueueSendError(t, h)
        BY <2>4 DEF ProcessPaymentQueueSendError
    <2>5. ASSUME NEW u \in Txs, AddToPaymentQueue(u) PROVE FALSE
        BY <2>5 DEF AddToPaymentQueue
    <2>6. CASE Redo
        BY <2>1, <2>6 DEF Redo, RedoTransaction, AddOutput, AddKeyImage, UnlockNext, Spend,
              AddTransaction, UnlockBlock, PushChain
    <2>7. CASE UndoBlock \/ StartRedo \/ RedoBlock \/ RescanBlock \/ DbCommit \/ Restart
        BY <2>1, <2>7 DEF UndoBlock, StartRedo, RedoBlock, RescanBlock, DbCommit, Restart
    <2>8. ASSUME NEW s \in Answers, SyncBlocks(s) PROVE FALSE
        BY <2>1, <2>8 DEF SyncBlocks
    <2>9. ASSUME NEW h \in Heights, WalletAddressesUpdated(h) PROVE FALSE
        BY <2>1, <2>9 DEF WalletAddressesUpdated
    <2>10. ASSUME NEW u \in Txs, PoolAdds(u) \/ PoolRemoves(u) PROVE FALSE
        BY <2>1, <2>10 DEF PoolAdds, PoolRemoves
    <2>11. CASE UNCHANGED vars
        BY <2>1, <2>11 DEF vars
    <2>12. QED
        BY <1>1, <2>2, <2>3, <2>4, <2>5, <2>6, <2>7, <2>8, <2>9, <2>10, <2>11 DEF Next
<1>2. [Next]_vars =>
        [\A t \in files \ files' :
            Has(db', t) \/ \E h \in Heights : ProcessPaymentQueueSendError(t, h)]_vars
    BY <1>1
<1>3. QED
    BY <1>2, PTL DEF Spec, PaymentKept

-----------------------------------------------------------------------------
\* That no operation traps.
\* What an operation does to the tables beside the balances, which never fail:
\* it sets one key.
SameBut(s, t) ==
    /\ IsDb(t.db) /\ (~s.trapped => ~t.trapped)
    /\ \A j \in Keys : j[1] # "balance" => t.db[j] = s.db[j]
Moves(s, t, k, v) ==
    /\ IsDb(t.db) /\ t.db[k] = v
    /\ \A j \in Keys : j[1] # "balance" /\ j # k => t.db[j] = s.db[j]

LEMMA KeyFacts ==
    /\ \A h \in Heights, o \in Outputs :
          /\ <<"unspent", h, o>> \in Keys /\ <<"unlocked", h, o>> \in Keys
    /\ \A o \in Outputs : <<"locked", o>> \in Keys
    /\ \A k \in KeyImages : <<"keyimage", k>> \in Keys
    /\ \A t \in Txs : <<"tx", t>> \in Keys
BY DEF Keys

LEMMA KeyNames ==
    /\ \A h, o : <<"unspent", h, o>>[1] = "unspent" /\ <<"unlocked", h, o>>[1] = "unlocked"
    /\ \A x : /\ <<"locked", x>>[1] = "locked" /\ <<"keyimage", x>>[1] = "keyimage"
              /\ <<"tx", x>>[1] = "tx" /\ <<"balance", x>>[1] = "balance"
OBVIOUS

\* A key is set, and nothing else; no operation fails.
Sets(s, t, k, v) ==
    /\ IsDb(t.db) /\ (k \in Keys => t.db[k] = v)
    /\ \A j \in Keys : j # k => t.db[j] = s.db[j]
Quiet(s, t) == ~s.trapped => ~t.trapped

LEMMA PutAny ==
    ASSUME NEW s, IsDb(s.db), NEW k, NEW v, NEW t, t = PutWithUndo(s, k, v, FALSE)
    PROVE  Sets(s, t, k, v) /\ Quiet(s, t)
<1>1. t.db = [s.db EXCEPT ![k] = v] /\ (t.trapped <=> s.trapped)
    BY DEF PutWithUndo
<1>2. /\ \A j \in Keys : t.db[j] = IF j = k THEN v ELSE s.db[j]
      /\ t.db = [j \in Keys |-> t.db[j]]
    BY <1>1 DEF IsDb
<1>3. QED
    BY <1>1, <1>2, Zenon DEF IsDb, Sets, Quiet

LEMMA PutNew ==
    ASSUME NEW s, IsDb(s.db), NEW k, NEW v, NEW t, t = PutWithUndo(s, k, v, TRUE)
    PROVE  Sets(s, t, k, v) /\ (s.db[k] = Absent => Quiet(s, t))
<1>1. t.db = [s.db EXCEPT ![k] = v] /\ (t.trapped <=> (s.trapped \/ s.db[k] # Absent))
    BY DEF PutWithUndo
<1>2. /\ \A j \in Keys : t.db[j] = IF j = k THEN v ELSE s.db[j]
      /\ t.db = [j \in Keys |-> t.db[j]]
    BY <1>1 DEF IsDb
<1>3. QED
    BY <1>1, <1>2, Zenon DEF IsDb, Sets, Quiet

LEMMA DelAny ==
    ASSUME NEW s, IsDb(s.db), NEW k, NEW t, t = DelWithUndo(s, k, FALSE)
    PROVE  Sets(s, t, k, Absent) /\ Quiet(s, t)
<1>1. t.db = [s.db EXCEPT ![k] = Absent] /\ (t.trapped <=> s.trapped)
    BY DEF DelWithUndo
<1>2. /\ \A j \in Keys : t.db[j] = IF j = k THEN Absent ELSE s.db[j]
      /\ t.db = [j \in Keys |-> t.db[j]]
    BY <1>1 DEF IsDb
<1>3. QED
    BY <1>1, <1>2, Zenon DEF IsDb, Sets, Quiet

LEMMA DelOld ==
    ASSUME NEW s, IsDb(s.db), NEW k, NEW t, t = DelWithUndo(s, k, TRUE)
    PROVE  Sets(s, t, k, Absent) /\ (s.db[k] # Absent => Quiet(s, t))
<1>1. t.db = [s.db EXCEPT ![k] = Absent] /\ (t.trapped <=> (s.trapped \/ s.db[k] = Absent))
    BY DEF DelWithUndo
<1>2. /\ \A j \in Keys : t.db[j] = IF j = k THEN Absent ELSE s.db[j]
      /\ t.db = [j \in Keys |-> t.db[j]]
    BY <1>1 DEF IsDb
<1>3. QED
    BY <1>1, <1>2, Zenon DEF IsDb, Sets, Quiet

\* modify_balance touches balances only.
LEMMA ModifyOneSame ==
    ASSUME NEW s, IsDb(s.db), NEW a, NEW dl, NEW ds, NEW t, t = ModifyOne(s, a, dl, ds)
    PROVE  SameBut(s, t)
<1>1. \/ t = DelWithUndo(s, <<"balance", a>>, FALSE)
      \/ \E v : t = PutWithUndo(s, <<"balance", a>>, v, FALSE)
    BY DEF ModifyOne
<1>2. Quiet(s, t) /\ \E v : Sets(s, t, <<"balance", a>>, v)
    <2>1. CASE t = DelWithUndo(s, <<"balance", a>>, FALSE)
        BY <2>1, DelAny, Zenon
    <2>2. ASSUME NEW v, t = PutWithUndo(s, <<"balance", a>>, v, FALSE) PROVE <1>2!:
        BY <2>2, PutAny, Zenon
    <2>3. QED
        BY <1>1, <2>1, <2>2, Zenon
<1>3. QED
    BY <1>2, KeyNames, Zenon DEF SameBut, Sets, Quiet

LEMMA ModifyBalanceSame ==
    ASSUME NEW s, IsDb(s.db), NEW o, NEW l, NEW p, NEW t, t = ModifyBalance(s, o, l, p)
    PROVE  SameBut(s, t)
<1>1. PICK a, b : t = ModifyOne(ModifyOne(s, Addr[o], a, b), AllAddrs, a, b)
    BY DEF ModifyBalance
<1>2. PICK u : u = ModifyOne(s, Addr[o], a, b)
    OBVIOUS
<1>3. SameBut(s, u)
    BY <1>2, ModifyOneSame
<1>4. SameBut(u, t)
    <2>1. IsDb(u.db) /\ t = ModifyOne(u, AllAddrs, a, b)
        BY <1>1, <1>2, <1>3 DEF SameBut
    <2>2. QED
        BY <2>1, ModifyOneSame
<1>5. QED
    BY <1>3, <1>4 DEF SameBut

\* The unspent index and the lock index.
LEMMA AddUnspent ==
    ASSUME NEW s, IsDb(s.db), NEW o \in Outputs, NEW h \in Heights, NEW t, t = AddToUnspentIndex(s, o, h)
    PROVE  /\ Moves(s, t, <<"unspent", h, o>>, TRUE)
           /\ ~s.trapped /\ s.db[<<"unspent", h, o>>] = Absent => ~t.trapped
<1>1. PICK u : u = ModifyBalance(s, o, 0, 1)
    OBVIOUS
<1>2. SameBut(s, u)
    BY <1>1, ModifyBalanceSame
<1>3. PICK k \in Keys : k = <<"unspent", h, o>> /\ k[1] # "balance"
    BY KeyFacts, KeyNames
<1>4. t = PutWithUndo(u, k, TRUE, TRUE) /\ IsDb(u.db)
    BY <1>1, <1>2, <1>3 DEF AddToUnspentIndex, SameBut
<1>5. Sets(u, t, k, TRUE) /\ (u.db[k] = Absent => Quiet(u, t))
    BY <1>4, PutNew, Zenon
<1>6. QED
    BY <1>2, <1>3, <1>5, Zenon DEF SameBut, Moves, Sets, Quiet

LEMMA RemoveUnspent ==
    ASSUME NEW s, IsDb(s.db), NEW o \in Outputs, NEW h \in Heights, NEW t, t = RemoveFromUnspentIndex(s, o, h)
    PROVE  /\ Moves(s, t, <<"unspent", h, o>>, Absent)
           /\ ~s.trapped /\ s.db[<<"unspent", h, o>>] # Absent => ~t.trapped
<1>1. PICK u : u = ModifyBalance(s, o, 0, -1)
    OBVIOUS
<1>2. SameBut(s, u)
    BY <1>1, ModifyBalanceSame
<1>3. PICK k \in Keys : k = <<"unspent", h, o>> /\ k[1] # "balance"
    BY KeyFacts, KeyNames
<1>4. t = DelWithUndo(u, k, TRUE) /\ IsDb(u.db)
    BY <1>1, <1>2, <1>3 DEF RemoveFromUnspentIndex, SameBut
<1>5. Sets(u, t, k, Absent) /\ (u.db[k] # Absent => Quiet(u, t))
    BY <1>4, DelOld, Zenon
<1>6. QED
    BY <1>2, <1>3, <1>5, Zenon DEF SameBut, Moves, Sets, Quiet

LEMMA AddLock ==
    ASSUME NEW s, IsDb(s.db), NEW o \in Outputs, NEW h, NEW t, t = AddToLockIndex(s, o, h)
    PROVE  /\ Moves(s, t, <<"locked", o>>, h)
           /\ ~s.trapped /\ s.db[<<"locked", o>>] = Absent => ~t.trapped
<1>1. PICK u : u = ModifyBalance(s, o, 1, 0)
    OBVIOUS
<1>2. SameBut(s, u)
    BY <1>1, ModifyBalanceSame
<1>3. PICK k \in Keys : k = <<"locked", o>> /\ k[1] # "balance"
    BY KeyFacts, KeyNames
<1>4. t = PutWithUndo(u, k, h, TRUE) /\ IsDb(u.db)
    BY <1>1, <1>2, <1>3 DEF AddToLockIndex, SameBut
<1>5. Sets(u, t, k, h) /\ (u.db[k] = Absent => Quiet(u, t))
    BY <1>4, PutNew, Zenon
<1>6. QED
    BY <1>2, <1>3, <1>5, Zenon DEF SameBut, Moves, Sets, Quiet

LEMMA RemoveLock ==
    ASSUME NEW s, IsDb(s.db), NEW o \in Outputs, NEW t, t = RemoveFromLockIndex(s, o)
    PROVE  /\ Moves(s, t, <<"locked", o>>, Absent)
           /\ ~s.trapped /\ s.db[<<"locked", o>>] # Absent => ~t.trapped
<1>1. PICK u : u = ModifyBalance(s, o, -1, 0)
    OBVIOUS
<1>2. SameBut(s, u)
    BY <1>1, ModifyBalanceSame
<1>3. PICK k \in Keys : k = <<"locked", o>> /\ k[1] # "balance"
    BY KeyFacts, KeyNames
<1>4. t = DelWithUndo(u, k, TRUE) /\ IsDb(u.db)
    BY <1>1, <1>2, <1>3 DEF RemoveFromLockIndex, SameBut
<1>5. Sets(u, t, k, Absent) /\ (u.db[k] # Absent => Quiet(u, t))
    BY <1>4, DelOld, Zenon
<1>6. QED
    BY <1>2, <1>3, <1>5, Zenon DEF SameBut, Moves, Sets, Quiet

-----------------------------------------------------------------------------
\* No operation on the tables fails.  An output that is locked was put nowhere
\* else yet, and of transactions outside of T nothing is known.
MyOuts(t) == {OutsOf[t][i] : i \in DOMAIN OutsOf[t]}
Free(d, o) ==
    \A h \in Heights : d[<<"unspent", h, o>>] = Absent /\ d[<<"unlocked", h, o>>] = Absent
Fresh(d, o) == d[<<"locked", o>>] = Absent /\ Free(d, o)
NewTx(d, t) == d[<<"tx", t>>] = Absent
LockOk(d, o) == d[<<"locked", o>>] # Absent => d[<<"locked", o>>] \in Heights /\ Free(d, o)
KiOk(d) ==
    \A k \in KeyImages : d[<<"keyimage", k>>] # Absent => d[<<"keyimage", k>>] \in Heights \X Outputs

\* Of other outputs than those of O nothing changes but that they are spent.
Within(d, e, O) ==
    /\ \A p \in Outputs \ O : e[<<"locked", p>>] = d[<<"locked", p>>]
    /\ \A p \in Outputs \ O, h \in Heights :
          /\ d[<<"unspent", h, p>>] = Absent => e[<<"unspent", h, p>>] = Absent
          /\ e[<<"unlocked", h, p>>] = d[<<"unlocked", h, p>>]
    /\ \A t \in Txs : e[<<"tx", t>>] = d[<<"tx", t>>]
    /\ \A k \in KeyImages :
          \/ e[<<"keyimage", k>>] = d[<<"keyimage", k>>]
          \/ e[<<"keyimage", k>>] \in Heights \X Outputs

LEMMA WithinChain ==
    ASSUME NEW d, NEW e, NEW f, NEW O, Within(d, e, O), Within(e, f, O)
    PROVE  Within(d, f, O)
BY Zenon DEF Within

LEMMA WithinSelf ==
    ASSUME NEW d, NEW O
    PROVE  Within(d, d, O)
BY Zenon DEF Within

LEMMA WithinMore ==
    ASSUME NEW d, NEW e, NEW O, Within(d, e, {})
    PROVE  Within(d, e, O)
BY Zenon DEF Within

LEMMA WithinKi ==
    ASSUME NEW d, NEW e, NEW O, Within(d, e, O), KiOk(d)
    PROVE  KiOk(e)
<1>1. ASSUME NEW k \in KeyImages, e[<<"keyimage", k>>] # Absent
      PROVE  e[<<"keyimage", k>>] \in Heights \X Outputs
    BY <1>1, Zenon DEF Within, KiOk
<1>2. QED
    BY <1>1, Zenon DEF KiOk

\* An output the step is not about stays fresh, locked or in order.
LEMMA WithinOther ==
    ASSUME NEW d, NEW e, NEW O, Within(d, e, O), NEW p \in Outputs \ O
    PROVE  /\ Free(d, p) => Free(e, p)
           /\ Fresh(d, p) => Fresh(e, p)
           /\ LockOk(d, p) => LockOk(e, p)
           /\ p \in Locked(d) => p \in Locked(e)
<1>1. Free(d, p) => Free(e, p)
    BY Zenon DEF Within, Free
<1>2. e[<<"locked", p>>] = d[<<"locked", p>>]
    BY Zenon DEF Within
<1>3. Fresh(d, p) => Fresh(e, p)
    BY <1>1, <1>2, Zenon DEF Fresh
<1>4. LockOk(d, p) => LockOk(e, p)
    BY <1>1, <1>2, Zenon DEF LockOk
<1>5. p \in Locked(d) => p \in Locked(e)
    BY <1>2, Zenon DEF Locked
<1>6. QED
    BY <1>1, <1>3, <1>4, <1>5

LEMMA KeysApart ==
    /\ \A h, o, g, p : /\ <<"unspent", h, o>> # <<"unlocked", g, p>>
                       /\ o # p => <<"unspent", h, o>> # <<"unspent", g, p>>
                       /\ o # p => <<"unlocked", h, o>> # <<"unlocked", g, p>>
    /\ \A h, o, x : /\ <<"unspent", h, o>> # <<"locked", x>> /\ <<"unlocked", h, o>> # <<"locked", x>>
                    /\ <<"unspent", h, o>> # <<"keyimage", x>> /\ <<"unlocked", h, o>> # <<"keyimage", x>>
                    /\ <<"unspent", h, o>> # <<"tx", x>> /\ <<"unlocked", h, o>> # <<"tx", x>>
    /\ \A x, y : /\ <<"locked", x>> # <<"keyimage", y>> /\ <<"locked", x>> # <<"tx", y>>
                 /\ <<"keyimage", x>> # <<"tx", y>>
                 /\ x # y => <<"locked", x>> # <<"locked", y>>
                 /\ x # y => <<"tx", x>> # <<"tx", y>>
<1>1. \A h, o, g, p : <<"unspent", h, o>> # <<"unlocked", g, p>>
    BY KeyNames
<1>2. \A h, o, g, p : /\ o # p => <<"unspent", h, o>> # <<"unspent", g, p>>
                      /\ o # p => <<"unlocked", h, o>> # <<"unlocked", g, p>>
    OBVIOUS
<1>3. \A h, o, x : /\ <<"unspent", h, o>> # <<"locked", x>> /\ <<"unlocked", h, o>> # <<"locked", x>>
                    /\ <<"unspent", h, o>> # <<"keyimage", x>> /\ <<"unlocked", h, o>> # <<"keyimage", x>>
                    /\ <<"unspent", h, o>> # <<"tx", x>> /\ <<"unlocked", h, o>> # <<"tx", x>>
    BY KeyNames, Zenon
<1>4. \A x, y : /\ <<"locked", x>> # <<"keyimage", y>> /\ <<"locked", x>> # <<"tx", y>>
                /\ <<"keyimage", x>> # <<"tx", y>>
    BY KeyNames
<1>5. \A x, y : /\ x # y => <<"locked", x>> # <<"locked", y>>
                /\ x # y => <<"tx", x>> # <<"tx", y>>
    OBVIOUS
<1>6. QED
    BY <1>1, <1>2, <1>3, <1>4, <1>5, Zenon

\* A key that is not of a balance is not moved by a write to another.
Unmoved(s, t, k) ==
    /\ \A h \in Heights, o \in Outputs :
          /\ <<"unspent", h, o>> # k => t.db[<<"unspent", h, o>>] = s.db[<<"unspent", h, o>>]
          /\ <<"unlocked", h, o>> # k => t.db[<<"unlocked", h, o>>] = s.db[<<"unlocked", h, o>>]
    /\ \A o \in Outputs : <<"locked", o>> # k => t.db[<<"locked", o>>] = s.db[<<"locked", o>>]
    /\ \A x \in KeyImages : <<"keyimage", x>> # k => t.db[<<"keyimage", x>>] = s.db[<<"keyimage", x>>]
    /\ \A x \in Txs : <<"tx", x>> # k => t.db[<<"tx", x>>] = s.db[<<"tx", x>>]

LEMMA MovesNot ==
    ASSUME NEW s, NEW t, NEW k, NEW v, Moves(s, t, k, v)
    PROVE  Unmoved(s, t, k)
<1>1. ASSUME NEW j \in Keys, j # k, j[1] # "balance" PROVE t.db[j] = s.db[j]
    BY <1>1, Zenon DEF Moves
<1>2. "unspent" # "balance" /\ "unlocked" # "balance" /\ "locked" # "balance" /\ "keyimage" # "balance" /\ "tx" # "balance"
    OBVIOUS
<1>3. \A h \in Heights, o \in Outputs :
                 /\ <<"unspent", h, o>> # k => t.db[<<"unspent", h, o>>] = s.db[<<"unspent", h, o>>]
                 /\ <<"unlocked", h, o>> # k => t.db[<<"unlocked", h, o>>] = s.db[<<"unlocked", h, o>>]
    BY <1>1, <1>2, KeyFacts, KeyNames, Zenon
<1>4. \A o \in Outputs : <<"locked", o>> # k => t.db[<<"locked", o>>] = s.db[<<"locked", o>>]
    BY <1>1, <1>2, KeyFacts, KeyNames, Zenon
<1>5. \A x \in KeyImages : <<"keyimage", x>> # k => t.db[<<"keyimage", x>>] = s.db[<<"keyimage", x>>]
    BY <1>1, <1>2, KeyFacts, KeyNames, Zenon
<1>6. \A x \in Txs : <<"tx", x>> # k => t.db[<<"tx", x>>] = s.db[<<"tx", x>>]
    BY <1>1, <1>2, KeyFacts, KeyNames, Zenon
<1>7. QED
    BY <1>3, <1>4, <1>5, <1>6, Zenon DEF Unmoved

LEMMA SetsMoves ==
    ASSUME NEW s, NEW t, NEW k \in Keys, NEW v, Sets(s, t, k, v)
    PROVE  Moves(s, t, k, v)
BY Zenon DEF Sets, Moves

\* What each kind of write is within.
SameLocks(d, e, o) ==
    /\ e[<<"locked", o>>] = d[<<"locked", o>>]
    /\ \A g \in Heights : e[<<"unlocked", g, o>>] = d[<<"unlocked", g, o>>]
SameIndices(d, e) ==
    \A g \in Heights, p \in Outputs :
        /\ e[<<"unspent", g, p>>] = d[<<"unspent", g, p>>]
        /\ e[<<"unlocked", g, p>>] = d[<<"unlocked", g, p>>]

SameOthers(d, e) ==
    /\ \A p \in Outputs : e[<<"locked", p>>] = d[<<"locked", p>>]
    /\ \A g \in Heights, p \in Outputs : e[<<"unlocked", g, p>>] = d[<<"unlocked", g, p>>]
    /\ \A k \in KeyImages : e[<<"keyimage", k>>] = d[<<"keyimage", k>>]

LEMMA MovesUnspent ==
    ASSUME NEW s, NEW t, NEW h \in Heights, NEW o \in Outputs, NEW v, Moves(s, t, <<"unspent", h, o>>, v)
    PROVE  /\ Within(s.db, t.db, {o})
           /\ v = Absent => Within(s.db, t.db, {})
           /\ SameOthers(s.db, t.db)
<1>0. Unmoved(s, t, <<"unspent", h, o>>)
    BY MovesNot, Zenon
<1>1. \A p \in Outputs : t.db[<<"locked", p>>] = s.db[<<"locked", p>>]
    BY <1>0, KeysApart, Zenon DEF Unmoved
<1>2. \A g \in Heights, p \in Outputs : t.db[<<"unlocked", g, p>>] = s.db[<<"unlocked", g, p>>]
    BY <1>0, KeysApart, Zenon DEF Unmoved
<1>3. \A k \in KeyImages : t.db[<<"keyimage", k>>] = s.db[<<"keyimage", k>>]
    BY <1>0, KeysApart, Zenon DEF Unmoved
<1>4. \A x \in Txs : t.db[<<"tx", x>>] = s.db[<<"tx", x>>]
    BY <1>0, KeysApart, Zenon DEF Unmoved
<1>5. ASSUME NEW g \in Heights, NEW p \in Outputs, p # o
      PROVE  t.db[<<"unspent", g, p>>] = s.db[<<"unspent", g, p>>]
    BY <1>5, <1>0, KeysApart, Zenon DEF Unmoved
<1>6. Within(s.db, t.db, {o})
    BY <1>1, <1>2, <1>3, <1>4, <1>5, Zenon DEF Within
<1>7. ASSUME v = Absent, NEW g \in Heights, NEW p \in Outputs, s.db[<<"unspent", g, p>>] = Absent
      PROVE  t.db[<<"unspent", g, p>>] = Absent
    <2>1. CASE <<"unspent", g, p>> = <<"unspent", h, o>>
        BY <1>7, <2>1, Zenon DEF Moves
    <2>2. CASE <<"unspent", g, p>> # <<"unspent", h, o>>
        BY <1>7, <2>2, <1>0, Zenon DEF Unmoved
    <2>3. QED
        BY <2>1, <2>2, Zenon
<1>8. v = Absent => Within(s.db, t.db, {})
    BY <1>1, <1>2, <1>3, <1>4, <1>7, Zenon DEF Within
<1>9. QED
    BY <1>1, <1>2, <1>3, <1>6, <1>8, Zenon DEF SameOthers

LEMMA MovesLocked ==
    ASSUME NEW s, NEW t, NEW o \in Outputs, NEW v, Moves(s, t, <<"locked", o>>, v)
    PROVE  Within(s.db, t.db, {o}) /\ t.db[<<"locked", o>>] = v /\ SameIndices(s.db, t.db)
<1>0. Unmoved(s, t, <<"locked", o>>)
    BY MovesNot, Zenon
<1>1. \A p \in Outputs : p # o => t.db[<<"locked", p>>] = s.db[<<"locked", p>>]
    BY <1>0, KeysApart, Zenon DEF Unmoved
<1>2. \A g \in Heights, p \in Outputs : t.db[<<"unlocked", g, p>>] = s.db[<<"unlocked", g, p>>]
    BY <1>0, KeysApart, Zenon DEF Unmoved
<1>3. \A k \in KeyImages : t.db[<<"keyimage", k>>] = s.db[<<"keyimage", k>>]
    BY <1>0, KeysApart, Zenon DEF Unmoved
<1>4. \A x \in Txs : t.db[<<"tx", x>>] = s.db[<<"tx", x>>]
    BY <1>0, KeysApart, Zenon DEF Unmoved
<1>5. \A g \in Heights, p \in Outputs : t.db[<<"unspent", g, p>>] = s.db[<<"unspent", g, p>>]
    BY <1>0, KeysApart, Zenon DEF Unmoved
<1>6. Within(s.db, t.db, {o})
    BY <1>1, <1>2, <1>3, <1>4, <1>5, Zenon DEF Within
<1>7. QED
    BY <1>2, <1>5, <1>6, Zenon DEF Moves, SameIndices

LEMMA MovesUnlocked ==
    ASSUME NEW s, NEW t, NEW h \in Heights, NEW o \in Outputs, NEW v, Moves(s, t, <<"unlocked", h, o>>, v)
    PROVE  Within(s.db, t.db, {o}) /\ t.db[<<"locked", o>>] = s.db[<<"locked", o>>]
<1>0. Unmoved(s, t, <<"unlocked", h, o>>)
    BY MovesNot, Zenon
<1>1. \A p \in Outputs : t.db[<<"locked", p>>] = s.db[<<"locked", p>>]
    BY <1>0, KeysApart, Zenon DEF Unmoved
<1>2. \A g \in Heights, p \in Outputs : p # o => t.db[<<"unlocked", g, p>>] = s.db[<<"unlocked", g, p>>]
    BY <1>0, KeysApart, Zenon DEF Unmoved
<1>3. \A k \in KeyImages : t.db[<<"keyimage", k>>] = s.db[<<"keyimage", k>>]
    BY <1>0, KeysApart, Zenon DEF Unmoved
<1>4. \A x \in Txs : t.db[<<"tx", x>>] = s.db[<<"tx", x>>]
    BY <1>0, KeysApart, Zenon DEF Unmoved
<1>5. \A g \in Heights, p \in Outputs : t.db[<<"unspent", g, p>>] = s.db[<<"unspent", g, p>>]
    BY <1>0, KeysApart, Zenon DEF Unmoved
<1>6. Within(s.db, t.db, {o})
    BY <1>1, <1>2, <1>3, <1>4, <1>5, Zenon DEF Within
<1>7. QED
    BY <1>1, <1>6, Zenon

LEMMA MovesKeyImage ==
    ASSUME NEW s, NEW t, NEW x \in KeyImages, NEW v \in Heights \X Outputs, Moves(s, t, <<"keyimage", x>>, v)
    PROVE  Within(s.db, t.db, {}) /\ \A p \in Outputs : SameLocks(s.db, t.db, p)
<1>0. Unmoved(s, t, <<"keyimage", x>>)
    BY MovesNot, Zenon
<1>1. \A p \in Outputs : t.db[<<"locked", p>>] = s.db[<<"locked", p>>]
    BY <1>0, KeysApart, Zenon DEF Unmoved
<1>2. \A g \in Heights, p \in Outputs : t.db[<<"unlocked", g, p>>] = s.db[<<"unlocked", g, p>>]
    BY <1>0, KeysApart, Zenon DEF Unmoved
<1>3. ASSUME NEW k \in KeyImages
      PROVE  t.db[<<"keyimage", k>>] = s.db[<<"keyimage", k>>] \/ t.db[<<"keyimage", k>>] \in Heights \X Outputs
    <2>1. CASE <<"keyimage", k>> = <<"keyimage", x>>
        <3>1. t.db[<<"keyimage", k>>] = v
            BY <2>1, Zenon DEF Moves
        <3>2. QED
            BY <3>1
    <2>2. CASE <<"keyimage", k>> # <<"keyimage", x>>
        BY <2>2, <1>0, Zenon DEF Unmoved
    <2>3. QED
        BY <2>1, <2>2, Zenon
<1>4. \A y \in Txs : t.db[<<"tx", y>>] = s.db[<<"tx", y>>]
    BY <1>0, KeysApart, Zenon DEF Unmoved
<1>5. \A g \in Heights, p \in Outputs : t.db[<<"unspent", g, p>>] = s.db[<<"unspent", g, p>>]
    BY <1>0, KeysApart, Zenon DEF Unmoved
<1>6. Within(s.db, t.db, {})
    BY <1>1, <1>2, <1>3, <1>4, <1>5, Zenon DEF Within
<1>7. QED
    BY <1>1, <1>2, <1>6, Zenon DEF SameLocks

-----------------------------------------------------------------------------
\* The operations on outputs and key images do not fail.
Okay(s, t, O) == IsDb(t.db) /\ Quiet(s, t) /\ Within(s.db, t.db, O)

LEMMA OkayChain ==
    ASSUME NEW s, NEW t, NEW u, NEW O, Okay(s, t, O), Okay(t, u, O)
    PROVE  Okay(s, u, O)
BY WithinChain, Zenon DEF Okay, Quiet

LEMMA OkaySelf ==
    ASSUME NEW s, IsDb(s.db), NEW O
    PROVE  Okay(s, s, O)
BY WithinSelf, Zenon DEF Okay, Quiet

LEMMA StandingFacts ==
    ASSUME NEW d, KiOk(d), NEW k \in KeyImages, KnownKeyImage(d, k)
    PROVE  Standing(d, k)[1] \in Heights /\ Standing(d, k)[2] \in Outputs
<1>1. d[<<"keyimage", k>>] \in Heights \X Outputs
    BY Zenon DEF KiOk, KnownKeyImage
<1>2. QED
    BY <1>1 DEF Standing

\* The output that stands for a key image is taken out of the unspent index.
LEMMA RemoveStanding ==
    ASSUME NEW s, IsDb(s.db), KiOk(s.db), NEW k \in KeyImages, StandingUnspent(s.db, k),
           NEW t, t = RemoveFromUnspentIndex(s, Standing(s.db, k)[2], Standing(s.db, k)[1])
    PROVE  /\ Okay(s, t, {})
           /\ \A p \in Outputs : SameLocks(s.db, t.db, p)
           /\ t.db[<<"keyimage", k>>] = s.db[<<"keyimage", k>>]
           /\ Moves(s, t, <<"unspent", Standing(s.db, k)[1], Standing(s.db, k)[2]>>, Absent)
<1>1. PICK h, o : h = Standing(s.db, k)[1] /\ o = Standing(s.db, k)[2]
    OBVIOUS
<1>2. KnownKeyImage(s.db, k) /\ s.db[<<"unspent", h, o>>] # Absent
    BY <1>1, Zenon DEF StandingUnspent
<1>3. h \in Heights /\ o \in Outputs
    BY <1>1, <1>2, StandingFacts, Zenon
<1>4. t = RemoveFromUnspentIndex(s, o, h)
    BY <1>1
<1>5. Moves(s, t, <<"unspent", h, o>>, Absent) /\ Quiet(s, t)
    BY <1>2, <1>3, <1>4, RemoveUnspent, Zenon DEF Quiet
<1>6. PICK v : v = Absent /\ Moves(s, t, <<"unspent", h, o>>, v)
    BY <1>5, Zenon
<1>7. (v = Absent => Within(s.db, t.db, {})) /\ SameOthers(s.db, t.db)
    BY <1>3, <1>6, MovesUnspent
<1>8. QED
    BY <1>1, <1>5, <1>6, <1>7, Zenon DEF Okay, SameLocks, SameOthers, Moves

LEMMA KiOfOutput ==
    ASSUME NEW o \in Outputs
    PROVE  Ki[o] \in KeyImages
BY DEF KeyImages

\* An output comes into the unspent index, in place of a smaller one if there
\* is one with its key image.
LEMMA TakePlaceOkay ==
    ASSUME NEW s, IsDb(s.db), KiOk(s.db), NEW o \in Outputs, NEW h \in Heights,
           s.db[<<"unspent", h, o>>] = Absent, ~Spent(s.db, Ki[o]), NEW t, t = TakePlace(s, o, h)
    PROVE  Okay(s, t, {o}) /\ SameLocks(s.db, t.db, o)
<1>1. PICK k \in KeyImages : k = Ki[o]
    BY KiOfOutput
<1>2. PICK freed :
        freed = IF KnownKeyImage(s.db, k)
                THEN RemoveFromUnspentIndex(s, Standing(s.db, k)[2], Standing(s.db, k)[1])
                ELSE s
    OBVIOUS
<1>3. PICK added : added = AddToUnspentIndex(freed, o, h)
    OBVIOUS
<1>4. t = IF k = NoKeyImage THEN added
          ELSE PutWithUndo(added, <<"keyimage", k>>, <<h, o>>, ~KnownKeyImage(s.db, k))
    BY <1>1, <1>2, <1>3 DEF TakePlace
<1>5. /\ Okay(s, freed, {o}) /\ SameLocks(s.db, freed.db, o)
      /\ freed.db[<<"keyimage", k>>] = s.db[<<"keyimage", k>>]
      /\ freed.db[<<"unspent", h, o>>] = Absent
    <2>1. CASE KnownKeyImage(s.db, k)
        <3>1. StandingUnspent(s.db, k)
            BY <1>1, <2>1, Zenon DEF Spent
        <3>2. freed = RemoveFromUnspentIndex(s, Standing(s.db, k)[2], Standing(s.db, k)[1])
            BY <1>2, <2>1, Zenon
        <3>3. /\ Okay(s, freed, {})
              /\ SameLocks(s.db, freed.db, o)
              /\ freed.db[<<"keyimage", k>>] = s.db[<<"keyimage", k>>]
            BY <3>1, <3>2, RemoveStanding, Zenon
        <3>4. freed.db[<<"unspent", h, o>>] = Absent
            BY <3>3, Zenon DEF Okay, Within
        <3>5. QED
            BY <3>3, <3>4, WithinMore, Zenon DEF Okay
    <2>2. CASE ~KnownKeyImage(s.db, k)
        <3>1. freed = s
            BY <1>2, <2>2, Zenon
        <3>2. QED
            BY <3>1, OkaySelf, Zenon DEF SameLocks
    <2>3. QED
        BY <2>1, <2>2, Zenon
<1>6. /\ Okay(freed, added, {o}) /\ SameLocks(freed.db, added.db, o)
      /\ added.db[<<"keyimage", k>>] = freed.db[<<"keyimage", k>>]
    <2>0. IsDb(freed.db)
        BY <1>5, Zenon DEF Okay
    <2>1. Moves(freed, added, <<"unspent", h, o>>, TRUE) /\ Quiet(freed, added)
        BY <2>0, <1>3, <1>5, AddUnspent, Zenon DEF Quiet
    <2>2. Within(freed.db, added.db, {o}) /\ SameOthers(freed.db, added.db)
        BY <2>1, MovesUnspent
    <2>3. QED
        BY <2>1, <2>2, Zenon DEF Okay, SameLocks, SameOthers, Moves
<1>7. Okay(added, t, {o}) /\ SameLocks(added.db, t.db, o)
    <2>0. IsDb(added.db)
        BY <1>6, Zenon DEF Okay
    <2>1. CASE k = NoKeyImage
        <3>1. t = added
            BY <1>4, <2>1, Zenon
        <3>2. QED
            BY <2>0, <3>1, OkaySelf, Zenon DEF SameLocks
    <2>2. CASE k # NoKeyImage
        <3>1. PICK q \in Keys : q = <<"keyimage", k>>
            BY KeyFacts
        <3>2. PICK v \in Heights \X Outputs : v = <<h, o>>
            OBVIOUS
        <3>3. Sets(added, t, q, v) /\ Quiet(added, t)
            <4>1. CASE KnownKeyImage(s.db, k)
                <5>1. t = PutWithUndo(added, q, v, FALSE)
                    BY <1>4, <2>2, <3>1, <3>2, <4>1
                <5>2. QED
                    BY <2>0, <5>1, PutAny, Zenon
            <4>2. CASE ~KnownKeyImage(s.db, k)
                <5>1. t = PutWithUndo(added, q, v, TRUE)
                    BY <1>4, <2>2, <3>1, <3>2, <4>2
                <5>2. added.db[q] = Absent
                    BY <1>5, <1>6, <2>2, <3>1, <4>2, Zenon DEF KnownKeyImage
                <5>3. QED
                    BY <2>0, <5>1, <5>2, PutNew, Zenon
            <4>3. QED
                BY <4>1, <4>2, Zenon
        <3>4. Moves(added, t, <<"keyimage", k>>, v)
            BY <3>1, <3>3, SetsMoves, Zenon
        <3>5. Within(added.db, t.db, {}) /\ SameLocks(added.db, t.db, o)
            BY <3>4, MovesKeyImage, Zenon
        <3>6. Within(added.db, t.db, {o})
            BY <3>5, WithinMore, Zenon
        <3>7. QED
            BY <3>3, <3>5, <3>6, Zenon DEF Okay, SameLocks, Sets
    <2>3. QED
        BY <2>1, <2>2, Zenon
<1>8. Okay(s, t, {o})
    BY <1>5, <1>6, <1>7, OkayChain, Zenon
<1>9. SameLocks(s.db, t.db, o)
    BY <1>5, <1>6, <1>7, Zenon DEF SameLocks
<1>10. QED
    BY <1>8, <1>9, Zenon

\* add_incoming_output of an output that is new, or just taken out of the lock
\* index.
LEMMA AddIncomingOkay ==
    ASSUME NEW s, IsDb(s.db), KiOk(s.db), NEW o \in Outputs, NEW h \in Heights, Fresh(s.db, o),
           NEW j \in BOOLEAN, NEW t, t = AddIncomingOutput(s, o, h, j)
    PROVE  /\ Okay(s, t, {o}) /\ LockOk(t.db, o)
           /\ j => SameLocks(s.db, t.db, o)
<1>1. CASE t = s
    BY <1>1, OkaySelf, Zenon DEF LockOk, Fresh, SameLocks
<1>2. CASE t = AddToLockIndex(s, o, h) /\ ~j
    <2>1. Moves(s, t, <<"locked", o>>, h) /\ Quiet(s, t)
        BY <1>2, AddLock, Zenon DEF Fresh, Quiet
    <2>2. Within(s.db, t.db, {o}) /\ t.db[<<"locked", o>>] = h /\ SameIndices(s.db, t.db)
        BY <2>1, MovesLocked, Zenon
    <2>3. LockOk(t.db, o)
        BY <2>2, Zenon DEF LockOk, Fresh, Free, SameIndices
    <2>4. QED
        BY <1>2, <2>1, <2>2, <2>3, Zenon DEF Okay, Moves
<1>3. CASE t = TakePlace(s, o, h) /\ ~Spent(s.db, Ki[o])
    <2>1. s.db[<<"unspent", h, o>>] = Absent
        BY Zenon DEF Fresh, Free
    <2>2. Okay(s, t, {o}) /\ SameLocks(s.db, t.db, o)
        BY <1>3, <2>1, TakePlaceOkay, Zenon
    <2>3. t.db[<<"locked", o>>] = Absent
        BY <2>2, Zenon DEF SameLocks, Fresh
    <2>4. QED
        BY <2>2, <2>3, Zenon DEF LockOk
<1>4. \/ t = s
      \/ t = AddToLockIndex(s, o, h) /\ ~j
      \/ t = TakePlace(s, o, h) /\ ~Spent(s.db, Ki[o])
    BY DEF AddIncomingOutput
<1>5. QED
    BY <1>1, <1>2, <1>3, <1>4, Zenon

\* unlock of an output of the lock index.
LEMMA UnlockOkay ==
    ASSUME NEW s, IsDb(s.db), KiOk(s.db), NEW o \in Locked(s.db), LockOk(s.db, o),
           NEW now \in Heights, NEW t, t = UnlockOutput(s, o, now)
    PROVE  Okay(s, t, {o}) /\ t.db[<<"locked", o>>] = Absent
<1>1. o \in Outputs /\ s.db[<<"locked", o>>] # Absent
    BY DEF Locked
<1>2. PICK h \in Heights : h = s.db[<<"locked", o>>]
    BY <1>1, Zenon DEF LockOk
<1>3. Free(s.db, o)
    BY <1>1, Zenon DEF LockOk
<1>4. PICK u : u = RemoveFromLockIndex(s, o)
    OBVIOUS
<1>5. PICK w : w = AddIncomingOutput(u, o, h, TRUE)
    OBVIOUS
<1>6. t = PutWithUndo(w, <<"unlocked", now, o>>, h, TRUE)
    BY <1>2, <1>4, <1>5 DEF UnlockOutput
<1>7. Moves(s, u, <<"locked", o>>, Absent) /\ Quiet(s, u)
    BY <1>1, <1>4, RemoveLock, Zenon DEF Quiet
<1>8. Within(s.db, u.db, {o}) /\ u.db[<<"locked", o>>] = Absent /\ SameIndices(s.db, u.db)
    BY <1>1, <1>7, MovesLocked, Zenon
<1>9. Okay(s, u, {o}) /\ Fresh(u.db, o)
    BY <1>1, <1>3, <1>7, <1>8, Zenon DEF Okay, Moves, Fresh, Free, SameIndices
<1>10. Okay(u, w, {o}) /\ SameLocks(u.db, w.db, o)
    <2>1. IsDb(u.db) /\ KiOk(u.db)
        BY <1>8, <1>9, WithinKi, Zenon DEF Okay
    <2>2. TRUE \in BOOLEAN
        OBVIOUS
    <2>3. QED
        BY <1>1, <1>5, <1>9, <2>1, <2>2, AddIncomingOkay
<1>11. PICK k \in Keys : k = <<"unlocked", now, o>>
    BY <1>1, KeyFacts
<1>12. w.db[k] = Absent
    BY <1>9, <1>10, <1>11, Zenon DEF SameLocks, Fresh, Free
<1>13. Sets(w, t, k, h) /\ Quiet(w, t)
    BY <1>6, <1>10, <1>11, <1>12, PutNew, Zenon DEF Okay
<1>14. Moves(w, t, <<"unlocked", now, o>>, h)
    BY <1>11, <1>13, SetsMoves, Zenon
<1>15. Within(w.db, t.db, {o}) /\ t.db[<<"locked", o>>] = w.db[<<"locked", o>>]
    BY <1>1, <1>14, MovesUnlocked
<1>16. Okay(w, t, {o})
    BY <1>13, <1>15, Zenon DEF Okay, Sets
<1>17. Okay(s, t, {o})
    BY <1>9, <1>10, <1>16, OkayChain, Zenon
<1>18. QED
    BY <1>8, <1>10, <1>15, <1>17, Zenon DEF SameLocks

\* The last part of add_incoming_keyimage.
LEMMA SpendOkay ==
    ASSUME NEW s, IsDb(s.db), KiOk(s.db), NEW k \in KeyImages, NEW t, t = SpendKeyImage(s, k)
    PROVE  Okay(s, t, {})
<1>1. CASE StandingUnspent(s.db, k)
    <2>1. t = RemoveFromUnspentIndex(s, Standing(s.db, k)[2], Standing(s.db, k)[1])
        BY <1>1, Zenon DEF SpendKeyImage
    <2>2. QED
        BY <1>1, <2>1, RemoveStanding, Zenon
<1>2. CASE ~StandingUnspent(s.db, k)
    <2>1. t = s
        BY <1>2, Zenon DEF SpendKeyImage
    <2>2. QED
        BY <2>1, OkaySelf, Zenon
<1>3. QED
    BY <1>1, <1>2, Zenon

-----------------------------------------------------------------------------
\* The transactions of a block and of all below it.
Upto(b) == UNION {TxSet(a) : a \in Ancestors(b)}

LEMMA BlockFacts ==
    ASSUME NEW b \in Blocks
    PROVE  /\ TxSet(b) \subseteq Txs /\ TxSet(b) \subseteq Upto(b) /\ Height[b] \in Heights
           /\ TxsOf[b] \in Seq(Txs)
<1>1. TxsOf[b] \in Seq(Txs)
    BY WalletAssumption DEF WalletAssumption
<1>2. TxSet(b) \subseteq Txs
    BY <1>1 DEF TxSet
<1>3. b \in Ancestors(b)
    BY DEF Ancestors
<1>4. QED
    BY <1>1, <1>2, <1>3 DEF Upto, Heights

\* Above a block nothing of it or below it is met again.
LEMMA ParentFacts ==
    ASSUME NEW b \in Blocks, b # Genesis
    PROVE  /\ Upto(Parent[b]) \subseteq Upto(b)
           /\ Upto(Parent[b]) \cap TxSet(b) = {}
<1>1. /\ Parent[b] \in Blocks /\ Height[b] = Height[Parent[b]] + 1
      /\ \A x \in Blocks : Height[x] \in Nat
      /\ \A x \in Blocks \ {Genesis} : Parent[x] \in Blocks /\ Height[x] = Height[Parent[x]] + 1
    BY WalletAssumption DEF WalletAssumption
<1>2. Ancestors(Parent[b]) \subseteq Ancestors(b)
    BY <1>1, Zenon DEF Ancestors
<1>3. b \notin Ancestors(Parent[b])
    <2> DEFINE S == {x \in Blocks : Height[x] <= Height[Parent[b]]}
    <2>1. S \in SUBSET Blocks /\ Parent[b] \in S
        BY <1>1
    <2>2. \A x \in S \ {Genesis} : Parent[x] \in S
        BY <1>1
    <2>3. b \notin S
        BY <1>1
    <2> HIDE DEF S
    <2>4. QED
        BY <2>1, <2>2, <2>3 DEF Ancestors
<1>4. Upto(Parent[b]) \subseteq Upto(b)
    BY <1>2 DEF Upto
<1>5. ASSUME NEW a \in Ancestors(Parent[b]) PROVE TxSet(a) \cap TxSet(b) = {}
    <2>1. a \in Ancestors(b) \ {b}
        BY <1>2, <1>3
    <2>2. QED
        BY <2>1, BranchAssumption, Zenon DEF BranchAssumption
<1>6. QED
    BY <1>4, <1>5 DEF Upto

LEMMA OutsFacts ==
    ASSUME NEW t \in Txs
    PROVE  /\ OutsOf[t] \in Seq(Outputs) /\ MyOuts(t) \subseteq Outputs
           /\ \A u \in Txs : u # t => MyOuts(t) \cap MyOuts(u) = {}
<1>1. OutsOf[t] \in Seq(Outputs)
    BY WalletAssumption DEF WalletAssumption
<1>2. ASSUME NEW u \in Txs, u # t PROVE MyOuts(t) \cap MyOuts(u) = {}
    <2>1. ASSUME NEW o \in MyOuts(t), o \in MyOuts(u) PROVE FALSE
        <3>1. PICK i \in DOMAIN OutsOf[t] : o = OutsOf[t][i]
            BY Zenon DEF MyOuts
        <3>2. PICK j \in DOMAIN OutsOf[u] : o = OutsOf[u][j]
            BY <2>1, Zenon DEF MyOuts
        <3>3. OutsOf[t][i] = OutsOf[u][j]
            BY <3>1, <3>2, Zenon
        <3>4. t = u
            BY <3>3, BranchAssumption, Zenon DEF BranchAssumption
        <3>5. QED
            BY <1>2, <3>4
    <2>2. QED
        BY <2>1
<1>3. MyOuts(t) \subseteq Outputs
    BY <1>1 DEF MyOuts
<1>4. QED
    BY <1>1, <1>2, <1>3

-----------------------------------------------------------------------------
\* Tables that know nothing of transactions outside of T.
Untouched(d, t) == NewTx(d, t) /\ \A o \in MyOuts(t) : Fresh(d, o)
Good(d, T) ==
    /\ \A o \in Outputs : LockOk(d, o)
    /\ KiOk(d)
    /\ \A t \in Txs \ T : Untouched(d, t)

LEMMA GoodMore ==
    ASSUME NEW d, NEW T, NEW U, Good(d, T), T \subseteq U
    PROVE  Good(d, U)
BY Zenon DEF Good

LEMMA BlankGood == Good(Blank, {})
<1>1. \A k \in Keys : Blank[k] = Absent
    BY DEF Blank
<1>2. /\ \A h \in Heights, o \in Outputs : Blank[<<"unspent", h, o>>] = Absent /\ Blank[<<"unlocked", h, o>>] = Absent
      /\ \A o \in Outputs : Blank[<<"locked", o>>] = Absent
      /\ \A k \in KeyImages : Blank[<<"keyimage", k>>] = Absent
      /\ \A t \in Txs : Blank[<<"tx", t>>] = Absent
    BY <1>1, KeyFacts, Zenon
<1>3. \A t \in Txs : MyOuts(t) \subseteq Outputs
    BY OutsFacts
<1>4. \A o \in Outputs : Fresh(Blank, o)
    BY <1>2, Zenon DEF Fresh, Free
<1>5. \A t \in Txs : Untouched(Blank, t)
    BY <1>2, <1>3, <1>4 DEF Untouched, NewTx
<1>6. QED
    BY <1>2, <1>5, Zenon DEF Good, LockOk, KiOk

LEMMA UntouchedWithin ==
    ASSUME NEW d, NEW e, NEW O, Within(d, e, O), NEW t \in Txs, O \cap MyOuts(t) = {}, Untouched(d, t)
    PROVE  Untouched(e, t)
<1>1. ASSUME NEW o \in MyOuts(t) PROVE Fresh(e, o)
    <2>1. o \in Outputs \ O
        BY OutsFacts
    <2>2. Fresh(d, o)
        BY DEF Untouched
    <2>3. QED
        BY <2>1, <2>2, WithinOther
<1>2. NewTx(e, t)
    BY Zenon DEF Within, NewTx, Untouched
<1>3. QED
    BY <1>1, <1>2 DEF Untouched

\* A step that is about the output o, which is known or of a known transaction.
LEMMA GoodWithin ==
    ASSUME NEW d, NEW e, NEW T, NEW o \in Outputs, Good(d, T), Within(d, e, {o}), LockOk(e, o),
           \A t \in Txs \ T : o \notin MyOuts(t)
    PROVE  Good(e, T)
<1>1. ASSUME NEW p \in Outputs PROVE LockOk(e, p)
    <2>1. CASE p = o
        BY <2>1
    <2>2. CASE p # o
        BY <2>2, WithinOther DEF Good
    <2>3. QED
        BY <2>1, <2>2
<1>2. KiOk(e)
    BY WithinKi DEF Good
<1>3. ASSUME NEW t \in Txs \ T PROVE Untouched(e, t)
    <2>1. Untouched(d, t) /\ {o} \cap MyOuts(t) = {}
        BY DEF Good
    <2>2. QED
        BY <2>1, UntouchedWithin
<1>4. QED
    BY <1>1, <1>2, <1>3 DEF Good

LEMMA GoodSpend ==
    ASSUME NEW d, NEW e, NEW T, Good(d, T), Within(d, e, {})
    PROVE  Good(e, T)
<1>1. ASSUME NEW p \in Outputs PROVE LockOk(e, p)
    <2>1. p \in Outputs \ {}
        OBVIOUS
    <2>2. QED
        BY <2>1, WithinOther DEF Good
<1>2. KiOk(e)
    BY WithinKi DEF Good
<1>3. ASSUME NEW t \in Txs \ T PROVE Untouched(e, t)
    <2>1. Untouched(d, t) /\ {} \cap MyOuts(t) = {}
        BY DEF Good
    <2>2. QED
        BY <2>1, UntouchedWithin
<1>4. QED
    BY <1>1, <1>2, <1>3 DEF Good

\* The transaction itself is recorded.
OnlyTx(d, e, t) ==
    /\ \A h \in Heights, o \in Outputs :
          /\ e[<<"unspent", h, o>>] = d[<<"unspent", h, o>>]
          /\ e[<<"unlocked", h, o>>] = d[<<"unlocked", h, o>>]
    /\ \A o \in Outputs : e[<<"locked", o>>] = d[<<"locked", o>>]
    /\ \A k \in KeyImages : e[<<"keyimage", k>>] = d[<<"keyimage", k>>]
    /\ \A u \in Txs : u # t => e[<<"tx", u>>] = d[<<"tx", u>>]

LEMMA RecordOnlyTx ==
    ASSUME NEW s, NEW u, NEW t \in Txs, NEW v, Moves(s, u, <<"tx", t>>, v)
    PROVE  OnlyTx(s.db, u.db, t)
<1>0. Unmoved(s, u, <<"tx", t>>)
    BY MovesNot, Zenon
<1>1. \A p \in Outputs : u.db[<<"locked", p>>] = s.db[<<"locked", p>>]
    BY <1>0, KeysApart, Zenon DEF Unmoved
<1>2. \A g \in Heights, p \in Outputs :
          /\ u.db[<<"unlocked", g, p>>] = s.db[<<"unlocked", g, p>>]
          /\ u.db[<<"unspent", g, p>>] = s.db[<<"unspent", g, p>>]
    BY <1>0, KeysApart, Zenon DEF Unmoved
<1>3. \A k \in KeyImages : u.db[<<"keyimage", k>>] = s.db[<<"keyimage", k>>]
    BY <1>0, KeysApart, Zenon DEF Unmoved
<1>4. \A y \in Txs : y # t => u.db[<<"tx", y>>] = s.db[<<"tx", y>>]
    BY <1>0, KeysApart, Zenon DEF Unmoved
<1>5. QED
    BY <1>1, <1>2, <1>3, <1>4, Zenon DEF OnlyTx

LEMMA UntouchedOnlyTx ==
    ASSUME NEW d, NEW e, NEW t, OnlyTx(d, e, t), NEW u \in Txs, u # t
    PROVE  /\ Untouched(d, u) => Untouched(e, u)
           /\ NewTx(d, u) => NewTx(e, u)
<1>1. MyOuts(u) \subseteq Outputs
    BY OutsFacts
<1>2. \A o \in Outputs : Fresh(d, o) => Fresh(e, o)
    BY Zenon DEF OnlyTx, Fresh, Free
<1>3. NewTx(d, u) => NewTx(e, u)
    BY Zenon DEF OnlyTx, NewTx
<1>4. QED
    BY <1>1, <1>2, <1>3 DEF Untouched

LEMMA GoodOnlyTx ==
    ASSUME NEW d, NEW e, NEW T, NEW t \in T, Good(d, T), OnlyTx(d, e, t)
    PROVE  Good(e, T)
<1>1. ASSUME NEW p \in Outputs PROVE LockOk(e, p)
    <2>1. LockOk(d, p)
        BY DEF Good
    <2>2. QED
        BY <2>1, Zenon DEF LockOk, Free, OnlyTx
<1>2. KiOk(e)
    BY Zenon DEF Good, KiOk, OnlyTx
<1>3. ASSUME NEW u \in Txs \ T PROVE Untouched(e, u)
    BY UntouchedOnlyTx DEF Good
<1>4. QED
    BY <1>1, <1>2, <1>3 DEF Good

-----------------------------------------------------------------------------
\* The calls to come in a block whose transactions are B: those not yet redone
\* are unknown to the tables, the outputs to be added are new, and those to be
\* unlocked are locked.
CallOk(x, d, B) ==
    /\ x[1] = "redo" => x[2] \in B /\ Untouched(d, x[2])
    /\ x[1] = "tx" => x[2] \in B /\ NewTx(d, x[2])
    /\ x[1] = "outputs" => \A y \in x[2] : /\ Fresh(d, y[2])
                                           /\ \E t \in B : y[2] \in MyOuts(t)
                                           /\ \A z \in x[2] : z[2] = y[2] => z = y
    /\ x[1] = "unlock" => x[2] \subseteq Locked(d)
    /\ x[1] = "spend" => x[2] \in KeyImages
    /\ x[1] = "keyimages" => x[2] \subseteq KeyImages
\* A call and a later one are of different transactions.
Apart(x, y) ==
    /\ x[1] \in {"redo", "tx"} /\ y[1] \in {"redo", "tx"} => x[2] # y[2]
    /\ x[1] = "outputs" /\ y[1] = "redo" => \A z \in x[2] : z[2] \notin MyOuts(y[2])
Later(x) == x[1] # "outputs" /\ x[1] # "unlock"
RestOk(r, d, B) ==
    /\ IsSeq(r)
    /\ \A i \in 1..Len(r) : CallOk(r[i], d, B) /\ Later(r[i])
    /\ \A i, j \in 1..Len(r) : i < j => Apart(r[i], r[j])
ApartAll(x, r) == \A i \in 1..Len(r) : Apart(x, r[i])
Pending(c, d, B) ==
    /\ c # <<>> /\ CallOk(c[1], d, B)
    /\ RestOk(Tail(c), d, B) /\ ApartAll(c[1], Tail(c))
InBlockAt(c, d, b) == Good(d, Upto(b)) /\ Pending(c, d, TxSet(b))

LEMMA TailFacts ==
    ASSUME NEW r, IsSeq(r), r # <<>>
    PROVE  /\ IsSeq(Tail(r)) /\ Len(r) \in Nat /\ Len(r) >= 1 /\ Len(Tail(r)) = Len(r) - 1
           /\ \A i \in 1..Len(Tail(r)) : i + 1 \in 1..Len(r) /\ Tail(r)[i] = r[i + 1]
<1>1. PICK S : r \in Seq(S)
    BY DEF IsSeq
<1>2. Len(r) \in Nat /\ Len(r) >= 1 /\ Tail(r) \in Seq(S) /\ Len(Tail(r)) = Len(r) - 1
    BY <1>1
<1>3. \A i \in 1..Len(Tail(r)) : Tail(r)[i] = r[i + 1]
    BY <1>1
<1>4. QED
    BY <1>2, <1>3 DEF IsSeq

\* The first call is done.
LEMMA RestPending ==
    ASSUME NEW r, NEW d, NEW B, RestOk(r, d, B), r # <<>>
    PROVE  Pending(r, d, B)
<1>1. IsSeq(r)
    BY DEF RestOk
<1>2. PICK q : q = Tail(r)
    OBVIOUS
<1>3. /\ IsSeq(q) /\ Len(r) \in Nat /\ Len(r) >= 1 /\ Len(q) = Len(r) - 1
      /\ \A i \in 1..Len(q) : i + 1 \in 1..Len(r) /\ q[i] = r[i + 1]
    BY <1>1, <1>2, TailFacts
<1>4. 1 \in 1..Len(r)
    BY <1>3
<1>5. CallOk(r[1], d, B)
    BY <1>4 DEF RestOk
<1>6. ApartAll(r[1], q)
    <2>1. ASSUME NEW i \in 1..Len(q) PROVE Apart(r[1], q[i])
        <3>1. i + 1 \in 1..Len(r) /\ q[i] = r[i + 1] /\ 1 < i + 1
            BY <1>3
        <3>2. QED
            BY <1>4, <3>1 DEF RestOk
    <2>2. QED
        BY <2>1 DEF ApartAll
<1>7. RestOk(q, d, B)
    <2>1. ASSUME NEW i \in 1..Len(q) PROVE CallOk(q[i], d, B) /\ Later(q[i])
        BY <1>3 DEF RestOk
    <2>2. ASSUME NEW i \in 1..Len(q), NEW j \in 1..Len(q), i < j PROVE Apart(q[i], q[j])
        <3>1. i + 1 \in 1..Len(r) /\ q[i] = r[i + 1] /\ j + 1 \in 1..Len(r) /\ q[j] = r[j + 1] /\ i + 1 < j + 1
            BY <1>3, <2>2
        <3>2. QED
            BY <3>1 DEF RestOk
    <2>3. QED
        BY <1>3, <2>1, <2>2 DEF RestOk
<1>8. QED
    BY <1>2, <1>5, <1>6, <1>7 DEF Pending

LEMMA OneMore ==
    ASSUME NEW x, NEW r, IsSeq(r)
    PROVE  /\ IsSeq(<<x>> \o r) /\ Len(r) \in Nat /\ Len(<<x>> \o r) = Len(r) + 1
           /\ (<<x>> \o r)[1] = x /\ Tail(<<x>> \o r) = r /\ <<x>> \o r # <<>>
           /\ \A i \in 2..Len(r) + 1 : i - 1 \in 1..Len(r) /\ (<<x>> \o r)[i] = r[i - 1]
<1>1. PICK S : r \in Seq(S)
    BY DEF IsSeq
<1>2. r \in Seq(S \cup {x}) /\ <<x>> \in Seq(S \cup {x}) /\ Len(<<x>>) = 1 /\ <<x>>[1] = x /\ Len(r) \in Nat
    BY <1>1
<1>a. <<x>> \o r \in Seq(S \cup {x})
    BY <1>2
<1>3. PICK c \in Seq(S \cup {x}) : c = <<x>> \o r
    BY <1>a, Zenon
<1>4. Len(c) = Len(r) + 1 /\ c[1] = x
    BY <1>2, <1>3
<1>5. \A i \in 2..Len(r) + 1 : i - 1 \in 1..Len(r) /\ c[i] = r[i - 1]
    BY <1>2, <1>3
<1>6. c # <<>>
    BY <1>2, <1>4
<1>7. Tail(c) = r
    <2>1. Tail(c) \in Seq(S \cup {x}) /\ Len(Tail(c)) = Len(r)
        BY <1>2, <1>4, <1>6
    <2>2. ASSUME NEW i \in 1..Len(r) PROVE Tail(c)[i] = r[i]
        <3>1. i + 1 \in 2..Len(r) + 1 /\ (i + 1) - 1 = i
            BY <1>2
        <3>2. c[i + 1] = r[i]
            BY <1>5, <3>1
        <3>3. Tail(c)[i] = c[i + 1]
            BY <1>2, <1>4, <1>6
        <3>4. QED
            BY <3>2, <3>3
    <2>3. QED
        BY <1>2, <2>1, <2>2
<1>8. QED
    BY <1>2, <1>3, <1>4, <1>5, <1>6, <1>7 DEF IsSeq

LEMMA PendingOne ==
    ASSUME NEW x, NEW r, NEW d, NEW B, RestOk(r, d, B), CallOk(x, d, B), ApartAll(x, r)
    PROVE  Pending(<<x>> \o r, d, B)
<1>1. IsSeq(r)
    BY DEF RestOk
<1>2. (<<x>> \o r)[1] = x /\ Tail(<<x>> \o r) = r /\ <<x>> \o r # <<>>
    BY <1>1, OneMore
<1>3. QED
    BY <1>2, Zenon DEF Pending

LEMMA RestOne ==
    ASSUME NEW x, NEW r, NEW d, NEW B, RestOk(r, d, B), CallOk(x, d, B), Later(x), ApartAll(x, r)
    PROVE  RestOk(<<x>> \o r, d, B)
<1>1. IsSeq(r)
    BY DEF RestOk
<1>2. PICK c : c = <<x>> \o r
    OBVIOUS
<1>3. /\ IsSeq(c) /\ Len(r) \in Nat /\ Len(c) = Len(r) + 1 /\ c[1] = x
      /\ \A i \in 2..Len(r) + 1 : i - 1 \in 1..Len(r) /\ c[i] = r[i - 1]
    BY <1>1, <1>2, OneMore
<1>4. ASSUME NEW i \in 1..Len(c) PROVE CallOk(c[i], d, B) /\ Later(c[i])
    <2>1. CASE i = 1
        BY <1>3, <2>1
    <2>2. CASE i # 1
        <3>1. i - 1 \in 1..Len(r) /\ c[i] = r[i - 1]
            BY <1>3, <2>2
        <3>2. QED
            BY <3>1 DEF RestOk
    <2>3. QED
        BY <2>1, <2>2
<1>5. ASSUME NEW i \in 1..Len(c), NEW j \in 1..Len(c), i < j PROVE Apart(c[i], c[j])
    <2>1. j - 1 \in 1..Len(r) /\ c[j] = r[j - 1]
        BY <1>3, <1>5
    <2>2. CASE i = 1
        BY <1>3, <2>1, <2>2 DEF ApartAll
    <2>3. CASE i # 1
        <3>1. i - 1 \in 1..Len(r) /\ c[i] = r[i - 1] /\ i - 1 < j - 1
            BY <1>3, <1>5, <2>3
        <3>2. QED
            BY <2>1, <3>1 DEF RestOk
    <2>4. QED
        BY <2>2, <2>3
<1>6. QED
    BY <1>2, <1>3, <1>4, <1>5 DEF RestOk

LEMMA ApartOne ==
    ASSUME NEW x, NEW y, NEW r, IsSeq(r), Apart(x, y), ApartAll(x, r)
    PROVE  ApartAll(x, <<y>> \o r)
<1>1. PICK c : c = <<y>> \o r
    OBVIOUS
<1>2. /\ IsSeq(c) /\ Len(r) \in Nat /\ Len(c) = Len(r) + 1 /\ c[1] = y
      /\ \A i \in 2..Len(r) + 1 : i - 1 \in 1..Len(r) /\ c[i] = r[i - 1]
    BY <1>1, OneMore
<1>3. ASSUME NEW i \in 1..Len(c) PROVE Apart(x, c[i])
    <2>1. CASE i = 1
        BY <1>2, <2>1
    <2>2. CASE i # 1
        <3>1. i - 1 \in 1..Len(r) /\ c[i] = r[i - 1]
            BY <1>2, <2>2
        <3>2. QED
            BY <3>1 DEF ApartAll
    <2>3. QED
        BY <2>1, <2>2
<1>4. QED
    BY <1>1, <1>3 DEF ApartAll

Before(x, r, a) == Len(a) = Len(r) + 1 /\ a[1] = x /\ \A i \in 1..Len(r) : a[i + 1] = r[i]
Joined(p, r, e) ==
    /\ Len(e) = Len(p) + Len(r)
    /\ \A i \in 1..Len(p) : e[i] = p[i]
    /\ \A i \in 1..Len(r) : e[Len(p) + i] = r[i]

LEMMA PutBefore ==
    ASSUME NEW U, NEW x \in U, NEW r \in Seq(U), NEW a, a = <<x>> \o r
    PROVE  a \in Seq(U) /\ Before(x, r, a)
<1>1. <<x>> \in Seq(U) /\ Len(<<x>>) = 1 /\ <<x>>[1] = x /\ Len(r) \in Nat
    OBVIOUS
<1>2. a \in Seq(U) /\ Len(a) = Len(r) + 1 /\ a[1] = x
    BY <1>1
<1>3. \A i \in 1..Len(r) : a[i + 1] = r[i]
    BY <1>1
<1>4. QED
    BY <1>2, <1>3 DEF Before

LEMMA ConcatFacts ==
    ASSUME NEW U, NEW p \in Seq(U), NEW r \in Seq(U), NEW e, e = p \o r
    PROVE  e \in Seq(U) /\ Joined(p, r, e)
<1>1. p \o r \in Seq(U) /\ Len(p \o r) = Len(p) + Len(r)
    OBVIOUS
<1>2. \A i \in 1..Len(p) : (p \o r)[i] = p[i]
    OBVIOUS
<1>3. \A i \in 1..Len(r) : (p \o r)[Len(p) + i] = r[i]
    OBVIOUS
<1>4. QED
    BY <1>1, <1>2, <1>3, Zenon DEF Joined

LEMMA SameSeq ==
    ASSUME NEW U, NEW c \in Seq(U), NEW e \in Seq(U), Len(c) = Len(e), \A i \in 1..Len(e) : e[i] = c[i]
    PROVE  c = e
OBVIOUS

Stacked(x, y, z, r, a, b, c, e) ==
    a = <<z>> \o r /\ b = <<y>> \o a /\ c = <<x>> \o b /\ e = <<x, y, z>> \o r

LEMMA ThreeMore ==
    ASSUME NEW U, NEW x \in U, NEW y \in U, NEW z \in U, NEW r \in Seq(U), NEW a, NEW b, NEW c, NEW e,
           Stacked(x, y, z, r, a, b, c, e)
    PROVE  c = e
<1>0. a = <<z>> \o r /\ b = <<y>> \o a /\ c = <<x>> \o b /\ e = <<x, y, z>> \o r
    BY DEF Stacked
<1>1. a \in Seq(U) /\ Len(a) = Len(r) + 1 /\ a[1] = z /\ \A i \in 1..Len(r) : a[i + 1] = r[i]
    <2>1. a \in Seq(U) /\ Before(z, r, a)
        BY <1>0, PutBefore
    <2>2. QED
        BY <2>1, Zenon DEF Before
<1>2. b \in Seq(U) /\ Len(b) = Len(a) + 1 /\ b[1] = y /\ \A i \in 1..Len(a) : b[i + 1] = a[i]
    <2>1. b \in Seq(U) /\ Before(y, a, b)
        BY <1>0, <1>1, PutBefore
    <2>2. QED
        BY <2>1, Zenon DEF Before
<1>3. c \in Seq(U) /\ Len(c) = Len(b) + 1 /\ c[1] = x /\ \A i \in 1..Len(b) : c[i + 1] = b[i]
    <2>1. c \in Seq(U) /\ Before(x, b, c)
        BY <1>0, <1>2, PutBefore
    <2>2. QED
        BY <2>1, Zenon DEF Before
<1>4. PICK p : p = <<x, y, z>>
    OBVIOUS
<1>5. p \in Seq(U) /\ Len(p) = 3 /\ p[1] = x /\ p[2] = y /\ p[3] = z
    BY <1>4
<1>6. /\ e \in Seq(U) /\ Len(e) = Len(r) + 3 /\ e[1] = x /\ e[2] = y /\ e[3] = z
      /\ \A i \in 1..Len(r) : e[i + 3] = r[i]
    <2>1. p \in Seq(U) /\ e = p \o r
        BY <1>0, <1>4, <1>5
    <2>2. e \in Seq(U) /\ Joined(p, r, e)
        BY <2>1, ConcatFacts
    <2>3. /\ Len(r) \in Nat /\ (\A i \in 1..Len(r) : 3 + i = i + 3) /\ 3 + Len(r) = Len(r) + 3
          /\ 1 \in 1..3 /\ 2 \in 1..3 /\ 3 \in 1..3
        OBVIOUS
    <2>4. QED
        BY <1>5, <2>2, <2>3, Zenon DEF Joined
<1>7. PICK n \in Nat : n = Len(r) /\ Len(a) = n + 1 /\ Len(b) = n + 2 /\ Len(c) = n + 3 /\ Len(e) = n + 3
    BY <1>1, <1>2, <1>3, <1>6
<1>8. ASSUME NEW i \in 1..Len(e) PROVE e[i] = c[i]
    <2>1. i \in {1, 2, 3} \/ \E m \in 1..n : i = m + 3
        <3>1. i > 3 => i - 3 \in 1..n /\ i = (i - 3) + 3
            BY <1>7
        <3>2. QED
            BY <1>7, <3>1
    <2>2. c[2] = y
        <3>1. 1 \in 1..Len(b) /\ 1 + 1 = 2
            BY <1>7
        <3>2. QED
            BY <1>2, <1>3, <3>1, Zenon
    <2>3. c[3] = z
        <3>1. 2 \in 1..Len(b) /\ 2 + 1 = 3 /\ 1 \in 1..Len(a) /\ 1 + 1 = 2
            BY <1>7
        <3>2. c[3] = b[2]
            BY <1>3, <3>1, Zenon
        <3>3. b[2] = a[1]
            BY <1>2, <3>1, Zenon
        <3>4. QED
            BY <1>1, <3>2, <3>3, Zenon
    <2>4. ASSUME NEW m \in 1..n, i = m + 3 PROVE e[i] = c[i]
        <3>1. /\ m \in 1..Len(r) /\ m + 1 \in 1..Len(a) /\ m + 2 \in 1..Len(b)
              /\ (m + 1) + 1 = m + 2 /\ (m + 2) + 1 = m + 3
            BY <1>7
        <3>2. c[m + 3] = b[m + 2] /\ b[m + 2] = a[m + 1] /\ a[m + 1] = r[m] /\ e[m + 3] = r[m]
            BY <1>1, <1>2, <1>3, <1>6, <3>1, Zenon
        <3>3. QED
            BY <2>4, <3>2, Zenon
    <2>5. QED
        BY <1>3, <1>6, <2>1, <2>2, <2>3, <2>4, Zenon
<1>9. QED
    BY <1>3, <1>6, <1>7, <1>8, SameSeq

LEMMA PendingThree ==
    ASSUME NEW x, NEW y, NEW z, NEW r, NEW d, NEW B, RestOk(r, d, B),
           CallOk(x, d, B), CallOk(y, d, B), CallOk(z, d, B), Later(y), Later(z),
           Apart(x, y), Apart(x, z), Apart(y, z), ApartAll(x, r), ApartAll(y, r), ApartAll(z, r)
    PROVE  Pending(<<x, y, z>> \o r, d, B)
<1>1. IsSeq(r)
    BY DEF RestOk
<1>2. PICK a : a = <<z>> \o r
    OBVIOUS
<1>3. RestOk(a, d, B) /\ ApartAll(y, a) /\ ApartAll(x, a) /\ IsSeq(a)
    BY <1>1, <1>2, RestOne, ApartOne, OneMore
<1>4. PICK b : b = <<y>> \o a
    OBVIOUS
<1>5. RestOk(b, d, B) /\ ApartAll(x, b)
    BY <1>3, <1>4, RestOne, ApartOne
<1>6. PICK c : c = <<x>> \o b
    OBVIOUS
<1>7. Pending(c, d, B)
    BY <1>5, <1>6, PendingOne, Zenon
<1>8. PICK e : e = <<x, y, z>> \o r
    OBVIOUS
<1>9. c = e
    <2>1. PICK S : r \in Seq(S)
        BY <1>1 DEF IsSeq
    <2>2. PICK U : U = S \cup {x, y, z}
        OBVIOUS
    <2>3. x \in U /\ y \in U /\ z \in U /\ r \in Seq(U)
        BY <2>1, <2>2
    <2>4. QED
        <3>1. Stacked(x, y, z, r, a, b, c, e)
            BY <1>2, <1>4, <1>6, <1>8, Zenon DEF Stacked
        <3>2. QED
            BY <2>3, <3>1, ThreeMore
<1>10. QED
    BY <1>7, <1>8, <1>9, Zenon

\* What the step is about leaves the other calls as they are.
LEMMA RestWithin ==
    ASSUME NEW r, NEW d, NEW e, NEW B \in SUBSET Txs, NEW O, RestOk(r, d, B), Within(d, e, O),
           \A i \in 1..Len(r) : r[i][1] = "redo" => O \cap MyOuts(r[i][2]) = {}
    PROVE  RestOk(r, e, B)
<1>1. ASSUME NEW i \in 1..Len(r) PROVE CallOk(r[i], e, B)
    <2>1. PICK x : x = r[i]
        OBVIOUS
    <2>2. CallOk(x, d, B) /\ Later(x) /\ (x[1] = "redo" => O \cap MyOuts(x[2]) = {})
        BY <2>1 DEF RestOk
    <2>3. ASSUME x[1] = "redo" PROVE x[2] \in B /\ Untouched(e, x[2])
        BY <2>2, <2>3, UntouchedWithin DEF CallOk
    <2>4. ASSUME x[1] = "tx" PROVE x[2] \in B /\ NewTx(e, x[2])
        <3>1. x[2] \in B /\ NewTx(d, x[2]) /\ x[2] \in Txs
            BY <2>2, <2>4, Zenon DEF CallOk
        <3>2. QED
            BY <3>1, Zenon DEF NewTx, Within
    <2>5. QED
        BY <2>1, <2>2, <2>3, <2>4, Zenon DEF CallOk, Later
<1>2. QED
    BY <1>1 DEF RestOk

LEMMA RestOnlyTx ==
    ASSUME NEW r, NEW d, NEW e, NEW B \in SUBSET Txs, NEW t, RestOk(r, d, B), OnlyTx(d, e, t),
           \A i \in 1..Len(r) : r[i][1] \in {"redo", "tx"} => r[i][2] # t
    PROVE  RestOk(r, e, B)
<1>1. ASSUME NEW i \in 1..Len(r) PROVE CallOk(r[i], e, B)
    <2>1. PICK x : x = r[i]
        OBVIOUS
    <2>2. CallOk(x, d, B) /\ Later(x) /\ (x[1] \in {"redo", "tx"} => x[2] # t)
        BY <2>1 DEF RestOk
    <2>3. ASSUME x[1] = "redo" PROVE x[2] \in B /\ Untouched(e, x[2])
        BY <2>2, <2>3, UntouchedOnlyTx DEF CallOk
    <2>4. ASSUME x[1] = "tx" PROVE x[2] \in B /\ NewTx(e, x[2])
        BY <2>2, <2>4, UntouchedOnlyTx DEF CallOk
    <2>5. QED
        BY <2>1, <2>2, <2>3, <2>4, Zenon DEF CallOk, Later
<1>2. QED
    BY <1>1 DEF RestOk

-----------------------------------------------------------------------------
\* The steps of redo_block.

\* redo_transaction of a transaction that is ours.
LEMMA AcceptedFacts ==
    ASSUME NEW d, NEW t \in Txs, NEW y \in AcceptedAt(d, t)
    PROVE  /\ y[2] \in MyOuts(t)
           /\ \A z \in AcceptedAt(d, t) : z[2] = y[2] => z = y
<1>1. \A z \in AcceptedAt(d, t) : z[1] \in DOMAIN OutsOf[t] /\ OutsOf[t][z[1]] = z[2] /\ z = <<z[1], z[2]>>
    BY DEF AcceptedAt
<1>2. y[2] \in MyOuts(t)
    BY <1>1 DEF MyOuts
<1>3. ASSUME NEW z \in AcceptedAt(d, t), z[2] = y[2] PROVE z = y
    <2>1. PICK f : f = OutsOf[t]
        OBVIOUS
    <2>2. \A i \in DOMAIN f, j \in DOMAIN f : f[i] = f[j] => i = j
        BY <2>1, BranchAssumption DEF BranchAssumption
    <2>3. PICK i, j : i = z[1] /\ j = y[1]
        OBVIOUS
    <2>4. i \in DOMAIN f /\ j \in DOMAIN f /\ f[i] = z[2] /\ f[j] = y[2]
        BY <1>1, <2>1, <2>3, Zenon
    <2>5. i = j
        BY <1>3, <2>2, <2>4, Zenon
    <2>6. QED
        BY <1>1, <1>3, <2>3, <2>5, Zenon
<1>4. QED
    BY <1>2, <1>3

LEMMA TxCalls ==
    ASSUME NEW d, NEW B \in SUBSET Txs, NEW t \in B, Untouched(d, t), NEW r, RestOk(r, d, B),
           NEW q, q[1] = "redo", q[2] = t, ApartAll(q, r)
    PROVE  Pending(<<<<"outputs", AcceptedAt(d, t)>>, <<"keyimages", OurKeyImages(d, t)>>, <<"tx", t>>>> \o r, d, B)
<1>1. PICK x, y, z : /\ x = <<"outputs", AcceptedAt(d, t)>> /\ y = <<"keyimages", OurKeyImages(d, t)>>
                     /\ z = <<"tx", t>>
    OBVIOUS
<1>2. /\ x[1] = "outputs" /\ x[2] = AcceptedAt(d, t) /\ y[1] = "keyimages" /\ y[2] = OurKeyImages(d, t)
      /\ z[1] = "tx" /\ z[2] = t
    BY <1>1
<1>3. CallOk(x, d, B)
    <2>1. ASSUME NEW w \in AcceptedAt(d, t)
          PROVE  /\ Fresh(d, w[2])
                 /\ \E u \in B : w[2] \in MyOuts(u)
                 /\ \A v \in AcceptedAt(d, t) : v[2] = w[2] => v = w
        <3>1. w[2] \in MyOuts(t) /\ \A v \in AcceptedAt(d, t) : v[2] = w[2] => v = w
            BY AcceptedFacts
        <3>2. QED
            BY <3>1 DEF Untouched
    <2>2. QED
        BY <1>2, <2>1 DEF CallOk
<1>4. CallOk(y, d, B)
    <2>1. OurKeyImages(d, t) \subseteq KeyImages
        BY DEF OurKeyImages, KeyImages
    <2>2. QED
        BY <1>2, <2>1 DEF CallOk
<1>5. CallOk(z, d, B)
    BY <1>2 DEF CallOk, Untouched
<1>6. Later(y) /\ Later(z) /\ Apart(x, y) /\ Apart(x, z) /\ Apart(y, z)
    BY <1>2 DEF Later, Apart
<1>7. ASSUME NEW i \in 1..Len(r) PROVE Apart(x, r[i]) /\ Apart(y, r[i]) /\ Apart(z, r[i])
    <2>1. Apart(q, r[i]) /\ CallOk(r[i], d, B)
        BY DEF ApartAll, RestOk
    <2>2. Apart(z, r[i]) /\ Apart(y, r[i])
        BY <1>2, <2>1 DEF Apart
    <2>3. ASSUME r[i][1] = "redo", NEW w \in AcceptedAt(d, t) PROVE w[2] \notin MyOuts(r[i][2])
        <3>1. r[i][2] \in Txs /\ r[i][2] # t /\ t \in Txs
            BY <2>1, <2>3 DEF Apart, CallOk
        <3>2. w[2] \in MyOuts(t)
            BY AcceptedFacts
        <3>3. QED
            BY <3>1, <3>2, OutsFacts
    <2>4. Apart(x, r[i])
        BY <1>2, <2>3 DEF Apart
    <2>5. QED
        BY <2>2, <2>4
<1>8. ApartAll(x, r) /\ ApartAll(y, r) /\ ApartAll(z, r)
    BY <1>7 DEF ApartAll
<1>9. Pending(<<x, y, z>> \o r, d, B)
    BY <1>3, <1>4, <1>5, <1>6, <1>8, PendingThree
<1>10. QED
    BY <1>1, <1>9, Zenon

\* An output is added: the ones of other transactions do not change.
LEMMA OutputCall ==
    ASSUME NEW d, NEW b \in Blocks, Good(d, Upto(b)), NEW r, RestOk(r, d, TxSet(b)),
           NEW q, q[1] = "outputs", CallOk(q, d, TxSet(b)), ApartAll(q, r), NEW x \in q[2],
           NEW e, Within(d, e, {x[2]}), LockOk(e, x[2])
    PROVE  InBlockAt(<<<<"outputs", q[2] \ {x}>>>> \o r, e, b)
<1>1. PICK B \in SUBSET Txs : B = TxSet(b) /\ B \subseteq Upto(b)
    BY BlockFacts
<1>2. /\ \A y \in q[2] : Fresh(d, y[2]) /\ (\E t \in B : y[2] \in MyOuts(t)) /\ \A z \in q[2] : z[2] = y[2] => z = y
    BY <1>1, Zenon DEF CallOk
<1>3. PICK t \in B : x[2] \in MyOuts(t)
    BY <1>2
<1>4. x[2] \in Outputs /\ \A u \in Txs : u # t => x[2] \notin MyOuts(u)
    BY <1>3, OutsFacts
<1>5. Good(e, Upto(b))
    <2>1. \A u \in Txs \ Upto(b) : x[2] \notin MyOuts(u)
        BY <1>1, <1>4
    <2>2. QED
        BY <1>4, <2>1, GoodWithin
<1>6. RestOk(r, e, B)
    <2>1. ASSUME NEW i \in 1..Len(r), r[i][1] = "redo" PROVE {x[2]} \cap MyOuts(r[i][2]) = {}
        <3>1. Apart(q, r[i])
            BY DEF ApartAll
        <3>2. QED
            BY <2>1, <3>1 DEF Apart
    <2>2. QED
        BY <1>1, <2>1, RestWithin
<1>7. PICK c : c = <<"outputs", q[2] \ {x}>>
    OBVIOUS
<1>8. c[1] = "outputs" /\ c[2] = q[2] \ {x}
    BY <1>7
<1>9. CallOk(c, e, B)
    <2>1. ASSUME NEW y \in q[2] \ {x}
          PROVE  Fresh(e, y[2]) /\ (\E u \in B : y[2] \in MyOuts(u)) /\ \A z \in q[2] \ {x} : z[2] = y[2] => z = y
        <3>1. Fresh(d, y[2]) /\ y[2] # x[2]
            BY <1>2
        <3>2. PICK u \in B : y[2] \in MyOuts(u)
            BY <1>2
        <3>3. y[2] \in Outputs \ {x[2]}
            BY <3>1, <3>2, OutsFacts
        <3>4. Fresh(e, y[2])
            BY <3>1, <3>3, WithinOther
        <3>5. QED
            BY <1>2, <3>2, <3>4
    <2>2. QED
        BY <1>8, <2>1 DEF CallOk
<1>10. ApartAll(c, r)
    <2>1. ASSUME NEW i \in 1..Len(r) PROVE Apart(c, r[i])
        <3>1. Apart(q, r[i])
            BY DEF ApartAll
        <3>2. QED
            BY <1>8, <3>1 DEF Apart
    <2>2. QED
        BY <2>1 DEF ApartAll
<1>11. Pending(<<c>> \o r, e, B)
    BY <1>6, <1>9, <1>10, PendingOne
<1>12. QED
    BY <1>1, <1>5, <1>7, <1>11, Zenon DEF InBlockAt

\* A key image is ours: unlock what is locked with it, then spend.
LEMMA KeyImageCall ==
    ASSUME NEW d, NEW b \in Blocks, Good(d, Upto(b)), NEW r, RestOk(r, d, TxSet(b)),
           NEW q, q[1] = "keyimages", CallOk(q, d, TxSet(b)), ApartAll(q, r), NEW k \in q[2]
    PROVE  InBlockAt(<<<<"unlock", LockedWith(d, k)>>, <<"spend", k>>, <<"keyimages", q[2] \ {k}>>>> \o r, d, b)
<1>1. PICK x, y, z : x = <<"unlock", LockedWith(d, k)>> /\ y = <<"spend", k>> /\ z = <<"keyimages", q[2] \ {k}>>
    OBVIOUS
<1>2. /\ x[1] = "unlock" /\ x[2] = LockedWith(d, k) /\ y[1] = "spend" /\ y[2] = k
      /\ z[1] = "keyimages" /\ z[2] = q[2] \ {k}
    BY <1>1
<1>3. q[2] \subseteq KeyImages
    BY DEF CallOk
<1>4. LockedWith(d, k) \subseteq Locked(d)
    BY DEF LockedWith
<1>5. CallOk(x, d, TxSet(b)) /\ CallOk(y, d, TxSet(b)) /\ CallOk(z, d, TxSet(b))
    BY <1>2, <1>3, <1>4 DEF CallOk
<1>6. Later(y) /\ Later(z)
    BY <1>2 DEF Later
<1>7. \A w : Apart(x, w) /\ Apart(y, w) /\ Apart(z, w)
    BY <1>2 DEF Apart
<1>8. ApartAll(x, r) /\ ApartAll(y, r) /\ ApartAll(z, r)
    BY <1>7 DEF ApartAll
<1>9. Pending(<<x, y, z>> \o r, d, TxSet(b))
    BY <1>5, <1>6, <1>7, <1>8, PendingThree
<1>10. QED
    BY <1>1, <1>9, Zenon DEF InBlockAt

LEMMA UnlockCalls ==
    ASSUME NEW d, NEW B, NEW r, RestOk(r, d, B), NEW S, S \subseteq Locked(d)
    PROVE  Pending(<<<<"unlock", S>>>> \o r, d, B)
<1>1. PICK x : x = <<"unlock", S>>
    OBVIOUS
<1>2. x[1] = "unlock" /\ x[2] = S
    BY <1>1
<1>3. CallOk(x, d, B) /\ ApartAll(x, r)
    BY <1>2 DEF CallOk, ApartAll, Apart
<1>4. QED
    BY <1>1, <1>3, PendingOne, Zenon

\* An output is unlocked: the others to be unlocked still are locked.
LEMMA UnlockCall ==
    ASSUME NEW d, NEW b \in Blocks, Good(d, Upto(b)), NEW r, RestOk(r, d, TxSet(b)),
           NEW S, S \subseteq Locked(d), NEW o \in S,
           NEW e, Within(d, e, {o}), e[<<"locked", o>>] = Absent
    PROVE  InBlockAt(<<<<"unlock", S \ {o}>>>> \o r, e, b)
<1>1. PICK B \in SUBSET Txs : B = TxSet(b)
    BY BlockFacts
<1>2. o \in Outputs /\ d[<<"locked", o>>] # Absent
    BY DEF Locked
<1>3. ASSUME NEW t, Untouched(d, t) PROVE o \notin MyOuts(t)
    BY <1>2, <1>3, Zenon DEF Untouched, Fresh
<1>4. Good(e, Upto(b))
    <2>1. \A u \in Txs \ Upto(b) : o \notin MyOuts(u)
        BY <1>3 DEF Good
    <2>2. LockOk(e, o)
        BY Zenon DEF LockOk
    <2>3. QED
        BY <1>2, <2>1, <2>2, GoodWithin
<1>5. RestOk(r, e, B)
    <2>1. ASSUME NEW i \in 1..Len(r), r[i][1] = "redo" PROVE {o} \cap MyOuts(r[i][2]) = {}
        <3>1. Untouched(d, r[i][2])
            BY <2>1 DEF RestOk, CallOk
        <3>2. QED
            BY <3>1, <1>3
    <2>2. QED
        BY <1>1, <2>1, RestWithin
<1>6. S \ {o} \subseteq Locked(e)
    <2>1. ASSUME NEW p \in S \ {o} PROVE p \in Locked(e)
        <3>1. p \in Outputs \ {o} /\ p \in Locked(d)
            BY DEF Locked
        <3>2. QED
            BY <3>1, WithinOther
    <2>2. QED
        BY <2>1
<1>7. Pending(<<<<"unlock", S \ {o}>>>> \o r, e, B)
    BY <1>5, <1>6, UnlockCalls
<1>8. QED
    BY <1>1, <1>4, <1>7, Zenon DEF InBlockAt

LEMMA SpendCall ==
    ASSUME NEW d, NEW b \in Blocks, Good(d, Upto(b)), NEW r, r # <<>>, RestOk(r, d, TxSet(b)),
           NEW e, Within(d, e, {})
    PROVE  InBlockAt(r, e, b)
<1>1. TxSet(b) \in SUBSET Txs
    BY BlockFacts
<1>2. RestOk(r, e, TxSet(b))
    <2>1. \A i \in 1..Len(r) : r[i][1] = "redo" => {} \cap MyOuts(r[i][2]) = {}
        OBVIOUS
    <2>2. QED
        BY <1>1, <2>1, RestWithin
<1>3. Good(e, Upto(b))
    BY GoodSpend
<1>4. QED
    BY <1>2, <1>3, RestPending DEF InBlockAt

LEMMA RecordCall ==
    ASSUME NEW d, NEW b \in Blocks, Good(d, Upto(b)), NEW r, r # <<>>, RestOk(r, d, TxSet(b)),
           NEW q, q[1] = "tx", CallOk(q, d, TxSet(b)), ApartAll(q, r), NEW e, OnlyTx(d, e, q[2])
    PROVE  InBlockAt(r, e, b)
<1>1. TxSet(b) \in SUBSET Txs /\ q[2] \in TxSet(b) /\ q[2] \in Upto(b)
    BY BlockFacts DEF CallOk
<1>2. RestOk(r, e, TxSet(b))
    <2>1. \A i \in 1..Len(r) : r[i][1] \in {"redo", "tx"} => r[i][2] # q[2]
        BY DEF ApartAll, Apart
    <2>2. QED
        BY <1>1, <2>1, RestOnlyTx
<1>3. Good(e, Upto(b))
    BY <1>1, GoodOnlyTx
<1>4. QED
    BY <1>2, <1>3, RestPending DEF InBlockAt

-----------------------------------------------------------------------------
\* The chain: the tables before and after each of its blocks are good for the
\* transactions up to there.
After(ch, i) == IF i = 0 THEN {} ELSE Upto(ch[i].block)
Chained(ch, base) ==
    /\ \A i \in 0..Len(ch) : Good(BeforeIn(ch, base, i + 1), After(ch, i))
    /\ \A i \in 1..Len(ch) : ch[i].block \in Blocks

LEMMA ChainedTop ==
    ASSUME NEW ch, IsSeq(ch), NEW d, Chained(ch, d)
    PROVE  /\ Good(d, After(ch, Len(ch))) /\ Len(ch) \in Nat
           /\ ch # <<>> => Len(ch) > 0 /\ ch[Len(ch)].block \in Blocks
<1>1. PICK S : ch \in Seq(S)
    BY DEF IsSeq
<1>2. Len(ch) \in Nat /\ (ch # <<>> => Len(ch) > 0)
    BY <1>1
<1>3. Len(ch) \in 0..Len(ch) /\ Len(ch) + 1 > Len(ch) /\ (Len(ch) > 0 => Len(ch) \in 1..Len(ch))
    BY <1>2
<1>4. BeforeIn(ch, d, Len(ch) + 1) = d
    BY <1>3 DEF BeforeIn
<1>5. Good(d, After(ch, Len(ch)))
    BY <1>3, <1>4 DEF Chained
<1>6. QED
    BY <1>2, <1>3, <1>5 DEF Chained

LEMMA ChainedPush ==
    ASSUME NEW ch, IsSeq(ch), NEW base, Chained(ch, base), NEW e, e.before = base, e.block \in Blocks,
           NEW d, Good(d, Upto(e.block)), NEW new, new = ch \o <<e>>
    PROVE  Chained(new, d)
<1>1. PICK S : ch \in Seq(S)
    BY DEF IsSeq
<1>2. PICK n \in Nat : n = Len(ch)
    BY <1>1
<1>3. ch \in Seq(S \cup {e}) /\ <<e>> \in Seq(S \cup {e}) /\ Len(<<e>>) = 1
    BY <1>1
<1>4. Len(new) = n + 1 /\ new[n + 1] = e /\ \A i \in 1..n : new[i] = ch[i]
    BY <1>2, <1>3
<1>5. ASSUME NEW i \in 0..Len(new) PROVE Good(BeforeIn(new, d, i + 1), After(new, i))
    <2>1. CASE i = n + 1
        <3>1. i + 1 > Len(new) /\ i # 0
            BY <1>4, <2>1
        <3>2. BeforeIn(new, d, i + 1) = d /\ After(new, i) = Upto(e.block)
            BY <1>4, <2>1, <3>1 DEF BeforeIn, After
        <3>3. QED
            BY <3>2
    <2>2. CASE i \in 0..n
        <3>1. ~(i + 1 > Len(new)) /\ i \in 0..Len(ch) /\ (i # 0 => i \in 1..n)
            BY <1>2, <1>4, <2>2
        <3>2. After(new, i) = After(ch, i)
            BY <1>4, <3>1 DEF After
        <3>3. BeforeIn(new, d, i + 1) = BeforeIn(ch, base, i + 1)
            <4>1. CASE i = n
                BY <1>2, <1>4, <3>1, <4>1 DEF BeforeIn
            <4>2. CASE i # n
                <5>1. i + 1 \in 1..n /\ ~(i + 1 > Len(ch))
                    BY <1>2, <2>2, <4>2
                <5>2. QED
                    BY <1>4, <3>1, <5>1 DEF BeforeIn
            <4>3. QED
                BY <4>1, <4>2
        <3>4. QED
            BY <3>1, <3>2, <3>3 DEF Chained
    <2>3. QED
        BY <1>4, <2>1, <2>2
<1>6. ASSUME NEW i \in 1..Len(new) PROVE new[i].block \in Blocks
    <2>1. i = n + 1 \/ (i \in 1..n /\ i \in 1..Len(ch))
        BY <1>2, <1>4
    <2>2. QED
        BY <1>4, <2>1 DEF Chained
<1>7. QED
    BY <1>5, <1>6 DEF Chained

LEMMA ChainedPop ==
    ASSUME NEW ch, IsSeq(ch), ch # <<>>, NEW d, Chained(ch, d), NEW new, new = SubSeq(ch, 1, Len(ch) - 1)
    PROVE  Chained(new, ch[Len(ch)].before)
<1>1. PICK S : ch \in Seq(S)
    BY DEF IsSeq
<1>2. PICK n \in Nat : n = Len(ch) - 1 /\ Len(ch) = n + 1
    BY <1>1
<1>3. Len(new) = n
    BY <1>1, <1>2
<1>4. \A i \in 1..n : new[i] = ch[i]
    BY <1>1, <1>2
<1>5. ASSUME NEW i \in 0..Len(new) PROVE Good(BeforeIn(new, ch[n + 1].before, i + 1), After(new, i))
    <2>1. i \in 0..n /\ i \in 0..Len(ch) /\ ~(i + 1 > Len(ch)) /\ (i # 0 => i \in 1..n)
        BY <1>2, <1>3
    <2>2. After(new, i) = After(ch, i)
        BY <1>4, <2>1 DEF After
    <2>3. BeforeIn(ch, d, i + 1) = ch[i + 1].before
        BY <2>1 DEF BeforeIn
    <2>4. BeforeIn(new, ch[n + 1].before, i + 1) = ch[i + 1].before
        <3>1. CASE i = n
            BY <1>3, <3>1 DEF BeforeIn
        <3>2. CASE i # n
            <4>1. i + 1 \in 1..n /\ ~(i + 1 > Len(new))
                BY <1>3, <2>1, <3>2
            <4>2. QED
                BY <1>4, <4>1 DEF BeforeIn
        <3>3. QED
            BY <3>1, <3>2
    <2>5. QED
        BY <2>1, <2>2, <2>3, <2>4 DEF Chained
<1>6. ASSUME NEW i \in 1..Len(new) PROVE new[i].block \in Blocks
    <2>1. i \in 1..n /\ i \in 1..Len(ch)
        BY <1>2, <1>3
    <2>2. QED
        BY <1>4, <2>1 DEF Chained
<1>7. QED
    BY <1>2, <1>5, <1>6 DEF Chained

\* An empty chain, and fix_empty_chain.
LEMMA EmptyChained ==
    ASSUME NEW d
    PROVE  Chained(<<>>, d) <=> Good(d, {})
<1>1. Len(<<>>) = 0
    OBVIOUS
<1>2. /\ \A i \in 0..Len(<<>>) : i = 0 /\ i + 1 > Len(<<>>)
      /\ 0 \in 0..Len(<<>>) /\ 0 + 1 > Len(<<>>)
    BY <1>1
<1>3. After(<<>>, 0) = {} /\ BeforeIn(<<>>, d, 0 + 1) = d
    BY <1>2 DEF After, BeforeIn
<1>4. 1..Len(<<>>) = {}
    BY <1>1
<1>5. ASSUME Chained(<<>>, d) PROVE Good(d, {})
    <2>1. Good(BeforeIn(<<>>, d, 0 + 1), After(<<>>, 0))
        BY <1>2, <1>5 DEF Chained
    <2>2. QED
        BY <1>3, <2>1
<1>6. ASSUME Good(d, {}) PROVE Chained(<<>>, d)
    <2>1. ASSUME NEW i \in 0..Len(<<>>) PROVE Good(BeforeIn(<<>>, d, i + 1), After(<<>>, i))
        <3>1. i = 0
            BY <1>2
        <3>2. QED
            BY <1>3, <1>6, <3>1
    <2>2. QED
        BY <1>4, <2>1 DEF Chained
<1>7. QED
    BY <1>5, <1>6

LEMMA FixEmptyChained ==
    ASSUME NEW ch, NEW d, Chained(ch, d)
    PROVE  Chained(FixEmpty(ch, d), d)
<1>1. CASE ch = <<>>
    <2>1. PICK e : e = [block |-> Genesis, undo |-> NoUndo, before |-> d]
        OBVIOUS
    <2>2. e.block = Genesis /\ e.before = d /\ FixEmpty(ch, d) = <<e>>
        BY <1>1, <2>1 DEF FixEmpty
    <2>3. PICK o : o = ch
        OBVIOUS
    <2>4. IsSeq(o) /\ <<e>> = o \o <<e>>
        <3>1. <<>> \in Seq({e}) /\ <<e>> = <<>> \o <<e>>
            OBVIOUS
        <3>2. QED
            BY <1>1, <2>3, <3>1 DEF IsSeq
    <2>5. Good(d, {})
        BY <1>1, EmptyChained
    <2>6. Good(d, Upto(Genesis)) /\ Genesis \in Blocks
        BY <2>5, GoodMore, WalletAssumption DEF WalletAssumption
    <2>7. PICK new : new = o \o <<e>>
        OBVIOUS
    <2>8. Chained(new, d)
        BY <2>2, <2>3, <2>4, <2>6, <2>7, ChainedPush
    <2>9. QED
        BY <2>2, <2>4, <2>7, <2>8
<1>2. CASE ch # <<>>
    BY <1>2 DEF FixEmpty
<1>3. QED
    BY <1>1, <1>2

-----------------------------------------------------------------------------
\* The invariant.  What is still to be redone follows the tip; in a block, the
\* calls ahead can be made.
Follows(ch, a) == ch # <<>> => Parent[a[1]] = ch[Len(ch)].block /\ a[1] # Genesis
AnswerOk ==
    calls # <<>> /\ calls[Len(calls)][1] = "next" /\ answer # <<>> => IsAnswer(answer) /\ Follows(chain, answer)
InBlock == Len(calls) > 1 => InBlockAt(calls, db, answer[1])
ChainOk == Chained(chain, Base) /\ Chained(disk.chain, disk.db)
Sound == ~trapped /\ ChainOk /\ AnswerOk /\ InBlock

\* A call in the middle of a block.
AtCall(op) ==
    /\ IsDb(db) /\ KiOk(db) /\ answer[1] \in Blocks /\ At \in Heights
    /\ Good(db, Upto(answer[1])) /\ Rest # <<>>
    /\ calls[1][1] = op /\ CallOk(calls[1], db, TxSet(answer[1]))
    /\ RestOk(Rest, db, TxSet(answer[1])) /\ ApartAll(calls[1], Rest)

LEMMA AtCallFacts ==
    ASSUME Inv, Sound, NEW op, Running(op), op \notin Loops, op # "push"
    PROVE  AtCall(op)
<1>1. InOrder(calls) /\ calls # <<>> /\ calls[1][1] = op
    BY DEF Inv, Calling, Running
<1>2. Len(calls) > 2 /\ Len(calls) > 1 /\ Len(calls) \in Nat
    BY <1>1, InsideBlock, LenOrder
<1>3. InOrder(Tail(calls)) /\ Len(Tail(calls)) = Len(calls) - 1
    BY <1>1, <1>2, TailInOrder
<1>4. Tail(calls) # <<>>
    <2>1. Len(Tail(calls)) > 1
        BY <1>2, <1>3
    <2>2. QED
        BY <2>1
<1>5. answer # <<>> /\ answer \in Seq(Blocks)
    BY <1>2 DEF Inv, Calling
<1>6. answer[1] \in Blocks
    BY <1>5
<1>7. At \in Heights
    BY <1>6, BlockFacts DEF At
<1>8. InBlockAt(calls, db, answer[1])
    BY <1>2 DEF Sound, InBlock
<1>9. Good(db, Upto(answer[1])) /\ Pending(calls, db, TxSet(answer[1]))
    BY <1>8 DEF InBlockAt
<1>10. KiOk(db) /\ IsDb(db)
    BY <1>9 DEF Good, Inv, Tables
<1>11. QED
    BY <1>1, <1>4, <1>6, <1>7, <1>9, <1>10, Zenon DEF AtCall, Pending, Rest

\* It changes the tables under undo, and there are calls left that can be made.
LEMMA SoundCall ==
    ASSUME Inv, Sound, NEW op, Running(op), op \notin Loops, op # "push",
           Keeps(Now, [db |-> db', cur |-> cur']), ~trapped', UNCHANGED <<chain, answer, disk>>,
           InBlockAt(calls', db', answer[1])
    PROVE  Sound'
<1>1. Base' = Base
    BY DEF Inv, Tables, Keeps, Now, Base
<1>2. ChainOk'
    BY <1>1 DEF Sound, ChainOk
<1>3. InBlock'
    BY DEF InBlock
<1>4. AnswerOk'
    <2>1. InOrder(calls) /\ calls # <<>> /\ calls[1][1] = op
        BY DEF Inv, Calling, Running
    <2>2. Len(calls) > 1
        BY <2>1, InsideBlock
    <2>3. calls[Len(calls)][1] = "next"
        BY <2>1, <2>2 DEF InOrder
    <2>4. answer # <<>> => IsAnswer(answer) /\ Follows(chain, answer)
        BY <2>1, <2>3 DEF Sound, AnswerOk
    <2>5. QED
        BY <2>4 DEF AnswerOk
<1>5. QED
    BY <1>2, <1>3, <1>4 DEF Sound

\* A step that ends outside of a block.
LEMMA SoundOutside ==
    ASSUME ~trapped', cur' = NoUndo, IsDb(db'), Chained(chain', db'),
           Chained(disk'.chain, disk'.db), Len(calls') <= 1, Len(calls') \in Nat, AnswerOk'
    PROVE  Sound'
<1>1. Base' = db'
    BY RestoreNothing DEF Base
<1>2. ChainOk'
    BY <1>1 DEF ChainOk
<1>3. InBlock'
    <2>1. ~(Len(calls') > 1)
        OBVIOUS
    <2>2. QED
        BY <2>1 DEF InBlock
<1>4. QED
    BY <1>2, <1>3 DEF Sound

-----------------------------------------------------------------------------
\* The steps of redo_block, each with the tables it finds.

LEMMA RedoTransactionSound ==
    ASSUME Inv, Sound, RedoTransaction
    PROVE  Sound'
<1>1. /\ Running("redo") /\ UNCHANGED <<tables, chain, answer, disk>>
      /\ calls' = IF Ours(db, Arg)
                  THEN <<<<"outputs", AcceptedAt(db, Arg)>>,
                         <<"keyimages", OurKeyImages(db, Arg)>>, <<"tx", Arg>>>> \o Rest
                  ELSE Rest
    BY DEF RedoTransaction
<1>2. AtCall("redo")
    BY <1>1, AtCallFacts, Middle
<1>3. PICK t, q, b : t = Arg /\ q = calls[1] /\ b = answer[1]
    OBVIOUS
<1>4. q[1] = "redo" /\ q[2] = t /\ b \in Blocks
    BY <1>2, <1>3, Zenon DEF AtCall, Arg
<1>5. /\ CallOk(q, db, TxSet(b)) /\ RestOk(Rest, db, TxSet(b)) /\ ApartAll(q, Rest) /\ Rest # <<>>
      /\ Good(db, Upto(b))
    BY <1>2, <1>3, Zenon DEF AtCall
<1>6. t \in TxSet(b) /\ Untouched(db, t)
    BY <1>4, <1>5 DEF CallOk
<1>7. TxSet(b) \in SUBSET Txs
    BY <1>4, BlockFacts
<1>8. Pending(<<<<"outputs", AcceptedAt(db, t)>>, <<"keyimages", OurKeyImages(db, t)>>, <<"tx", t>>>> \o Rest,
              db, TxSet(b))
    BY <1>4, <1>5, <1>6, <1>7, TxCalls
<1>9. Pending(Rest, db, TxSet(b))
    BY <1>5, RestPending
<1>10. Pending(calls', db, TxSet(b))
    BY <1>1, <1>3, <1>8, <1>9, Zenon
<1>11. db' = db /\ trapped' = trapped
    BY <1>1 DEF tables
<1>12. InBlockAt(calls', db', b)
    BY <1>5, <1>10, <1>11 DEF InBlockAt
<1>13. ~trapped'
    BY <1>11 DEF Sound
<1>14. Keeps(Now, [db |-> db', cur |-> cur'])
    BY <1>1, TablesStay
<1>15. UNCHANGED <<chain, answer, disk>> /\ InBlockAt(calls', db', answer[1])
    BY <1>1, <1>3, <1>12
<1>16. QED
    BY <1>1, <1>13, <1>14, <1>15, SoundCall, Middle

LEMMA UnlockBlockSound ==
    ASSUME Inv, Sound, UnlockBlock
    PROVE  Sound'
<1>1. /\ Running("ripe") /\ UNCHANGED <<tables, chain, answer, disk>>
      /\ calls' = <<<<"unlock", Ripe(db, answer[1])>>>> \o Rest
    BY DEF UnlockBlock
<1>2. AtCall("ripe")
    BY <1>1, AtCallFacts, Middle
<1>3. Ripe(db, answer[1]) \subseteq Locked(db)
    BY DEF Ripe
<1>4. RestOk(Rest, db, TxSet(answer[1])) /\ Good(db, Upto(answer[1]))
    BY <1>2 DEF AtCall
<1>5. Pending(calls', db, TxSet(answer[1]))
    BY <1>1, <1>3, <1>4, UnlockCalls
<1>6. db' = db /\ trapped' = trapped
    BY <1>1 DEF tables
<1>7. InBlockAt(calls', db', answer[1]) /\ ~trapped'
    BY <1>4, <1>5, <1>6 DEF InBlockAt, Sound
<1>8. QED
    BY <1>1, <1>7, TablesStay, SoundCall, Middle

LEMMA AddKeyImageSound ==
    ASSUME Inv, Sound, AddKeyImage
    PROVE  Sound'
<1>1. /\ Running("keyimages") /\ UNCHANGED <<tables, chain, answer, disk>>
      /\ \/ calls' = Rest
         \/ \E k \in Arg : calls' = <<<<"unlock", LockedWith(db, k)>>, <<"spend", k>>,
                                      <<"keyimages", Arg \ {k}>>>> \o Rest
    BY DEF AddKeyImage
<1>2. AtCall("keyimages")
    BY <1>1, AtCallFacts, Middle
<1>3. PICK q, b : q = calls[1] /\ b = answer[1]
    OBVIOUS
<1>4. /\ q[1] = "keyimages" /\ q[2] = Arg /\ b \in Blocks /\ CallOk(q, db, TxSet(b))
      /\ RestOk(Rest, db, TxSet(b)) /\ ApartAll(q, Rest) /\ Rest # <<>> /\ Good(db, Upto(b))
    BY <1>2, <1>3, Zenon DEF AtCall, Arg
<1>5. InBlockAt(calls', db, b)
    <2>1. CASE calls' = Rest
        BY <1>4, <2>1, RestPending DEF InBlockAt
    <2>2. CASE calls' # Rest
        <3>1. PICK k \in q[2] : calls' = <<<<"unlock", LockedWith(db, k)>>, <<"spend", k>>,
                                           <<"keyimages", q[2] \ {k}>>>> \o Rest
            BY <1>1, <1>4, <2>2, Zenon
        <3>2. QED
            BY <1>4, <3>1, KeyImageCall
    <2>3. QED
        BY <2>1, <2>2
<1>6. db' = db /\ trapped' = trapped
    BY <1>1 DEF tables
<1>7. InBlockAt(calls', db', answer[1]) /\ ~trapped'
    BY <1>3, <1>5, <1>6 DEF Sound
<1>8. QED
    BY <1>1, <1>7, TablesStay, SoundCall, Middle

\* An operation on the tables as they are.
LEMMA SetOkay ==
    ASSUME NEW t, NEW O, Set(t), Okay(Now, t, O), ~trapped
    PROVE  /\ ~trapped' /\ Within(db, db', O)
           /\ db' = t.db
<1>1. db' = t.db /\ trapped' = t.trapped /\ Now.db = db /\ Now.trapped = trapped
    BY DEF Set, Now
<1>2. ~Now.trapped => ~t.trapped
    BY DEF Okay, Quiet
<1>3. Within(Now.db, t.db, O)
    BY DEF Okay
<1>4. QED
    BY <1>1, <1>2, <1>3, Zenon

LEMMA AddOutputSound ==
    ASSUME Inv, Sound, AddOutput
    PROVE  Sound'
<1>1. /\ Running("outputs") /\ UNCHANGED <<chain, answer, disk>>
      /\ \/ calls' = Rest /\ UNCHANGED tables
         \/ \E x \in Arg : /\ Set(AddIncomingOutput(Now, x[2], At, FALSE))
                           /\ calls' = <<<<"outputs", Arg \ {x}>>>> \o Rest
    BY DEF AddOutput
<1>2. AtCall("outputs")
    BY <1>1, AtCallFacts, Middle
<1>3. PICK q, b : q = calls[1] /\ b = answer[1]
    OBVIOUS
<1>4. /\ q[1] = "outputs" /\ q[2] = Arg /\ b \in Blocks /\ CallOk(q, db, TxSet(b))
      /\ RestOk(Rest, db, TxSet(b)) /\ ApartAll(q, Rest) /\ Rest # <<>> /\ Good(db, Upto(b))
      /\ IsDb(db) /\ KiOk(db) /\ At \in Heights
    BY <1>2, <1>3, Zenon DEF AtCall, Arg
<1>5. CASE calls' = Rest /\ UNCHANGED tables
    <2>1. db' = db /\ trapped' = trapped
        BY <1>5 DEF tables
    <2>2. InBlockAt(calls', db', answer[1]) /\ ~trapped'
        BY <1>3, <1>4, <1>5, <2>1, RestPending DEF InBlockAt, Sound
    <2>3. QED
        BY <1>1, <1>5, <2>2, TablesStay, SoundCall, Middle
<1>6. ASSUME NEW x \in q[2], Set(AddIncomingOutput(Now, x[2], At, FALSE)),
             calls' = <<<<"outputs", q[2] \ {x}>>>> \o Rest
      PROVE  Sound'
    <2>1. PICK s, o, t : s = Now /\ o = x[2] /\ t = AddIncomingOutput(Now, x[2], At, FALSE)
        OBVIOUS
    <2>2. s.db = db
        BY <2>1 DEF Now
    <2>3. Fresh(db, o) /\ \E u \in TxSet(b) : o \in MyOuts(u)
        BY <1>4, <2>1 DEF CallOk
    <2>4. o \in Outputs
        BY <1>4, <2>3, BlockFacts, OutsFacts
    <2>5. PICK j \in BOOLEAN : j = FALSE
        OBVIOUS
    <2>6. Okay(s, t, {o}) /\ LockOk(t.db, o)
        <3>1. IsDb(s.db) /\ KiOk(s.db) /\ Fresh(s.db, o)
            BY <1>4, <2>2, <2>3
        <3>2. t = AddIncomingOutput(s, o, At, j)
            BY <2>1, <2>5
        <3>3. QED
            BY <1>4, <2>4, <3>1, <3>2, AddIncomingOkay
    <2>7. ~trapped' /\ Within(db, db', {o}) /\ db' = t.db
        <3>1. Set(t) /\ Okay(Now, t, {o}) /\ ~trapped
            BY <1>6, <2>1, <2>6 DEF Sound
        <3>2. QED
            BY <3>1, SetOkay
    <2>8. InBlockAt(calls', db', b)
        <3>1. LockOk(db', x[2]) /\ Within(db, db', {x[2]})
            BY <2>1, <2>6, <2>7
        <3>2. InBlockAt(<<<<"outputs", q[2] \ {x}>>>> \o Rest, db', b)
            BY <1>4, <3>1, OutputCall
        <3>3. QED
            BY <1>6, <3>2
    <2>9. Keeps(Now, [db |-> db', cur |-> cur'])
        BY <1>6, AddIncomingOutputKeeps, SetKeeps
    <2>10. QED
        BY <1>1, <1>3, <2>7, <2>8, <2>9, SoundCall, Middle
<1>7. QED
    BY <1>1, <1>4, <1>5, <1>6, Zenon

LEMMA UnlockNextSound ==
    ASSUME Inv, Sound, UnlockNext
    PROVE  Sound'
<1>1. /\ Running("unlock") /\ UNCHANGED <<chain, answer, disk>>
      /\ \/ calls' = Rest /\ UNCHANGED tables
         \/ \E o \in Arg : /\ Set(UnlockOutput(Now, o, At))
                           /\ calls' = <<<<"unlock", Arg \ {o}>>>> \o Rest
    BY DEF UnlockNext
<1>2. AtCall("unlock")
    BY <1>1, AtCallFacts, Middle
<1>3. PICK q, b, S : q = calls[1] /\ b = answer[1] /\ S = Arg
    OBVIOUS
<1>4. /\ q[1] = "unlock" /\ q[2] = S /\ b \in Blocks /\ CallOk(q, db, TxSet(b))
      /\ RestOk(Rest, db, TxSet(b)) /\ Rest # <<>> /\ Good(db, Upto(b))
      /\ IsDb(db) /\ KiOk(db) /\ At \in Heights
    BY <1>2, <1>3, Zenon DEF AtCall, Arg
<1>5. CASE calls' = Rest /\ UNCHANGED tables
    <2>1. db' = db /\ trapped' = trapped
        BY <1>5 DEF tables
    <2>2. InBlockAt(calls', db', answer[1]) /\ ~trapped'
        BY <1>3, <1>4, <1>5, <2>1, RestPending DEF InBlockAt, Sound
    <2>3. QED
        BY <1>1, <1>5, <2>2, TablesStay, SoundCall, Middle
<1>6. ASSUME NEW o \in S, Set(UnlockOutput(Now, o, At)), calls' = <<<<"unlock", S \ {o}>>>> \o Rest
      PROVE  Sound'
    <2>1. PICK s, t : s = Now /\ t = UnlockOutput(Now, o, At)
        OBVIOUS
    <2>2. s.db = db
        BY <2>1 DEF Now
    <2>3. S \subseteq Locked(db)
        BY <1>4 DEF CallOk
    <2>4. o \in Outputs /\ o \in Locked(db)
        BY <2>3 DEF Locked
    <2>5. LockOk(db, o)
        BY <1>4, <2>4 DEF Good
    <2>6. Okay(s, t, {o}) /\ t.db[<<"locked", o>>] = Absent
        <3>1. IsDb(s.db) /\ KiOk(s.db) /\ o \in Locked(s.db) /\ LockOk(s.db, o)
            BY <1>4, <2>2, <2>4, <2>5
        <3>2. t = UnlockOutput(s, o, At)
            BY <2>1
        <3>3. QED
            BY <1>4, <3>1, <3>2, UnlockOkay
    <2>7. ~trapped' /\ Within(db, db', {o}) /\ db' = t.db
        <3>1. Set(t) /\ Okay(Now, t, {o}) /\ ~trapped
            BY <1>6, <2>1, <2>6 DEF Sound
        <3>2. QED
            BY <3>1, SetOkay
    <2>8. InBlockAt(calls', db', b)
        <3>1. db'[<<"locked", o>>] = Absent
            BY <2>6, <2>7
        <3>2. InBlockAt(<<<<"unlock", S \ {o}>>>> \o Rest, db', b)
            BY <1>4, <2>3, <2>7, <3>1, UnlockCall
        <3>3. QED
            BY <1>6, <3>2
    <2>9. Keeps(Now, [db |-> db', cur |-> cur'])
        BY <1>6, UnlockOutputKeeps, SetKeeps
    <2>10. QED
        BY <1>1, <1>3, <2>7, <2>8, <2>9, SoundCall, Middle
<1>7. QED
    BY <1>1, <1>3, <1>5, <1>6, Zenon

LEMMA SpendSound ==
    ASSUME Inv, Sound, Spend
    PROVE  Sound'
<1>1. /\ Running("spend") /\ UNCHANGED <<chain, answer, disk>> /\ calls' = Rest
      /\ Set(SpendKeyImage(Now, Arg))
    BY DEF Spend
<1>2. AtCall("spend")
    BY <1>1, AtCallFacts, Middle
<1>3. PICK q, b, k : q = calls[1] /\ b = answer[1] /\ k = Arg
    OBVIOUS
<1>4. /\ q[1] = "spend" /\ q[2] = k /\ b \in Blocks /\ CallOk(q, db, TxSet(b))
      /\ RestOk(Rest, db, TxSet(b)) /\ Rest # <<>> /\ Good(db, Upto(b)) /\ IsDb(db) /\ KiOk(db)
    BY <1>2, <1>3, Zenon DEF AtCall, Arg
<1>5. PICK s, t : s = Now /\ t = SpendKeyImage(Now, k)
    OBVIOUS
<1>6. k \in KeyImages
    BY <1>4 DEF CallOk
<1>7. Okay(s, t, {})
    <2>1. IsDb(s.db) /\ KiOk(s.db)
        BY <1>4, <1>5 DEF Now
    <2>2. t = SpendKeyImage(s, k)
        BY <1>5
    <2>3. QED
        BY <1>6, <2>1, <2>2, SpendOkay
<1>8. ~trapped' /\ Within(db, db', {})
    <2>1. Set(t) /\ Okay(Now, t, {}) /\ ~trapped
        BY <1>1, <1>3, <1>5, <1>7 DEF Sound
    <2>2. QED
        BY <2>1, SetOkay
<1>9. InBlockAt(calls', db', b)
    BY <1>1, <1>4, <1>8, SpendCall
<1>10. Keeps(Now, [db |-> db', cur |-> cur'])
    BY <1>1, SpendKeyImageKeeps, SetKeeps
<1>11. QED
    BY <1>1, <1>3, <1>8, <1>9, <1>10, SoundCall, Middle

LEMMA AddTransactionSound ==
    ASSUME Inv, Sound, AddTransaction
    PROVE  Sound'
<1>1. /\ Running("tx") /\ UNCHANGED <<chain, answer, disk>> /\ calls' = Rest
      /\ Set(PutWithUndo(Now, <<"tx", Arg>>, At, TRUE))
    BY DEF AddTransaction
<1>2. AtCall("tx")
    BY <1>1, AtCallFacts, Middle
<1>3. PICK q, b, u : q = calls[1] /\ b = answer[1] /\ u = Arg
    OBVIOUS
<1>4. /\ q[1] = "tx" /\ q[2] = u /\ b \in Blocks /\ CallOk(q, db, TxSet(b)) /\ ApartAll(q, Rest)
      /\ RestOk(Rest, db, TxSet(b)) /\ Rest # <<>> /\ Good(db, Upto(b)) /\ IsDb(db)
    BY <1>2, <1>3, Zenon DEF AtCall, Arg
<1>5. PICK s, t : s = Now /\ t = PutWithUndo(Now, <<"tx", u>>, At, TRUE)
    OBVIOUS
<1>6. u \in Txs /\ db[<<"tx", u>>] = Absent
    BY <1>4, BlockFacts DEF CallOk, NewTx
<1>7. PICK k \in Keys : k = <<"tx", u>>
    BY <1>6, KeyFacts
<1>8. Sets(s, t, k, At) /\ Quiet(s, t)
    <2>1. IsDb(s.db) /\ s.db[k] = Absent /\ t = PutWithUndo(s, k, At, TRUE)
        BY <1>4, <1>5, <1>6, <1>7 DEF Now
    <2>2. QED
        BY <2>1, PutNew
<1>9. OnlyTx(s.db, t.db, u)
    BY <1>6, <1>7, <1>8, SetsMoves, RecordOnlyTx
<1>10. db' = t.db /\ s.db = db /\ ~trapped'
    <2>1. db' = t.db /\ trapped' = t.trapped /\ s.db = db /\ s.trapped = trapped
        BY <1>1, <1>3, <1>5 DEF Set, Now
    <2>2. QED
        BY <1>8, <2>1 DEF Quiet, Sound
<1>11. InBlockAt(calls', db', b)
    <2>1. OnlyTx(db, db', q[2])
        BY <1>4, <1>9, <1>10
    <2>2. InBlockAt(Rest, db', b)
        BY <1>4, <2>1, RecordCall
    <2>3. QED
        BY <1>1, <2>2
<1>12. Keeps(Now, [db |-> db', cur |-> cur'])
    BY <1>1, PutKeeps, SetKeeps
<1>13. QED
    BY <1>1, <1>3, <1>10, <1>11, <1>12, SoundCall, Middle

-----------------------------------------------------------------------------
\* The loops.

\* What is above block i of an answer.
LEMMA AnswerFrom ==
    ASSUME NEW a \in Seq(Blocks), IsAnswer(a), NEW i \in 1..Len(a), NEW new, new # <<>>,
           Len(new) = Len(a) - i, \A j \in 1..Len(new) : new[j] = a[i + j]
    PROVE  Len(new) > 0 => IsAnswer(new) /\ Parent[new[1]] = a[i] /\ new[1] # Genesis
<1>1. SUFFICES ASSUME Len(new) > 0
               PROVE  IsAnswer(new) /\ Parent[new[1]] = a[i] /\ new[1] # Genesis
    OBVIOUS
<1>2. \A j \in 1..Len(a) - 1 : Parent[a[j + 1]] = a[j] /\ a[j + 1] # Genesis
    BY DEF IsAnswer
<1>3. Len(a) \in Nat /\ i \in 1..Len(a) - 1 /\ 1 \in 1..Len(new)
    BY <1>1
<1>4. new[1] = a[i + 1]
    BY <1>3
<1>5. Parent[new[1]] = a[i] /\ new[1] # Genesis
    BY <1>2, <1>3, <1>4
<1>6. ASSUME NEW j \in 1..Len(new) - 1
      PROVE  Parent[new[j + 1]] = new[j] /\ new[j + 1] # Genesis
    <2>1. j + 1 \in 1..Len(new) /\ j \in 1..Len(new) /\ i + j \in 1..Len(a) - 1 /\ i + (j + 1) = (i + j) + 1
        BY <1>3
    <2>2. new[j + 1] = a[(i + j) + 1] /\ new[j] = a[i + j]
        BY <2>1
    <2>3. QED
        BY <1>2, <2>1, <2>2
<1>7. QED
    BY <1>5, <1>6 DEF IsAnswer

\* The tables outside of a block.
LEMMA LoopTables ==
    ASSUME Inv, Sound, Len(calls) <= 1
    PROVE  /\ cur = NoUndo /\ IsDb(db) /\ IsSeq(chain) /\ Chained(chain, db) /\ ~trapped
           /\ Chained(disk.chain, disk.db)
<1>1. cur = NoUndo /\ Base = db /\ Exact(chain, db)
    BY AtLoop
<1>2. QED
    BY <1>1 DEF Sound, ChainOk, Exact, Inv, Tables

LEMMA PushChainSound ==
    ASSUME Inv, Sound, PushChain
    PROVE  Sound'
<1>1. /\ Running("push") /\ chain' = Pushed(answer[1]) /\ cur' = NoUndo /\ answer' = Tail(answer)
      /\ calls' = Tail(calls) /\ UNCHANGED <<db, trapped, disk>>
    BY DEF PushChain, Rest
<1>2. InOrder(calls) /\ calls # <<>> /\ calls[1][1] = "push"
    BY <1>1 DEF Inv, Calling, Running
<1>3. Len(calls) \in Nat /\ 1 \in 1..Len(calls)
    BY <1>2, LenOrder
<1>4. Len(calls) = 2 /\ Len(calls) > 1
    <2>1. 1 = Len(calls) - 1
        BY <1>2, <1>3 DEF InOrder
    <2>2. QED
        BY <1>3, <2>1
<1>5. Len(calls') = 1 /\ Len(calls') <= 1 /\ Len(calls') \in Nat
    <2>1. Len(Tail(calls)) = Len(calls) - 1
        BY <1>2, <1>4, TailInOrder
    <2>2. QED
        BY <1>1, <1>4, <2>1
<1>6. answer \in Seq(Blocks) /\ answer # <<>>
    BY <1>4 DEF Inv, Calling
<1>7. answer[1] \in Blocks
    BY <1>6
<1>8. Good(db, Upto(answer[1]))
    BY <1>4 DEF Sound, InBlock, InBlockAt
<1>9. PICK e : e = [block |-> answer[1], undo |-> cur, before |-> Base]
    OBVIOUS
<1>10. chain' = chain \o <<e>> /\ e.before = Base /\ e.block = answer[1]
    BY <1>1, <1>9 DEF Pushed, Base
<1>11. IsSeq(chain) /\ Chained(chain, Base)
    BY DEF Inv, Tables, Exact, Sound, ChainOk
<1>12. Chained(chain', db)
    BY <1>7, <1>8, <1>10, <1>11, ChainedPush
<1>13. calls[Len(calls)][1] = "next"
    BY <1>2, <1>4 DEF InOrder
<1>14. IsAnswer(answer)
    BY <1>2, <1>6, <1>13 DEF Sound, AnswerOk
<1>15. chain'[Len(chain')] = e
    <2>1. PICK S : chain \in Seq(S)
        BY <1>11 DEF IsSeq
    <2>2. chain \in Seq(S \cup {e}) /\ <<e>> \in Seq(S \cup {e}) /\ Len(<<e>>) = 1
        BY <2>1
    <2>3. PICK c : c = chain \o <<e>>
        OBVIOUS
    <2>4. Len(c) = Len(chain) + 1 /\ c[Len(chain) + 1] = e
        BY <2>2, <2>3
    <2>5. QED
        BY <1>10, <2>3, <2>4
<1>16. AnswerOk'
    <2>1. SUFFICES ASSUME answer' # <<>> PROVE IsAnswer(answer') /\ Follows(chain', answer')
        BY DEF AnswerOk
    <2>2. PICK new : new = Tail(answer)
        OBVIOUS
    <2>3. Len(new) = Len(answer) - 1 /\ Len(answer) \in Nat /\ 1 \in 1..Len(answer) /\ new \in Seq(Blocks)
        BY <1>6, <2>2
    <2>4. \A j \in 1..Len(new) : new[j] = answer[1 + j]
        BY <1>6, <2>2
    <2>5. new # <<>> /\ Len(new) > 0
        BY <1>1, <2>1, <2>2, <2>3
    <2>6. IsAnswer(new) /\ Parent[new[1]] = answer[1] /\ new[1] # Genesis
        BY <1>6, <1>14, <2>3, <2>4, <2>5, AnswerFrom
    <2>7. QED
        BY <1>1, <1>10, <1>15, <2>2, <2>6 DEF Follows
<1>17. ~trapped' /\ IsDb(db') /\ Chained(chain', db') /\ Chained(disk'.chain, disk'.db)
    BY <1>1, <1>12 DEF Sound, ChainOk, Inv, Tables
<1>18. QED
    BY <1>1, <1>5, <1>16, <1>17, SoundOutside

LEMMA EachSeq ==
    ASSUME NEW s \in Seq(Txs)
    PROVE  Each("redo", s) \in Seq({"redo"} \X Txs) /\ Len(Each("redo", s)) = Len(s)
<1> DEFINE p == Each("redo", s)
<1>1. p = [i \in 1..Len(s) |-> <<"redo", s[i]>>]
    BY DEF Each
<1> HIDE DEF p
<1>2. p \in Seq({"redo"} \X Txs) /\ Len(p) = Len(s)
    BY <1>1
<1>3. QED
    BY <1>2 DEF p

\* redo_block of a block whose transactions are new to the tables.
LEMMA BlockRestOk ==
    ASSUME NEW b \in Blocks, NEW d, \A t \in TxSet(b) : Untouched(d, t),
           NEW x, NEW c, c = <<<<"ripe", x>>, <<"push", x>>, <<"next", x>>>>,
           NEW p, p = Each("redo", TxsOf[b]), NEW e, e = p \o c
    PROVE  RestOk(e, d, TxSet(b)) /\ e # <<>>
<1>1. PICK s \in Seq(Txs) : s = TxsOf[b]
    BY BlockFacts
<1>2. PICK n \in Nat : n = Len(s) /\ DOMAIN s = 1..n
    OBVIOUS
<1>3. p = [i \in 1..n |-> <<"redo", s[i]>>]
    BY <1>1, <1>2 DEF Each
<1>4. \A i \in 1..n : p[i] = <<"redo", s[i]>> /\ s[i] \in Txs
    BY <1>1, <1>2, <1>3
<1>5. p \in Seq({"redo"} \X Txs) /\ Len(p) = n
    BY <1>1, <1>2, EachSeq
<1>6. /\ c \in Seq({<<"ripe", x>>, <<"push", x>>, <<"next", x>>}) /\ Len(c) = 3
      /\ c[1][1] = "ripe" /\ c[2][1] = "push" /\ c[3][1] = "next"
    OBVIOUS
<1>7. PICK m \in Nat : m = Len(c) /\ m > 0
    BY <1>6
<1>8. ASSUME NEW i \in 1..m PROVE c[i][1] \in {"ripe", "push", "next"}
    <2>1. i \in {1, 2, 3}
        BY <1>6, <1>7
    <2>2. QED
        BY <1>6, <2>1
<1>9. PICK U : p \in Seq(U) /\ c \in Seq(U)
    <2>1. PICK V : V = ({"redo"} \X Txs) \cup {<<"ripe", x>>, <<"push", x>>, <<"next", x>>}
        OBVIOUS
    <2>2. p \in Seq(V)
        BY <1>5, <2>1
    <2>3. c \in Seq(V)
        BY <1>6, <2>1
    <2>4. QED
        BY <2>2, <2>3
<1>10. e \in Seq(U) /\ Joined(p, c, e)
    BY <1>9, ConcatFacts
<1>11. /\ Len(e) = n + m
       /\ \A i \in 1..n : e[i] = <<"redo", s[i]>>
       /\ \A i \in 1..m : e[n + i][1] \in {"ripe", "push", "next"}
    <2>1. Len(e) = n + m
        BY <1>5, <1>7, <1>10 DEF Joined
    <2>2. \A i \in 1..n : e[i] = p[i]
        BY <1>5, <1>10 DEF Joined
    <2>3. \A i \in 1..m : e[n + i] = c[i]
        BY <1>5, <1>7, <1>10 DEF Joined
    <2>4. QED
        BY <1>4, <1>8, <2>1, <2>2, <2>3
<1>12. ASSUME NEW i \in 1..Len(e), i > n PROVE e[i][1] \in {"ripe", "push", "next"}
    <2>1. i - n \in 1..m /\ n + (i - n) = i
        BY <1>11, <1>12
    <2>2. QED
        BY <1>11, <2>1
<1>13. ASSUME NEW i \in 1..n PROVE s[i] \in TxSet(b) /\ e[i][1] = "redo" /\ e[i][2] = s[i]
    <2>1. i \in DOMAIN TxsOf[b] /\ TxsOf[b][i] = s[i]
        BY <1>1, <1>2
    <2>2. s[i] \in TxSet(b)
        BY <2>1 DEF TxSet
    <2>3. PICK t : t = s[i]
        OBVIOUS
    <2>4. e[i] = <<"redo", t>>
        BY <1>11, <2>3
    <2>5. <<"redo", t>>[1] = "redo" /\ <<"redo", t>>[2] = t
        OBVIOUS
    <2>6. QED
        BY <2>2, <2>3, <2>4, <2>5
<1>14. ASSUME NEW i \in 1..Len(e) PROVE CallOk(e[i], d, TxSet(b)) /\ Later(e[i])
    <2>1. PICK y : y = e[i]
        OBVIOUS
    <2>2. CASE i \in 1..n
        <3>1. y[1] = "redo" /\ y[2] \in TxSet(b) /\ Untouched(d, y[2])
            BY <1>13, <2>1, <2>2
        <3>2. CallOk(y, d, TxSet(b)) /\ Later(y)
            BY <3>1 DEF CallOk, Later
        <3>3. QED
            BY <2>1, <3>2
    <2>3. CASE i > n
        <3>1. y[1] \in {"ripe", "push", "next"}
            BY <1>12, <2>1, <2>3
        <3>2. CallOk(y, d, TxSet(b)) /\ Later(y)
            BY <3>1 DEF CallOk, Later
        <3>3. QED
            BY <2>1, <3>2
    <2>4. QED
        BY <1>11, <2>2, <2>3
<1>15. ASSUME NEW i \in 1..Len(e), NEW j \in 1..Len(e), i < j PROVE Apart(e[i], e[j])
    <2>1. PICK y, z : y = e[i] /\ z = e[j]
        OBVIOUS
    <2>2. CASE j \in 1..n
        <3>1. i \in 1..n /\ i # j
            BY <1>15, <2>2
        <3>2. s[i] # s[j]
            <4>1. \A k \in DOMAIN s, l \in DOMAIN s : s[k] = s[l] => k = l
                BY <1>1, BranchAssumption DEF BranchAssumption
            <4>2. QED
                BY <1>2, <2>2, <3>1, <4>1
        <3>3. y[1] = "redo" /\ z[1] = "redo" /\ y[2] # z[2]
            BY <1>13, <2>1, <2>2, <3>1, <3>2
        <3>4. Apart(y, z)
            BY <3>3 DEF Apart
        <3>5. QED
            BY <2>1, <3>4
    <2>3. CASE j > n
        <3>1. z[1] \in {"ripe", "push", "next"}
            BY <1>12, <2>1, <2>3
        <3>2. Apart(y, z)
            BY <3>1 DEF Apart
        <3>3. QED
            BY <2>1, <3>2
    <2>4. j \in Nat /\ j >= 1 /\ n \in Nat
        BY <1>11
    <2>5. QED
        BY <2>2, <2>3, <2>4
<1>16. IsSeq(e)
    BY <1>10 DEF IsSeq
<1>17. e # <<>>
    BY <1>7, <1>11
<1>18. QED
    BY <1>14, <1>15, <1>16, <1>17 DEF RestOk

LEMMA RedoBlockSound ==
    ASSUME Inv, Sound, RedoBlock
    PROVE  Sound'
<1>1. /\ Running("next") /\ answer # <<>>
      /\ calls' = Each("redo", TxsOf[answer[1]])
                  \o <<<<"ripe", Genesis>>, <<"push", Genesis>>, <<"next", Genesis>>>>
      /\ UNCHANGED <<db, cur, trapped, chain, answer, disk>>
    BY DEF RedoBlock, tables
<1>2. Len(calls) = 1 /\ Len(calls) <= 1
    BY <1>1, LoopAlone DEF Loops
<1>3. PICK b : b = answer[1]
    OBVIOUS
<1>4. b \in Blocks
    BY <1>1, <1>3 DEF Inv, Calling
<1>5. calls # <<>> /\ calls[Len(calls)][1] = "next"
    BY <1>1, <1>2 DEF Running
<1>6. IsAnswer(answer) /\ Follows(chain, answer)
    BY <1>1, <1>5 DEF Sound, AnswerOk
<1>7. IsSeq(chain) /\ Chained(chain, db)
    BY <1>2, LoopTables
<1>8. /\ Good(db, After(chain, Len(chain))) /\ Len(chain) \in Nat
      /\ chain # <<>> => Len(chain) > 0 /\ chain[Len(chain)].block \in Blocks
    BY <1>7, ChainedTop
<1>9. After(chain, Len(chain)) \subseteq Upto(b) /\ After(chain, Len(chain)) \cap TxSet(b) = {}
    <2>1. CASE chain = <<>>
        <3>1. Len(chain) = 0
            BY <2>1
        <3>2. QED
            BY <3>1 DEF After
    <2>2. CASE chain # <<>>
        <3>1. Parent[b] = chain[Len(chain)].block /\ b # Genesis /\ Len(chain) # 0
            BY <1>3, <1>6, <1>8, <2>2 DEF Follows
        <3>2. After(chain, Len(chain)) = Upto(Parent[b])
            BY <3>1 DEF After
        <3>3. QED
            BY <1>4, <3>1, <3>2, ParentFacts
    <2>3. QED
        BY <2>1, <2>2
<1>10. Good(db, Upto(b))
    BY <1>8, <1>9, GoodMore
<1>11. \A t \in TxSet(b) : Untouched(db, t)
    <2>1. TxSet(b) \subseteq Txs
        BY <1>4, BlockFacts
    <2>2. QED
        BY <1>8, <1>9, <2>1 DEF Good
<1>12. RestOk(calls', db, TxSet(b)) /\ calls' # <<>>
    <2>1. PICK c, p : /\ c = <<<<"ripe", Genesis>>, <<"push", Genesis>>, <<"next", Genesis>>>>
                      /\ p = Each("redo", TxsOf[b])
        OBVIOUS
    <2>2. calls' = p \o c
        BY <1>1, <1>3, <2>1
    <2>3. QED
        BY <1>4, <1>11, <2>1, <2>2, BlockRestOk
<1>13. Pending(calls', db, TxSet(b))
    BY <1>12, RestPending
<1>14. InBlock'
    BY <1>1, <1>3, <1>10, <1>13 DEF InBlock, InBlockAt
<1>15. AnswerOk'
    BY <1>1, <1>6 DEF AnswerOk
<1>16. ChainOk' /\ ~trapped'
    BY <1>1 DEF Sound, ChainOk, Base
<1>17. QED
    BY <1>14, <1>15, <1>16 DEF Sound

LEMMA StartRedoSound ==
    ASSUME Inv, Sound, StartRedo
    PROVE  Sound'
<1>1. /\ Running("undo") /\ (chain # <<>> => OnAnswer(Tip)) /\ calls' = <<<<"next", Genesis>>>>
      /\ answer' = IF chain = <<>> THEN answer ELSE SubSeq(answer, Height[Tip] - At + 2, Len(answer))
      /\ UNCHANGED <<db, cur, trapped, chain, disk>>
    BY DEF StartRedo, tables
<1>2. Len(calls) <= 1
    BY <1>1, LoopAlone DEF Loops
<1>3. IsAnswer(answer) /\ answer \in Seq(Blocks)
    BY <1>1 DEF Inv, Calling
<1>4. AnswerOk'
    <2>1. SUFFICES ASSUME answer' # <<>> PROVE IsAnswer(answer') /\ Follows(chain', answer')
        BY DEF AnswerOk
    <2>2. CASE chain = <<>>
        BY <1>1, <1>3, <2>2 DEF Follows
    <2>3. CASE chain # <<>>
        <3>1. PICK i \in 1..Len(answer) : answer[i] = Tip
            BY <1>1, <2>3 DEF OnAnswer
        <3>2. Height[answer[i]] = Height[answer[1]] + i - 1
            BY <1>3, AnswerHeights
        <3>3. Height[answer[1]] \in Nat
            <4>1. answer[1] \in Blocks
                BY <1>3, <3>1
            <4>2. QED
                BY <4>1, WalletAssumption DEF WalletAssumption
        <3>4. Height[Tip] - At + 2 = i + 1
            BY <3>1, <3>2, <3>3 DEF At
        <3>5. PICK new : new = SubSeq(answer, i + 1, Len(answer)) /\ new = answer'
            BY <1>1, <2>3, <3>4
        <3>6. Len(answer) \in Nat /\ i + 1 \in 1..Len(answer) + 1
            BY <1>3
        <3>7. new \in Seq(Blocks) /\ Len(new) = Len(answer) - i
            BY <1>3, <3>5, <3>6
        <3>8. \A j \in 1..Len(new) : new[j] = answer[i + j]
            BY <1>3, <3>5, <3>6, <3>7
        <3>9. new # <<>> /\ Len(new) > 0
            <4>1. new # <<>>
                BY <2>1, <3>5, Zenon
            <4>2. \A a \in Seq(Blocks) : a # <<>> => Len(a) > 0
                OBVIOUS
            <4>3. QED
                BY <3>7, <4>1, <4>2, Zenon
        <3>10. IsAnswer(new) /\ Parent[new[1]] = answer[i] /\ new[1] # Genesis
            BY <1>3, <3>7, <3>8, <3>9, AnswerFrom
        <3>11. QED
            BY <1>1, <3>1, <3>5, <3>10 DEF Follows, Tip
    <2>4. QED
        BY <2>2, <2>3
<1>5. Len(calls') <= 1 /\ Len(calls') \in Nat
    BY <1>1, LoopInOrder DEF Loops
<1>6. /\ cur' = NoUndo /\ IsDb(db') /\ Chained(chain', db') /\ ~trapped'
      /\ Chained(disk'.chain, disk'.db)
    BY <1>1, <1>2, LoopTables
<1>7. QED
    BY <1>4, <1>5, <1>6, SoundOutside

LEMMA PopSound ==
    ASSUME Inv, Sound, NEW op \in Loops, op # "next", Running(op), chain # <<>>, PopChain,
           UNCHANGED <<answer, calls, disk>>
    PROVE  Sound'
<1>1. Len(calls) = 1 /\ Len(calls) <= 1
    BY LoopAlone
<1>2. /\ cur = NoUndo /\ IsSeq(chain) /\ Chained(chain, db) /\ ~trapped /\ Exact(chain, db)
      /\ Chained(disk.chain, disk.db)
    BY <1>1, LoopTables, AtLoop
<1>3. /\ db' = Restore(db, chain[Len(chain)].undo) /\ chain' = SubSeq(chain, 1, Len(chain) - 1)
      /\ UNCHANGED <<cur, trapped>>
    BY DEF PopChain
<1>4. db' = chain[Len(chain)].before
    BY <1>2, <1>3, PopExact
<1>5. Chained(chain', db')
    BY <1>2, <1>3, <1>4, ChainedPop
<1>6. IsDb(db')
    BY <1>3, RestoreIsDb
<1>7. AnswerOk'
    <2>1. calls[Len(calls)][1] # "next"
        BY <1>1 DEF Running
    <2>2. QED
        BY <2>1 DEF AnswerOk
<1>8. Len(calls') <= 1 /\ Len(calls') \in Nat
    BY <1>1
<1>9. ~trapped' /\ cur' = NoUndo /\ Chained(disk'.chain, disk'.db)
    BY <1>2, <1>3
<1>10. QED
    BY <1>5, <1>6, <1>7, <1>8, <1>9, SoundOutside

\* A handler starts or ends outside of a block.
LEMMA HandlerSound ==
    ASSUME Inv, Sound, Len(calls) <= 1, UNCHANGED <<db, cur, trapped, chain, disk>>,
           \/ calls' = <<>>
           \/ \E op \in Loops \ {"next"} : \E x : calls' = <<<<op, x>>>>
    PROVE  Sound'
<1>1. /\ cur' = NoUndo /\ IsDb(db') /\ Chained(chain', db') /\ ~trapped'
      /\ Chained(disk'.chain, disk'.db)
    BY LoopTables
<1>2. CASE calls' = <<>>
    <2>1. Len(calls') <= 1 /\ Len(calls') \in Nat /\ AnswerOk'
        BY <1>2 DEF AnswerOk
    <2>2. QED
        BY <1>1, <2>1, SoundOutside
<1>3. ASSUME NEW op \in Loops, op # "next", NEW x, calls' = <<<<op, x>>>> PROVE Sound'
    <2>1. PICK c : c = <<<<op, x>>>>
        OBVIOUS
    <2>2. Len(c) = 1 /\ c[1][1] = op
        BY <2>1
    <2>3. c[Len(c)][1] # "next" /\ calls' = c
        BY <1>3, <2>1, <2>2
    <2>4. AnswerOk'
        BY <2>3 DEF AnswerOk
    <2>5. Len(calls') <= 1 /\ Len(calls') \in Nat
        BY <2>2, <2>3
    <2>6. QED
        BY <1>1, <2>4, <2>5, SoundOutside
<1>4. QED
    BY <1>2, <1>3

LEMMA RescanEndsSound ==
    ASSUME Inv, Sound, RescanEnds
    PROVE  Sound'
<1>1. /\ Running("rescan") /\ chain' = FixEmpty(chain, db) /\ disk' = [db |-> db, chain |-> chain']
      /\ calls' = <<>> /\ UNCHANGED <<db, cur, trapped, answer>>
    BY DEF RescanEnds, tables
<1>2. Len(calls) <= 1
    BY <1>1, LoopAlone DEF Loops
<1>3. cur = NoUndo /\ Chained(chain, db) /\ IsDb(db) /\ ~trapped
    BY <1>2, LoopTables
<1>4. Chained(chain', db)
    BY <1>1, <1>3, FixEmptyChained
<1>5. disk'.db = db /\ disk'.chain = chain'
    BY <1>1
<1>6. Len(calls') <= 1 /\ Len(calls') \in Nat /\ AnswerOk'
    BY <1>1 DEF AnswerOk
<1>7. cur' = NoUndo /\ IsDb(db') /\ ~trapped' /\ Chained(chain', db') /\ Chained(disk'.chain, disk'.db)
    BY <1>1, <1>3, <1>4, <1>5
<1>8. QED
    BY <1>6, <1>7, SoundOutside

LEMMA DbCommitSound ==
    ASSUME Inv, Sound, DbCommit
    PROVE  Sound'
<1>1. /\ disk' = [db |-> db, chain |-> chain] /\ UNCHANGED <<db, cur, trapped, chain, answer, calls>>
      /\ Len(calls) <= 1 /\ calls = <<>>
    BY IdleAlone DEF DbCommit, tables, Idle
<1>2. cur = NoUndo /\ Chained(chain, db) /\ IsDb(db) /\ ~trapped
    BY <1>1, LoopTables
<1>3. disk'.db = db /\ disk'.chain = chain
    BY <1>1
<1>4. Len(calls') <= 1 /\ Len(calls') \in Nat /\ AnswerOk'
    BY <1>1 DEF AnswerOk
<1>5. cur' = NoUndo /\ IsDb(db') /\ ~trapped' /\ Chained(chain', db') /\ Chained(disk'.chain, disk'.db)
    BY <1>1, <1>2, <1>3
<1>6. QED
    BY <1>4, <1>5, SoundOutside

LEMMA RestartSound ==
    ASSUME Inv, Sound, Restart
    PROVE  Sound'
<1>1. /\ db' = disk.db /\ cur' = NoUndo /\ trapped' = FALSE /\ chain' = FixEmpty(disk.chain, disk.db)
      /\ answer' = <<>> /\ calls' = <<>> /\ disk' = disk
    BY DEF Restart
<1>2. IsDb(db') /\ Chained(disk.chain, disk.db)
    BY <1>1 DEF Inv, OnDisk, Sound, ChainOk
<1>3. Chained(chain', db')
    BY <1>1, <1>2, FixEmptyChained
<1>4. Len(calls') <= 1 /\ Len(calls') \in Nat /\ AnswerOk'
    BY <1>1 DEF AnswerOk
<1>5. ~trapped' /\ Chained(disk'.chain, disk'.db)
    BY <1>1, <1>2
<1>6. QED
    BY <1>1, <1>2, <1>3, <1>4, <1>5, SoundOutside

\* A step that leaves the tables, the chain and the calls alone.
LEMMA StaysSound ==
    ASSUME Sound, UNCHANGED <<tables, chain, answer, calls, disk>>
    PROVE  Sound'
<1>1. UNCHANGED <<db, cur, trapped, chain, answer, calls, disk>>
    BY DEF tables
<1>2. ChainOk' /\ ~trapped'
    BY <1>1 DEF Sound, ChainOk, Base
<1>3. AnswerOk' /\ InBlock'
    BY <1>1 DEF Sound, AnswerOk, InBlock
<1>4. QED
    BY <1>2, <1>3 DEF Sound

LEMMA SoundInit == Init => Sound
<1> SUFFICES ASSUME Init PROVE Sound
    OBVIOUS
<1>1. /\ db = Blank /\ cur = NoUndo /\ trapped = FALSE /\ chain = FixEmpty(<<>>, Blank)
      /\ calls = <<>> /\ disk = [db |-> Blank, chain |-> <<>>]
    BY DEF Init
<1>2. Chained(<<>>, Blank)
    BY BlankGood, EmptyChained
<1>3. Chained(chain, db) /\ Base = db
    <2>1. IsDb(Blank)
        BY DEF IsDb, Blank
    <2>2. QED
        BY <1>1, <1>2, <2>1, FixEmptyChained, RestoreNothing DEF Base
<1>4. disk.db = Blank /\ disk.chain = <<>>
    BY <1>1
<1>5. ChainOk
    BY <1>2, <1>3, <1>4 DEF ChainOk
<1>6. AnswerOk /\ InBlock
    BY <1>1 DEF AnswerOk, InBlock
<1>7. QED
    BY <1>1, <1>5, <1>6 DEF Sound

LEMMA SoundStep ==
    ASSUME Inv, Sound, [Next]_vars
    PROVE  Sound'
<1>1. CASE Redo
    BY <1>1, RedoTransactionSound, AddOutputSound, AddKeyImageSound, UnlockNextSound, SpendSound,
       AddTransactionSound, UnlockBlockSound, PushChainSound DEF Redo
<1>2. CASE UndoBlock
    BY <1>2, PopSound DEF UndoBlock, Loops
<1>3. CASE RescanBlock
    BY <1>3, PopSound DEF RescanBlock, Loops
<1>4. CASE SyncEnds
    <2>1. Len(calls) <= 1
        BY <1>4, LoopAlone DEF SyncEnds, Loops
    <2>2. QED
        BY <1>4, <2>1, HandlerSound DEF SyncEnds, tables
<1>5. ASSUME NEW s \in Answers, SyncBlocks(s) PROVE Sound'
    <2>1. "undo" \in Loops \ {"next"}
        BY DEF Loops
    <2>2. QED
        BY <1>5, <2>1, IdleAlone, HandlerSound DEF SyncBlocks, tables
<1>6. ASSUME NEW h \in Heights, WalletAddressesUpdated(h) PROVE Sound'
    <2>1. "rescan" \in Loops \ {"next"}
        BY DEF Loops
    <2>2. QED
        BY <1>6, <2>1, IdleAlone, HandlerSound DEF WalletAddressesUpdated, tables
<1>7. ASSUME NEW t \in Txs, PoolAdds(t) \/ PoolRemoves(t) \/ AddToPaymentQueue(t) PROVE Sound'
    BY <1>7, StaysSound DEF PoolAdds, PoolRemoves, AddToPaymentQueue
<1>8. ASSUME NEW t \in Txs, NEW h \in Heights, ProcessPaymentQueueSendError(t, h) PROVE Sound'
    BY <1>8, StaysSound DEF ProcessPaymentQueueSendError
<1>9. CASE UNCHANGED vars
    BY <1>9, StaysSound DEF vars
<1>10. QED
    BY <1>1, <1>2, <1>3, <1>4, <1>5, <1>6, <1>7, <1>8, <1>9, StartRedoSound, RedoBlockSound,
       RescanEndsSound, DbCommitSound, RestartSound DEF Next

\* NothingTraps for any blocks, branches and answers of the node, any outputs,
\* locks and key images and any number of restarts: add_incoming_output,
\* unlock, add_incoming_keyimage and the record of a transaction always find
\* the tables as their put and del require (WalletState.cpp
\* sync_with_blockchain).
THEOREM NothingTrapsAlways == Spec => []NothingTraps
<1>1. Init => Inv /\ Sound
    BY InvInit, SoundInit
<1>2. Inv /\ Sound /\ [Next]_vars => (Inv /\ Sound)'
    BY InvStep, SoundStep
<1>3. Sound => NothingTraps
    BY DEF Sound, NothingTraps
<1>4. QED
    BY <1>1, <1>2, <1>3, PTL DEF Spec

-----------------------------------------------------------------------------
(***************************************************************************)
(* Sums of amounts.  Total is a fold, a recursive function that takes the  *)
(* elements in an order of its own; it counts pairs, as many of each       *)
(* output as its amount, and what holds of cardinalities holds of it.      *)
(***************************************************************************)
Places == Heights \X Outputs
Worth(x) == Amount[x[2]]
Units(S) == {p \in Places \X Nat : p[1] \in S /\ p[2] \in 1..Worth(p[1])}

LEMMA WorthNat ==
    ASSUME NEW x \in Places
    PROVE  Worth(x) \in Nat
<1>1. x[2] \in Outputs
    BY DEF Places
<1>2. QED
    BY <1>1, WalletAssumption DEF WalletAssumption, Worth

LEMMA UnitsOfOne ==
    ASSUME NEW x \in Places
    PROVE  IsFiniteSet(Units({x})) /\ Cardinality(Units({x})) = Worth(x)
<1>1. PICK n \in Nat : n = Worth(x)
    BY WorthNat
<1>2. PICK U : U = Units({x})
    OBVIOUS
<1>3. U = {p \in Places \X Nat : p[1] = x /\ p[2] \in 1..n}
    BY <1>1, <1>2 DEF Units
<1>4. PICK f : f = [i \in 1..n |-> <<x, i>>]
    OBVIOUS
<1>5. f \in [1..n -> U]
    BY <1>3, <1>4
<1>6. \A i, j \in 1..n : f[i] = f[j] => i = j
    BY <1>4
<1>7. ASSUME NEW p \in U PROVE \E i \in 1..n : f[i] = p
    <2>1. p = <<p[1], p[2]>> /\ p[1] = x /\ p[2] \in 1..n
        BY <1>3
    <2>2. QED
        BY <1>4, <2>1
<1>8. f \in Bijection(1..n, U)
    BY <1>5, <1>6, <1>7 DEF Bijection, Injection, IsInjective, Surjection
<1>9. ExistsBijection(1..n, U)
    BY <1>8 DEF ExistsBijection
<1>10. IsFiniteSet(1..n) /\ Cardinality(1..n) = n
    BY FS_Interval, SMTT(30)
<1>11. IsFiniteSet(U) /\ Cardinality(U) = n
    BY <1>9, <1>10, FS_Bijection
<1>12. QED
    BY <1>1, <1>2, <1>11

LEMMA PlacesFinite ==
    ASSUME NEW S \in SUBSET Places
    PROVE  IsFiniteSet(S)
<1>1. IsFiniteSet(Heights) /\ IsFiniteSet(Outputs)
    BY ValueAssumption DEF ValueAssumption
<1>2. IsFiniteSet(Places)
    BY <1>1, FS_Product DEF Places
<1>3. QED
    BY <1>2, FS_Subset

LEMMA UnitsFinite ==
    ASSUME NEW S \in SUBSET Places
    PROVE  IsFiniteSet(Units(S)) /\ Cardinality(Units(S)) \in Nat
<1> DEFINE U == {Units({x}) : x \in S}
           g == [x \in S |-> Units({x})]
<1>1. IsFiniteSet(S)
    BY PlacesFinite
<1>2. g \in Surjection(S, U)
    BY DEF Surjection
<1>3. IsFiniteSet(U)
    BY <1>1, <1>2, FS_Surjection
<1>4. \A V \in U : IsFiniteSet(V)
    BY UnitsOfOne
<1>5. Units(S) \in SUBSET UNION U
    BY DEF Units
<1> HIDE DEF U
<1>6. IsFiniteSet(UNION U)
    BY <1>3, <1>4, FS_UNION
<1>7. IsFiniteSet(Units(S))
    BY <1>5, <1>6, FS_Subset
<1>8. QED
    BY <1>7, FS_CardinalityType

LEMMA UnitsTogether ==
    ASSUME NEW S \in SUBSET Places, NEW T \in SUBSET Places, S \cap T = {}
    PROVE  Cardinality(Units(S \cup T)) = Cardinality(Units(S)) + Cardinality(Units(T))
<1>1. Units(S \cup T) = Units(S) \cup Units(T)
    BY DEF Units
<1>2. Units(S) \cap Units(T) = {}
    BY DEF Units
<1>3. /\ IsFiniteSet(Units(S)) /\ IsFiniteSet(Units(T))
      /\ Cardinality(Units(S)) \in Nat /\ Cardinality(Units(T)) \in Nat
    BY UnitsFinite
<1>4. PICK A, B : A = Units(S) /\ B = Units(T)
    OBVIOUS
<1>5. IsFiniteSet(A) /\ IsFiniteSet(B) /\ A \cap B = {}
    BY <1>2, <1>3, <1>4
<1>6. Cardinality(A \cup B) = Cardinality(A) + Cardinality(B) - Cardinality(A \cap B)
    BY <1>5, FS_Union
<1>7. Cardinality(A \cap B) = 0
    BY <1>5, FS_EmptySet
<1>8. Cardinality(A \cup B) = Cardinality(A) + Cardinality(B)
    BY <1>3, <1>4, <1>6, <1>7
<1>9. Units(S \cup T) = A \cup B
    BY <1>1, <1>4, Zenon
<1>10. QED
    BY <1>4, <1>8, <1>9, Zenon

\* The function of the fold.
Some(s) == CHOOSE x \in s : TRUE
IsSum(f, S) == f = [s \in SUBSET S |-> IF s = {} THEN 0 ELSE Worth(Some(s)) + f[s \ {Some(s)}]]

LEMMA UnitsAreSum ==
    ASSUME NEW S \in SUBSET Places
    PROVE  IsSum([s \in SUBSET S |-> Cardinality(Units(s))], S)
<1> DEFINE f == [s \in SUBSET S |-> Cardinality(Units(s))]
<1>1. ASSUME NEW s \in SUBSET S, s # {}
      PROVE  f[s] = Worth(Some(s)) + f[s \ {Some(s)}]
    <2>1. PICK x \in s : x = Some(s)
        BY <1>1 DEF Some
    <2>2. x \in Places /\ {x} \in SUBSET Places /\ s \ {x} \in SUBSET Places /\ {x} \cup (s \ {x}) = s /\ s \ {x} \in SUBSET S
        OBVIOUS
    <2>3. Cardinality(Units({x} \cup (s \ {x}))) = Cardinality(Units({x})) + Cardinality(Units(s \ {x}))
        BY <2>2, UnitsTogether
    <2>4. Cardinality(Units({x})) = Worth(x)
        BY <2>2, UnitsOfOne
    <2>5. QED
        BY <2>1, <2>2, <2>3, <2>4
<1>2. Cardinality(Units({})) = 0
    BY FS_EmptySet DEF Units
<1>3. \A s \in SUBSET S : f[s] = IF s = {} THEN 0 ELSE Worth(Some(s)) + f[s \ {Some(s)}]
    BY <1>1, <1>2
<1>4. f = [s \in SUBSET S |-> f[s]]
    OBVIOUS
<1> HIDE DEF f
<1>5. IsSum(f, S)
    BY <1>3, <1>4 DEF IsSum
<1>6. QED
    BY <1>5 DEF f

\* There is one such function: two would differ on a least set.
LEMMA SumUnique ==
    ASSUME NEW S \in SUBSET Places, NEW f, IsSum(f, S), NEW g, IsSum(g, S)
    PROVE  f[S] = g[S]
<1> DEFINE D == {s \in SUBSET S : f[s] # g[s]}
<1>1. IsWellFoundedOn(StrictSubsetOrdering(S), SUBSET S)
    BY PlacesFinite, FS_FiniteSubsetsOfFinite, FS_StrictSubsetOrderingWellFounded
<1>2. \A s \in SUBSET S : /\ f[s] = IF s = {} THEN 0 ELSE Worth(Some(s)) + f[s \ {Some(s)}]
                          /\ g[s] = IF s = {} THEN 0 ELSE Worth(Some(s)) + g[s \ {Some(s)}]
    BY DEF IsSum
<1>3. D \subseteq SUBSET S
    OBVIOUS
<1>4. ASSUME D # {} PROVE FALSE
    <2>1. PICK s \in D : \A r \in D : <<r, s>> \notin StrictSubsetOrdering(S)
        BY <1>1, <1>3, <1>4, WFMin
    <2>2. s \in SUBSET S /\ f[s] # g[s]
        OBVIOUS
    <2>3. s # {}
        BY <1>2, <2>2
    <2>4. Some(s) \in s
        BY <2>3 DEF Some
    <2>5. PICK r \in SUBSET S : r = s \ {Some(s)}
        BY <2>2
    <2>6. <<r, s>> \in StrictSubsetOrdering(S)
        BY <2>2, <2>4, <2>5 DEF StrictSubsetOrdering
    <2>7. f[r] = g[r]
        BY <2>1, <2>6
    <2>8. QED
        BY <1>2, <2>2, <2>3, <2>5, <2>7
<1>5. QED
    BY <1>4

LEMMA TotalIs ==
    ASSUME NEW S \in SUBSET Places
    PROVE  Total(S) = Cardinality(Units(S))
<1> DEFINE f == CHOOSE h : IsSum(h, S)
           g == [s \in SUBSET S |-> Cardinality(Units(s))]
<1>1. Total(S) = f[S]
    BY DEF Total, MapThenSumSet, MapThenFoldSet, IsSum, Some, Worth
<1>2. IsSum(g, S)
    BY UnitsAreSum
<1>3. IsSum(f, S)
    BY <1>2
<1>4. g[S] = Cardinality(Units(S))
    OBVIOUS
<1> HIDE DEF f, g
<1>5. f[S] = g[S]
    BY <1>2, <1>3, SumUnique
<1>6. QED
    BY <1>1, <1>4, <1>5

\* The laws of sums.
LEMMA TotalEmpty == Total({}) = 0
<1>1. Units({}) = {} /\ {} \in SUBSET Places
    BY DEF Units
<1>2. QED
    BY <1>1, TotalIs, FS_EmptySet

LEMMA TotalNat ==
    ASSUME NEW S \in SUBSET Places
    PROVE  Total(S) \in Nat
BY TotalIs, UnitsFinite

LEMMA TotalTogether ==
    ASSUME NEW S \in SUBSET Places, NEW T \in SUBSET Places, S \cap T = {}
    PROVE  Total(S \cup T) = Total(S) + Total(T)
<1>1. S \cup T \in SUBSET Places
    OBVIOUS
<1>2. QED
    BY <1>1, TotalIs, UnitsTogether

\* One more, and one less.
LEMMA TotalOne ==
    ASSUME NEW S \in SUBSET Places, NEW x \in Places
    PROVE  /\ x \notin S => Total(S \cup {x}) = Total(S) + Worth(x)
           /\ x \in S => Total(S \ {x}) = Total(S) - Worth(x)
<1>1. {x} \in SUBSET Places /\ S \ {x} \in SUBSET Places
    OBVIOUS
<1>2. Total({x}) = Worth(x)
    BY <1>1, TotalIs, UnitsOfOne
<1>3. ASSUME x \notin S PROVE Total(S \cup {x}) = Total(S) + Worth(x)
    <2>1. S \cap {x} = {}
        BY <1>3
    <2>2. QED
        BY <1>1, <1>2, <2>1, TotalTogether
<1>4. ASSUME x \in S PROVE Total(S \ {x}) = Total(S) - Worth(x)
    <2>1. (S \ {x}) \cap {x} = {} /\ (S \ {x}) \cup {x} = S
        BY <1>4
    <2>2. Total((S \ {x}) \cup {x}) = Total(S \ {x}) + Worth(x)
        BY <1>1, <1>2, <2>1, TotalTogether
    <2>3. Total(S) = Total(S \ {x}) + Worth(x)
        BY <2>1, <2>2, Zenon
    <2>4. PICK m, n \in Nat : m = Total(S \ {x}) /\ n = Worth(x)
        BY <1>1, TotalNat, WorthNat
    <2>5. QED
        BY <2>3, <2>4
<1>5. QED
    BY <1>3, <1>4

-----------------------------------------------------------------------------
(***************************************************************************)
(* The balances agree with the unspent index, and the other indices with   *)
(* each other: what get_balance takes from each of them is what            *)
(* api_add_unspent leaves out.                                             *)
(***************************************************************************)
Owners == Addrs \cup {AllAddrs}
UnspentIn(d) == {x \in Places : d[<<"unspent", x[1], x[2]>>] # Absent}
Owned(S, a) == {x \in S : a # AllAddrs => Addr[x[2]] = a}
Kept(d) == \A a \in Owners : BalanceOf(d, a).locked \in Int /\ BalanceOf(d, a).spendable \in Int
Balanced(d) == Kept(d) /\ \A a \in Owners : BalanceOf(d, a).spendable = Total(Owned(UnspentIn(d), a))

\* The key image of an unspent output leads to it, and a key image to an output
\* that has it; an unspent output was unlocked as what it is.
ByKeyImage(d, S) == \A x \in S : Ki[x[2]] # NoKeyImage => d[<<"keyimage", Ki[x[2]]>>] = x
OwnKeyImage(d) == \A k \in KeyImages : KnownKeyImage(d, k) => Ki[Standing(d, k)[2]] = k
OneUnlock(d, S) ==
    \A x \in S, g \in Heights : d[<<"unlocked", g, x[2]>>] # Absent => d[<<"unlocked", g, x[2]>>] = x[1]
Indexed(d) == ByKeyImage(d, UnspentIn(d)) /\ OwnKeyImage(d) /\ OneUnlock(d, UnspentIn(d))
Fine(d) == Balanced(d) /\ Indexed(d)

LEMMA BalanceKeys ==
    /\ \A a \in Owners : <<"balance", a>> \in Keys
    /\ \A a, b : a # b => <<"balance", a>> # <<"balance", b>>
BY DEF Owners, Keys

\* modify_balance adds to one balance.
Added(d, e, a, n) ==
    /\ Kept(e) /\ BalanceOf(e, a).spendable = BalanceOf(d, a).spendable + n
    /\ \A b \in Owners \ {a} : BalanceOf(e, b) = BalanceOf(d, b)

LEMMA ZeroFields == Zero.locked = 0 /\ Zero.spendable = 0
BY DEF Zero

LEMMA ModifyOneAdds ==
    ASSUME NEW s, IsDb(s.db), Kept(s.db), NEW a \in Owners, NEW dl \in Int, NEW ds \in Int,
           NEW t, t = ModifyOne(s, a, dl, ds)
    PROVE  Added(s.db, t.db, a, ds)
<1>1. PICK l, p \in Int : l = BalanceOf(s.db, a).locked /\ p = BalanceOf(s.db, a).spendable
    BY DEF Kept
<1>2. PICK new : new = [locked |-> l + dl, spendable |-> p + ds]
    OBVIOUS
<1>3. new \in [locked : Int, spendable : Int] /\ new.locked = l + dl /\ new.spendable = p + ds
    BY <1>2
<1>4. new # Absent
    BY <1>3, ValueAssumption DEF ValueAssumption
<1>5. PICK k \in Keys : k = <<"balance", a>>
    BY BalanceKeys
<1>6. \/ new = Zero /\ t = DelWithUndo(s, k, FALSE)
      \/ new # Zero /\ t = PutWithUndo(s, k, new, FALSE)
    BY <1>1, <1>2, <1>5 DEF ModifyOne
<1>7. PICK v : Sets(s, t, k, v) /\ ((v = Absent /\ new = Zero) \/ v = new)
    <2>1. CASE new = Zero /\ t = DelWithUndo(s, k, FALSE)
        BY <2>1, DelAny, Zenon
    <2>2. CASE t = PutWithUndo(s, k, new, FALSE)
        BY <2>2, PutAny, Zenon
    <2>3. QED
        BY <1>6, <2>1, <2>2, Zenon
<1>8. t.db[k] = v /\ \A j \in Keys : j # k => t.db[j] = s.db[j]
    BY <1>7, Zenon DEF Sets
<1>9. BalanceOf(t.db, a) = new
    BY <1>4, <1>5, <1>7, <1>8, Zenon DEF BalanceOf
<1>10. ASSUME NEW b \in Owners \ {a} PROVE BalanceOf(t.db, b) = BalanceOf(s.db, b)
    <2>1. PICK j \in Keys : j = <<"balance", b>>
        BY BalanceKeys
    <2>2. j # k
        BY <1>5, <1>10, <2>1, BalanceKeys
    <2>3. t.db[j] = s.db[j]
        BY <1>8, <2>2
    <2>4. QED
        BY <2>1, <2>3, Zenon DEF BalanceOf
<1>11. Kept(t.db)
    <2>1. ASSUME NEW b \in Owners PROVE BalanceOf(t.db, b).locked \in Int /\ BalanceOf(t.db, b).spendable \in Int
        <3>1. CASE b = a
            BY <1>3, <1>9, <3>1
        <3>2. CASE b # a
            <4>1. BalanceOf(t.db, b) = BalanceOf(s.db, b)
                BY <1>10, <3>2
            <4>2. QED
                BY <4>1 DEF Kept
        <3>3. QED
            BY <3>1, <3>2
    <2>2. QED
        BY <2>1 DEF Kept
<1>12. BalanceOf(t.db, a).spendable = BalanceOf(s.db, a).spendable + ds
    BY <1>1, <1>3, <1>9
<1>13. QED
    BY <1>10, <1>11, <1>12 DEF Added

\* ... and, for an output, to two.
Paid(d, e, o, n) ==
    /\ Kept(e)
    /\ \A a \in Owners : BalanceOf(e, a).spendable
           = BalanceOf(d, a).spendable + (IF a = AllAddrs \/ a = Addr[o] THEN n ELSE 0)

LEMMA ModifyBalancePays ==
    ASSUME NEW s, IsDb(s.db), Kept(s.db), NEW o \in Outputs, NEW l \in Int, NEW p \in Int,
           NEW t, t = ModifyBalance(s, o, l, p)
    PROVE  Paid(s.db, t.db, o, p * Amount[o])
<1>1. Amount[o] \in Nat
    BY WalletAssumption DEF WalletAssumption
<1>2. PICK m, n \in Int : m = l * Amount[o] /\ n = p * Amount[o]
    BY <1>1
<1>3. PICK u : u = ModifyOne(s, Addr[o], m, n)
    OBVIOUS
<1>4. t = ModifyOne(u, AllAddrs, m, n)
    BY <1>2, <1>3 DEF ModifyBalance
<1>5. Addr[o] \in Owners /\ AllAddrs \in Owners /\ Addr[o] # AllAddrs
    BY ValueAssumption DEF ValueAssumption, Owners, Addrs
<1>6. Added(s.db, u.db, Addr[o], n)
    BY <1>3, <1>5, ModifyOneAdds
<1>7. IsDb(u.db) /\ Kept(u.db)
    BY <1>3, <1>6, ModifyOneSame DEF SameBut, Added
<1>8. Added(u.db, t.db, AllAddrs, n)
    BY <1>4, <1>5, <1>7, ModifyOneAdds
<1>9. ASSUME NEW a \in Owners
      PROVE  BalanceOf(t.db, a).spendable
                 = BalanceOf(s.db, a).spendable + (IF a = AllAddrs \/ a = Addr[o] THEN n ELSE 0)
    <2>1. PICK x \in Int : x = BalanceOf(s.db, a).spendable
        BY DEF Kept
    <2>2. CASE a = AllAddrs
        <3>1. BalanceOf(u.db, a) = BalanceOf(s.db, a)
            BY <1>5, <1>6, <2>2 DEF Added
        <3>2. BalanceOf(t.db, a).spendable = BalanceOf(u.db, a).spendable + n
            BY <1>8, <2>2 DEF Added
        <3>3. QED
            BY <2>2, <3>1, <3>2
    <2>3. CASE a = Addr[o]
        <3>1. BalanceOf(u.db, a).spendable = BalanceOf(s.db, a).spendable + n
            BY <1>6, <2>3 DEF Added
        <3>2. BalanceOf(t.db, a) = BalanceOf(u.db, a)
            BY <1>5, <1>8, <2>3 DEF Added
        <3>3. QED
            BY <2>3, <3>1, <3>2
    <2>4. CASE a # AllAddrs /\ a # Addr[o]
        <3>1. BalanceOf(u.db, a) = BalanceOf(s.db, a)
            BY <1>6, <2>4 DEF Added
        <3>2. BalanceOf(t.db, a) = BalanceOf(u.db, a)
            BY <1>8, <2>4 DEF Added
        <3>3. QED
            BY <2>1, <2>4, <3>1, <3>2
    <2>5. QED
        BY <2>2, <2>3, <2>4
<1>10. Kept(t.db)
    BY <1>8 DEF Added
<1>11. QED
    BY <1>2, <1>9, <1>10 DEF Paid

\* A write to another table leaves the balances alone.
LEMMA SetsBalances ==
    ASSUME NEW u, NEW t, NEW k, k[1] # "balance", NEW v, Sets(u, t, k, v)
    PROVE  \A a \in Owners : BalanceOf(t.db, a) = BalanceOf(u.db, a)
<1>1. SUFFICES ASSUME NEW a \in Owners PROVE BalanceOf(t.db, a) = BalanceOf(u.db, a)
    OBVIOUS
<1>2. PICK j \in Keys : j = <<"balance", a>> /\ j[1] = "balance"
    BY BalanceKeys, KeyNames
<1>3. t.db[j] = u.db[j]
    BY <1>2, Zenon DEF Sets
<1>4. QED
    BY <1>2, <1>3, Zenon DEF BalanceOf

LEMMA KeptSame ==
    ASSUME NEW d, Kept(d), NEW e, \A a \in Owners : BalanceOf(e, a) = BalanceOf(d, a)
    PROVE  Kept(e)
BY Zenon DEF Kept

LEMMA PaidSets ==
    ASSUME NEW d, NEW u, NEW t, NEW k, k[1] # "balance", NEW v, Sets(u, t, k, v),
           NEW o, NEW n, Paid(d, u.db, o, n)
    PROVE  Paid(d, t.db, o, n)
<1>1. \A a \in Owners : BalanceOf(t.db, a) = BalanceOf(u.db, a)
    BY SetsBalances, Zenon
<1>2. Kept(t.db)
    BY <1>1, KeptSame DEF Paid
<1>3. QED
    BY <1>1, <1>2, Zenon DEF Paid

LEMMA AddUnspentPays ==
    ASSUME NEW s, IsDb(s.db), Kept(s.db), NEW o \in Outputs, NEW h \in Heights,
           NEW t, t = AddToUnspentIndex(s, o, h)
    PROVE  Paid(s.db, t.db, o, Amount[o])
<1>1. PICK u : u = ModifyBalance(s, o, 0, 1)
    OBVIOUS
<1>2. Paid(s.db, u.db, o, 1 * Amount[o]) /\ IsDb(u.db)
    <2>1. 0 \in Int /\ 1 \in Int
        OBVIOUS
    <2>2. QED
        BY <1>1, <2>1, ModifyBalancePays, ModifyBalanceSame DEF SameBut
<1>3. 1 * Amount[o] = Amount[o]
    BY WalletAssumption DEF WalletAssumption
<1>4. PICK k : k = <<"unspent", h, o>> /\ k[1] # "balance"
    BY KeyNames
<1>5. t = PutWithUndo(u, k, TRUE, TRUE)
    BY <1>1, <1>4 DEF AddToUnspentIndex
<1>6. Sets(u, t, k, TRUE)
    BY <1>2, <1>5, PutNew, Zenon
<1>7. QED
    BY <1>2, <1>3, <1>4, <1>6, PaidSets

LEMMA RemoveUnspentPays ==
    ASSUME NEW s, IsDb(s.db), Kept(s.db), NEW o \in Outputs, NEW h \in Heights,
           NEW t, t = RemoveFromUnspentIndex(s, o, h)
    PROVE  Paid(s.db, t.db, o, -Amount[o])
<1>1. PICK m \in Int : m = -1
    OBVIOUS
<1>2. PICK u : u = ModifyBalance(s, o, 0, m)
    OBVIOUS
<1>3. Paid(s.db, u.db, o, m * Amount[o]) /\ IsDb(u.db)
    <2>1. 0 \in Int
        OBVIOUS
    <2>2. QED
        BY <1>2, <2>1, ModifyBalancePays, ModifyBalanceSame DEF SameBut
<1>4. m * Amount[o] = -Amount[o]
    BY <1>1, WalletAssumption DEF WalletAssumption
<1>5. PICK k : k = <<"unspent", h, o>> /\ k[1] # "balance"
    BY KeyNames
<1>6. t = DelWithUndo(u, k, TRUE)
    BY <1>1, <1>2, <1>5 DEF RemoveFromUnspentIndex
<1>7. Sets(u, t, k, Absent)
    BY <1>3, <1>6, DelOld, Zenon
<1>8. QED
    BY <1>3, <1>4, <1>5, <1>7, PaidSets

LEMMA LockPays ==
    ASSUME NEW s, IsDb(s.db), Kept(s.db), NEW o \in Outputs, NEW h, NEW t,
           t = AddToLockIndex(s, o, h) \/ t = RemoveFromLockIndex(s, o)
    PROVE  Paid(s.db, t.db, o, 0)
<1>1. PICK m, z \in Int : z = 0 /\ m = -1
    OBVIOUS
<1>2. 1 \in Int /\ z * Amount[o] = 0
    BY <1>1, WalletAssumption DEF WalletAssumption
<1>3. PICK k : k = <<"locked", o>> /\ k[1] # "balance"
    BY KeyNames
<1>4. \/ t = PutWithUndo(ModifyBalance(s, o, 1, z), k, h, TRUE)
      \/ t = DelWithUndo(ModifyBalance(s, o, m, z), k, TRUE)
    BY <1>1, <1>3 DEF AddToLockIndex, RemoveFromLockIndex
<1>5. PICK l \in Int : \/ t = PutWithUndo(ModifyBalance(s, o, l, z), k, h, TRUE)
                        \/ t = DelWithUndo(ModifyBalance(s, o, l, z), k, TRUE)
    BY <1>2, <1>4, Zenon
<1>6. PICK u : u = ModifyBalance(s, o, l, z)
    OBVIOUS
<1>7. Paid(s.db, u.db, o, z * Amount[o]) /\ IsDb(u.db)
    BY <1>6, ModifyBalancePays, ModifyBalanceSame DEF SameBut
<1>8. PICK v : Sets(u, t, k, v)
    BY <1>5, <1>6, <1>7, PutNew, DelOld, Zenon
<1>9. QED
    BY <1>2, <1>3, <1>7, <1>8, PaidSets

LEMMA PlaceFacts ==
    ASSUME NEW h \in Heights, NEW o \in Outputs
    PROVE  \E x \in Places : x = <<h, o>> /\ x[1] = h /\ x[2] = o
<1>1. PICK x : x = <<h, o>>
    OBVIOUS
<1>2. x[1] = h /\ x[2] = o
    BY <1>1
<1>3. x \in Places
    BY <1>1 DEF Places
<1>4. QED
    BY <1>1, <1>2, <1>3, Zenon

\* The unspent outputs after each kind of write.
LEMMA UnspentMoves ==
    ASSUME NEW s, NEW t, NEW h \in Heights, NEW o \in Outputs, NEW v, Moves(s, t, <<"unspent", h, o>>, v)
    PROVE  /\ v # Absent => UnspentIn(t.db) = UnspentIn(s.db) \cup {<<h, o>>}
           /\ v = Absent => UnspentIn(t.db) = UnspentIn(s.db) \ {<<h, o>>}
<1>0. PICK k : k = <<"unspent", h, o>>
    OBVIOUS
<1>1. Unmoved(s, t, <<"unspent", h, o>>) /\ t.db[<<"unspent", h, o>>] = v
    <2>1. Moves(s, t, k, v)
        BY <1>0, Zenon
    <2>2. Unmoved(s, t, k) /\ t.db[k] = v
        BY <2>1, MovesNot, Zenon DEF Moves
    <2>3. QED
        BY <1>0, <2>2, Zenon
<1>2. PICK x \in Places : x = <<h, o>> /\ x[1] = h /\ x[2] = o
    BY PlaceFacts, Zenon
<1>3. ASSUME NEW y \in Places, y # x
      PROVE  t.db[<<"unspent", y[1], y[2]>>] = s.db[<<"unspent", y[1], y[2]>>]
    <2>1. PICK g \in Heights, p \in Outputs : y = <<g, p>> /\ y[1] = g /\ y[2] = p
        BY DEF Places
    <2>2. g # h \/ p # o
        BY <1>2, <1>3, <2>1
    <2>3. <<"unspent", g, p>> # <<"unspent", h, o>>
        BY <2>2
    <2>4. QED
        BY <1>1, <2>1, <2>3, Zenon DEF Unmoved
<1>4. t.db[<<"unspent", x[1], x[2]>>] = v
    BY <1>1, <1>2
<1>5. \A y \in Places : y \in UnspentIn(t.db) <=> IF y = x THEN v # Absent ELSE y \in UnspentIn(s.db)
    BY <1>3, <1>4, Zenon DEF UnspentIn
<1>6. UnspentIn(t.db) \subseteq Places /\ UnspentIn(s.db) \subseteq Places
    BY DEF UnspentIn
<1>7. QED
    BY <1>2, <1>5, <1>6

LEMMA UnspentSame ==
    ASSUME NEW d, NEW e,
           \A g \in Heights, p \in Outputs : e[<<"unspent", g, p>>] = d[<<"unspent", g, p>>]
    PROVE  UnspentIn(e) = UnspentIn(d)
<1>1. ASSUME NEW y \in Places PROVE e[<<"unspent", y[1], y[2]>>] = d[<<"unspent", y[1], y[2]>>]
    <2>1. y[1] \in Heights /\ y[2] \in Outputs
        BY DEF Places
    <2>2. QED
        BY <2>1, Zenon
<1>2. QED
    BY <1>1, Zenon DEF UnspentIn

\* One more unspent output, one less, and none.
LEMMA PaidAdd ==
    ASSUME NEW d, Balanced(d), NEW e, NEW x \in Places, Paid(d, e, x[2], Worth(x)),
           x \notin UnspentIn(d), UnspentIn(e) = UnspentIn(d) \cup {x}
    PROVE  Balanced(e)
<1>1. PICK S \in SUBSET Places : S = UnspentIn(d)
    BY DEF UnspentIn
<1>2. ASSUME NEW a \in Owners PROVE BalanceOf(e, a).spendable = Total(Owned(UnspentIn(e), a))
    <2>1. PICK T \in SUBSET Places : T = Owned(S, a)
        BY DEF Owned
    <2>2. BalanceOf(d, a).spendable = Total(T)
        BY <1>1, <2>1 DEF Balanced
    <2>3. x \notin T
        BY <1>1, <2>1 DEF Owned
    <2>4. CASE a = AllAddrs \/ a = Addr[x[2]]
        <3>1. Owned(UnspentIn(e), a) = T \cup {x}
            BY <1>1, <2>1, <2>4 DEF Owned
        <3>2. Total(T \cup {x}) = Total(T) + Worth(x)
            BY <2>3, TotalOne
        <3>3. BalanceOf(e, a).spendable = BalanceOf(d, a).spendable + Worth(x)
            BY <2>4 DEF Paid
        <3>4. QED
            BY <2>2, <3>1, <3>2, <3>3
    <2>5. CASE ~(a = AllAddrs \/ a = Addr[x[2]])
        <3>1. Owned(UnspentIn(e), a) = T
            BY <1>1, <2>1, <2>5 DEF Owned
        <3>2. BalanceOf(e, a).spendable = BalanceOf(d, a).spendable + 0
            BY <2>5, Zenon DEF Paid
        <3>3. Total(T) \in Nat
            BY TotalNat
        <3>4. QED
            BY <2>2, <3>1, <3>2, <3>3
    <2>6. QED
        BY <2>4, <2>5
<1>3. QED
    BY <1>2 DEF Balanced, Paid

LEMMA PaidRemove ==
    ASSUME NEW d, Balanced(d), NEW e, NEW x \in Places, Paid(d, e, x[2], -Worth(x)),
           x \in UnspentIn(d), UnspentIn(e) = UnspentIn(d) \ {x}
    PROVE  Balanced(e)
<1>1. PICK S \in SUBSET Places : S = UnspentIn(d)
    BY DEF UnspentIn
<1>2. ASSUME NEW a \in Owners PROVE BalanceOf(e, a).spendable = Total(Owned(UnspentIn(e), a))
    <2>1. PICK T \in SUBSET Places : T = Owned(S, a)
        BY DEF Owned
    <2>2. BalanceOf(d, a).spendable = Total(T)
        BY <1>1, <2>1 DEF Balanced
    <2>3. Total(T) \in Nat /\ Worth(x) \in Nat
        BY TotalNat, WorthNat
    <2>4. CASE a = AllAddrs \/ a = Addr[x[2]]
        <3>1. Owned(UnspentIn(e), a) = T \ {x} /\ x \in T
            BY <1>1, <2>1, <2>4 DEF Owned
        <3>2. Total(T \ {x}) = Total(T) - Worth(x)
            BY <3>1, TotalOne
        <3>3. BalanceOf(e, a).spendable = BalanceOf(d, a).spendable + (-Worth(x))
            BY <2>4, Zenon DEF Paid
        <3>4. QED
            BY <2>2, <2>3, <3>1, <3>2, <3>3
    <2>5. CASE ~(a = AllAddrs \/ a = Addr[x[2]])
        <3>1. Owned(UnspentIn(e), a) = T
            BY <1>1, <2>1, <2>5 DEF Owned
        <3>2. BalanceOf(e, a).spendable = BalanceOf(d, a).spendable + 0
            BY <2>5, Zenon DEF Paid
        <3>3. QED
            BY <2>2, <2>3, <3>1, <3>2
    <2>6. QED
        BY <2>4, <2>5
<1>3. QED
    BY <1>2 DEF Balanced, Paid

LEMMA PaidNone ==
    ASSUME NEW d, Balanced(d), NEW e, NEW o, Paid(d, e, o, 0), UnspentIn(e) = UnspentIn(d)
    PROVE  Balanced(e)
<1>1. ASSUME NEW a \in Owners PROVE BalanceOf(e, a).spendable = Total(Owned(UnspentIn(e), a))
    <2>1. BalanceOf(d, a).spendable \in Int /\ BalanceOf(d, a).spendable = Total(Owned(UnspentIn(d), a))
        BY DEF Balanced, Kept
    <2>2. BalanceOf(e, a).spendable = BalanceOf(d, a).spendable + 0
        BY DEF Paid
    <2>3. QED
        BY <2>1, <2>2
<1>2. QED
    BY <1>1 DEF Balanced, Paid

-----------------------------------------------------------------------------
\* Each operation on outputs and key images leaves the tables fine.
SameKeyImages(d, e) == \A k \in KeyImages : e[<<"keyimage", k>>] = d[<<"keyimage", k>>]
SameUnlocked(d, e) == \A g \in Heights, p \in Outputs : e[<<"unlocked", g, p>>] = d[<<"unlocked", g, p>>]

LEMMA PlaceFields ==
    ASSUME NEW x \in Places
    PROVE  x[1] \in Heights /\ x[2] \in Outputs /\ x = <<x[1], x[2]>> /\ Ki[x[2]] \in KeyImages
<1>1. x[1] \in Heights /\ x[2] \in Outputs /\ x = <<x[1], x[2]>>
    BY DEF Places
<1>2. QED
    BY <1>1, KiOfOutput

LEMMA OwnKeyImageSame ==
    ASSUME NEW d, OwnKeyImage(d), NEW e, SameKeyImages(d, e)
    PROVE  OwnKeyImage(e)
BY Zenon DEF OwnKeyImage, SameKeyImages, KnownKeyImage, Standing

LEMMA ByKeyImageSame ==
    ASSUME NEW d, NEW S \in SUBSET Places, ByKeyImage(d, S), NEW e, SameKeyImages(d, e), NEW T \in SUBSET S
    PROVE  ByKeyImage(e, T)
<1>1. ASSUME NEW x \in T, Ki[x[2]] # NoKeyImage PROVE e[<<"keyimage", Ki[x[2]]>>] = x
    <2>1. Ki[x[2]] \in KeyImages /\ x \in S
        BY PlaceFields
    <2>2. QED
        BY <1>1, <2>1, Zenon DEF ByKeyImage, SameKeyImages
<1>2. QED
    BY <1>1, Zenon DEF ByKeyImage

LEMMA OneUnlockSame ==
    ASSUME NEW d, NEW S \in SUBSET Places, OneUnlock(d, S), NEW e, SameUnlocked(d, e), NEW T \in SUBSET S
    PROVE  OneUnlock(e, T)
<1>1. ASSUME NEW x \in T, NEW g \in Heights, e[<<"unlocked", g, x[2]>>] # Absent
      PROVE  e[<<"unlocked", g, x[2]>>] = x[1]
    <2>1. x[2] \in Outputs /\ x \in S
        BY PlaceFields
    <2>2. QED
        BY <1>1, <2>1, Zenon DEF OneUnlock, SameUnlocked
<1>2. QED
    BY <1>1, Zenon DEF OneUnlock

LEMMA UnspentPlaces ==
    ASSUME NEW d
    PROVE  UnspentIn(d) \in SUBSET Places
BY DEF UnspentIn

LEMMA IndexedSame ==
    ASSUME NEW d, Indexed(d), NEW e, SameKeyImages(d, e), SameUnlocked(d, e), UnspentIn(e) \subseteq UnspentIn(d)
    PROVE  Indexed(e)
<1>1. PICK S \in SUBSET Places : S = UnspentIn(d)
    BY UnspentPlaces
<1>2. PICK T \in SUBSET S : T = UnspentIn(e)
    BY <1>1
<1>3. ByKeyImage(e, T)
    BY <1>1, ByKeyImageSame DEF Indexed
<1>4. OneUnlock(e, T)
    BY <1>1, OneUnlockSame DEF Indexed
<1>5. QED
    BY <1>2, <1>3, <1>4, OwnKeyImageSame DEF Indexed

\* The output that stands for a key image leaves the unspent index.
LEMMA RemoveStandingFine ==
    ASSUME NEW s, IsDb(s.db), KiOk(s.db), Fine(s.db), NEW k \in KeyImages, StandingUnspent(s.db, k),
           NEW t, t = RemoveFromUnspentIndex(s, Standing(s.db, k)[2], Standing(s.db, k)[1])
    PROVE  /\ Fine(t.db) /\ SameKeyImages(s.db, t.db) /\ SameUnlocked(s.db, t.db)
           /\ UnspentIn(t.db) = UnspentIn(s.db) \ {Standing(s.db, k)}
<1>1. PICK x : x = Standing(s.db, k)
    OBVIOUS
<1>2. KnownKeyImage(s.db, k) /\ s.db[<<"unspent", x[1], x[2]>>] # Absent
    BY <1>1, Zenon DEF StandingUnspent
<1>3. x \in Places
    <2>1. s.db[<<"keyimage", k>>] \in Heights \X Outputs
        BY <1>2, Zenon DEF KiOk, KnownKeyImage
    <2>2. QED
        BY <1>1, <2>1, Zenon DEF Standing, Places
<1>4. PICK h \in Heights, o \in Outputs : h = x[1] /\ o = x[2] /\ x = <<h, o>>
    BY <1>3, PlaceFields
<1>5. t = RemoveFromUnspentIndex(s, o, h)
    BY <1>1, <1>4
<1>6. PICK v : v = Absent /\ Moves(s, t, <<"unspent", h, o>>, v)
    BY <1>5, RemoveUnspent, Zenon
<1>7. SameOthers(s.db, t.db)
    BY <1>6, MovesUnspent
<1>8. UnspentIn(t.db) = UnspentIn(s.db) \ {x}
    <2>1. UnspentIn(t.db) = UnspentIn(s.db) \ {<<h, o>>}
        BY <1>6, UnspentMoves
    <2>2. QED
        BY <1>4, <2>1, Zenon
<1>9. x \in UnspentIn(s.db)
    BY <1>2, <1>3, Zenon DEF UnspentIn
<1>10. Paid(s.db, t.db, o, -Amount[o])
    BY <1>5, RemoveUnspentPays DEF Fine, Balanced
<1>11. Paid(s.db, t.db, x[2], -Worth(x))
    BY <1>4, <1>10 DEF Worth
<1>12. Balanced(t.db)
    BY <1>3, <1>8, <1>9, <1>11, PaidRemove DEF Fine
<1>13. SameKeyImages(s.db, t.db) /\ SameUnlocked(s.db, t.db)
    BY <1>7, Zenon DEF SameOthers, SameKeyImages, SameUnlocked
<1>14. UnspentIn(t.db) \subseteq UnspentIn(s.db)
    BY <1>8
<1>15. Indexed(t.db)
    BY <1>13, <1>14, IndexedSame DEF Fine
<1>16. QED
    BY <1>1, <1>8, <1>12, <1>13, <1>15 DEF Fine

\* The lock index.
LEMMA LockFine ==
    ASSUME NEW s, IsDb(s.db), Fine(s.db), NEW o \in Outputs, NEW h, NEW t,
           t = AddToLockIndex(s, o, h) \/ t = RemoveFromLockIndex(s, o)
    PROVE  Fine(t.db)
<1>1. PICK v : Moves(s, t, <<"locked", o>>, v)
    BY AddLock, RemoveLock, Zenon
<1>2. Unmoved(s, t, <<"locked", o>>)
    BY <1>1, MovesNot, Zenon
<1>3. SameUnlocked(s.db, t.db)
    BY <1>2, KeysApart, Zenon DEF Unmoved, SameUnlocked
<1>4. SameKeyImages(s.db, t.db)
    BY <1>2, KeysApart, Zenon DEF Unmoved, SameKeyImages
<1>5. \A g \in Heights, p \in Outputs : t.db[<<"unspent", g, p>>] = s.db[<<"unspent", g, p>>]
    BY <1>2, KeysApart, Zenon DEF Unmoved
<1>6. UnspentIn(t.db) = UnspentIn(s.db)
    BY <1>5, UnspentSame
<1>7. Paid(s.db, t.db, o, 0)
    BY LockPays DEF Fine, Balanced
<1>8. Balanced(t.db)
    BY <1>6, <1>7, PaidNone DEF Fine
<1>9. Indexed(t.db)
    BY <1>3, <1>4, <1>6, IndexedSame DEF Fine
<1>10. QED
    BY <1>8, <1>9 DEF Fine

\* No unspent output has key image k.
NoneWith(S, k) == \A x \in S : k = NoKeyImage \/ Ki[x[2]] # k

LEMMA NotAbsent ==
    ASSUME NEW x \in Places
    PROVE  x # Absent
BY ValueAssumption DEF ValueAssumption, Places

\* What the key image stood for makes place.
LEMMA FreedFine ==
    ASSUME NEW s, IsDb(s.db), KiOk(s.db), Fine(s.db), NEW k \in KeyImages, ~Spent(s.db, k),
           NEW t, t = IF KnownKeyImage(s.db, k)
                      THEN RemoveFromUnspentIndex(s, Standing(s.db, k)[2], Standing(s.db, k)[1])
                      ELSE s
    PROVE  /\ Fine(t.db) /\ IsDb(t.db) /\ NoneWith(UnspentIn(t.db), k) /\ SameUnlocked(s.db, t.db)
           /\ UnspentIn(t.db) \subseteq UnspentIn(s.db)
<1>1. PICK S \in SUBSET Places : S = UnspentIn(s.db)
    BY UnspentPlaces
<1>2. ByKeyImage(s.db, S)
    BY <1>1 DEF Fine, Indexed
<1>3. CASE KnownKeyImage(s.db, k)
    <2>1. StandingUnspent(s.db, k)
        BY <1>3, Zenon DEF Spent
    <2>2. t = RemoveFromUnspentIndex(s, Standing(s.db, k)[2], Standing(s.db, k)[1])
        BY <1>3, Zenon
    <2>3. Fine(t.db) /\ SameUnlocked(s.db, t.db)
        BY <2>1, <2>2, RemoveStandingFine
    <2>4. PICK x : x = Standing(s.db, k)
        OBVIOUS
    <2>5. UnspentIn(t.db) = S \ {x}
        BY <1>1, <2>1, <2>2, <2>4, RemoveStandingFine
    <2>6. IsDb(t.db)
        BY <2>1, <2>2, RemoveStanding DEF Okay
    <2>7. ASSUME NEW y \in S, k # NoKeyImage, Ki[y[2]] = k PROVE y = x
        <3>1. s.db[<<"keyimage", Ki[y[2]]>>] = y
            BY <1>2, <2>7, Zenon DEF ByKeyImage
        <3>2. QED
            BY <2>4, <2>7, <3>1, Zenon DEF Standing
    <2>8. NoneWith(S \ {x}, k)
        BY <2>7 DEF NoneWith
    <2>9. QED
        BY <1>1, <2>3, <2>5, <2>6, <2>8
<1>4. CASE ~KnownKeyImage(s.db, k)
    <2>1. t = s
        BY <1>4, Zenon
    <2>2. ASSUME NEW y \in S, k # NoKeyImage, Ki[y[2]] = k PROVE FALSE
        <3>1. s.db[<<"keyimage", k>>] = y
            BY <1>2, <2>2, Zenon DEF ByKeyImage
        <3>2. s.db[<<"keyimage", k>>] = Absent
            BY <1>4, <2>2, Zenon DEF KnownKeyImage
        <3>3. QED
            BY <3>1, <3>2, NotAbsent
    <2>3. NoneWith(S, k)
        BY <2>2 DEF NoneWith
    <2>4. SameUnlocked(s.db, t.db)
        BY <2>1, Zenon DEF SameUnlocked
    <2>5. QED
        BY <1>1, <2>1, <2>3, <2>4
<1>5. QED
    BY <1>3, <1>4

\* The indices with one more unspent output, to which its key image leads.
LeadTo(f, e, x) ==
    \A k \in KeyImages :
        e[<<"keyimage", k>>] = IF k = Ki[x[2]] /\ k # NoKeyImage THEN x ELSE f[<<"keyimage", k>>]

LEMMA IndexedAdd ==
    ASSUME NEW d, Indexed(d), NEW e, NEW x \in Places, UnspentIn(e) = UnspentIn(d) \cup {x},
           NoneWith(UnspentIn(d), Ki[x[2]]), SameUnlocked(d, e),
           \A g \in Heights : d[<<"unlocked", g, x[2]>>] = Absent, LeadTo(d, e, x)
    PROVE  Indexed(e)
<1>1. PICK S \in SUBSET Places : S = UnspentIn(d)
    BY UnspentPlaces
<1>2. PICK q \in KeyImages : q = Ki[x[2]]
    BY PlaceFields
<1>3. \A k \in KeyImages : e[<<"keyimage", k>>] = IF k = q /\ k # NoKeyImage THEN x ELSE d[<<"keyimage", k>>]
    BY <1>2, Zenon DEF LeadTo
<1>4. ASSUME NEW y \in S \cup {x}, Ki[y[2]] # NoKeyImage PROVE e[<<"keyimage", Ki[y[2]]>>] = y
    <2>1. PICK k \in KeyImages : k = Ki[y[2]]
        BY PlaceFields
    <2>2. CASE y = x
        BY <1>2, <1>3, <1>4, <2>1, <2>2, Zenon
    <2>3. CASE y # x
        <3>1. y \in S
            BY <2>3
        <3>2. k # q
            BY <1>1, <1>2, <1>4, <2>1, <3>1, Zenon DEF NoneWith
        <3>3. d[<<"keyimage", k>>] = y
            BY <1>1, <1>4, <2>1, <3>1, Zenon DEF Indexed, ByKeyImage
        <3>4. QED
            BY <1>3, <2>1, <3>2, <3>3, Zenon
    <2>4. QED
        BY <2>2, <2>3
<1>5. ASSUME NEW k \in KeyImages, KnownKeyImage(e, k) PROVE Ki[Standing(e, k)[2]] = k
    <2>1. CASE k = q
        <3>1. Standing(e, k) = x
            BY <1>3, <1>5, <2>1, Zenon DEF KnownKeyImage, Standing
        <3>2. QED
            BY <1>2, <2>1, <3>1, Zenon
    <2>2. CASE k # q
        <3>1. e[<<"keyimage", k>>] = d[<<"keyimage", k>>]
            BY <1>3, <2>2, Zenon
        <3>2. QED
            BY <1>5, <3>1, Zenon DEF Indexed, OwnKeyImage, KnownKeyImage, Standing
    <2>3. QED
        BY <2>1, <2>2
<1>6. ASSUME NEW y \in S \cup {x}, NEW g \in Heights, e[<<"unlocked", g, y[2]>>] # Absent
      PROVE  e[<<"unlocked", g, y[2]>>] = y[1]
    <2>1. y[2] \in Outputs
        BY PlaceFields
    <2>2. e[<<"unlocked", g, y[2]>>] = d[<<"unlocked", g, y[2]>>]
        BY <2>1, Zenon DEF SameUnlocked
    <2>3. y # x
        BY <1>6, <2>2, Zenon
    <2>4. y \in S
        BY <2>3
    <2>5. QED
        BY <1>1, <1>6, <2>2, <2>4, Zenon DEF Indexed, OneUnlock
<1>7. UnspentIn(e) = S \cup {x}
    BY <1>1, Zenon
<1>8. ByKeyImage(e, S \cup {x})
    BY <1>4, Zenon DEF ByKeyImage
<1>9. OneUnlock(e, S \cup {x})
    BY <1>6, Zenon DEF OneUnlock
<1>10. OwnKeyImage(e)
    BY <1>5, Zenon DEF OwnKeyImage
<1>11. QED
    BY <1>7, <1>8, <1>9, <1>10, Zenon DEF Indexed

OnlyAt(S, o, h) == \A y \in S : y[2] = o => y = <<h, o>>

LEMMA FreeUnspent ==
    ASSUME NEW d, NEW o \in Outputs, Free(d, o), NEW h
    PROVE  OnlyAt(UnspentIn(d), o, h) /\ <<h, o>> \notin UnspentIn(d)
<1>1. ASSUME NEW y \in UnspentIn(d), y[2] = o PROVE FALSE
    <2>1. y \in Places /\ d[<<"unspent", y[1], y[2]>>] # Absent
        BY DEF UnspentIn
    <2>2. y[1] \in Heights
        BY <2>1, PlaceFields
    <2>3. QED
        BY <1>1, <2>1, <2>2, Zenon DEF Free
<1>2. \A g : <<g, o>>[2] = o
    OBVIOUS
<1>3. QED
    BY <1>1, <1>2, Zenon DEF OnlyAt

\* The key image of an output that is new in the unspent index is put.
PutsKeyImage(u, t, x) ==
    \/ t = u /\ Ki[x[2]] = NoKeyImage
    \/ Ki[x[2]] # NoKeyImage /\ \E b \in BOOLEAN : t = PutWithUndo(u, <<"keyimage", Ki[x[2]]>>, x, b)

LEMMA PutKeyImage ==
    ASSUME NEW u, IsDb(u.db), NEW x \in Places, NEW f, NEW t, SameKeyImages(f, u.db), PutsKeyImage(u, t, x)
    PROVE  /\ IsDb(t.db) /\ SameUnlocked(u.db, t.db) /\ UnspentIn(t.db) = UnspentIn(u.db)
           /\ \A a \in Owners : BalanceOf(t.db, a) = BalanceOf(u.db, a)
           /\ LeadTo(f, t.db, x)
<1>1. PICK q \in KeyImages : q = Ki[x[2]]
    BY PlaceFields
<1>2. CASE q = NoKeyImage
    <2>1. t = u
        BY <1>1, <1>2, Zenon DEF PutsKeyImage
    <2>2. \A k \in KeyImages : t.db[<<"keyimage", k>>] =
                  IF k = q /\ k # NoKeyImage THEN x ELSE f[<<"keyimage", k>>]
        BY <1>2, <2>1, Zenon DEF SameKeyImages
    <2>3. QED
        BY <1>1, <2>1, <2>2, Zenon DEF SameUnlocked, LeadTo
<1>3. CASE q # NoKeyImage
    <2>1. PICK j \in Keys : j = <<"keyimage", q>> /\ j[1] # "balance"
        BY KeyFacts, KeyNames
    <2>2. t = PutWithUndo(u, j, x, FALSE) \/ t = PutWithUndo(u, j, x, TRUE)
        BY <1>1, <1>3, <2>1 DEF PutsKeyImage
    <2>3. Sets(u, t, j, x)
        BY <2>2, PutAny, PutNew, Zenon
    <2>4. Moves(u, t, <<"keyimage", q>>, x)
        BY <2>1, <2>3, SetsMoves, Zenon
    <2>5. Unmoved(u, t, <<"keyimage", q>>) /\ t.db[<<"keyimage", q>>] = x /\ IsDb(t.db)
        BY <2>4, MovesNot, Zenon DEF Moves
    <2>6. SameUnlocked(u.db, t.db)
        BY <2>5, KeysApart, Zenon DEF Unmoved, SameUnlocked
    <2>7. \A g \in Heights, p \in Outputs : t.db[<<"unspent", g, p>>] = u.db[<<"unspent", g, p>>]
        BY <2>5, KeysApart, Zenon DEF Unmoved
    <2>8. UnspentIn(t.db) = UnspentIn(u.db)
        BY <2>7, UnspentSame
    <2>9. ASSUME NEW k \in KeyImages
          PROVE  t.db[<<"keyimage", k>>] = IF k = q /\ k # NoKeyImage THEN x ELSE f[<<"keyimage", k>>]
        <3>1. CASE k = q
            BY <1>3, <2>5, <3>1, Zenon
        <3>2. CASE k # q
            <4>1. <<"keyimage", k>> # <<"keyimage", q>>
                BY <3>2
            <4>2. QED
                BY <2>5, <3>2, <4>1, Zenon DEF Unmoved, SameKeyImages
        <3>3. QED
            BY <3>1, <3>2, Zenon
    <2>10. \A a \in Owners : BalanceOf(t.db, a) = BalanceOf(u.db, a)
        BY <2>1, <2>3, SetsBalances
    <2>11. QED
        BY <1>1, <2>5, <2>6, <2>8, <2>9, <2>10, Zenon DEF LeadTo
<1>4. QED
    BY <1>2, <1>3, Zenon

LEMMA BalancedSame ==
    ASSUME NEW d, Balanced(d), NEW e, UnspentIn(e) = UnspentIn(d),
           \A a \in Owners : BalanceOf(e, a) = BalanceOf(d, a)
    PROVE  Balanced(e)
BY KeptSame, Zenon DEF Balanced

LEMMA TakePlaceFine ==
    ASSUME NEW s, IsDb(s.db), KiOk(s.db), Fine(s.db), NEW o \in Outputs, NEW h \in Heights,
           Free(s.db, o), ~Spent(s.db, Ki[o]), NEW t, t = TakePlace(s, o, h)
    PROVE  Fine(t.db) /\ OnlyAt(UnspentIn(t.db), o, h)
<1>1. PICK x \in Places : x = <<h, o>> /\ x[1] = h /\ x[2] = o
    BY PlaceFacts
<1>2. PICK k \in KeyImages : k = Ki[o]
    BY KiOfOutput
<1>3. PICK freed :
        freed = IF KnownKeyImage(s.db, k)
                THEN RemoveFromUnspentIndex(s, Standing(s.db, k)[2], Standing(s.db, k)[1])
                ELSE s
    OBVIOUS
<1>4. PICK added : added = AddToUnspentIndex(freed, o, h)
    OBVIOUS
<1>5. t = IF k = NoKeyImage THEN added
          ELSE PutWithUndo(added, <<"keyimage", k>>, <<h, o>>, ~KnownKeyImage(s.db, k))
    BY <1>2, <1>3, <1>4 DEF TakePlace
<1>6. /\ Fine(freed.db) /\ IsDb(freed.db) /\ NoneWith(UnspentIn(freed.db), k)
      /\ SameUnlocked(s.db, freed.db) /\ UnspentIn(freed.db) \subseteq UnspentIn(s.db)
    <2>1. ~Spent(s.db, k)
        BY <1>2
    <2>2. QED
        BY <1>3, <2>1, FreedFine
<1>7. OnlyAt(UnspentIn(s.db), o, h) /\ x \notin UnspentIn(s.db)
    BY <1>1, FreeUnspent
<1>8. x \notin UnspentIn(freed.db)
    BY <1>6, <1>7
<1>9. PICK v : v = TRUE /\ Moves(freed, added, <<"unspent", h, o>>, v)
    BY <1>4, <1>6, AddUnspent, Zenon
<1>10. v # Absent
    BY <1>9, ValueAssumption, Zenon DEF ValueAssumption
<1>11. UnspentIn(added.db) = UnspentIn(freed.db) \cup {x}
    <2>1. Moves(freed, added, <<"unspent", h, o>>, v)
        BY <1>9
    <2>2. v # Absent => UnspentIn(added.db) = UnspentIn(freed.db) \cup {<<h, o>>}
        BY <2>1, UnspentMoves
    <2>3. QED
        BY <1>1, <1>10, <2>2, Zenon
<1>12. SameOthers(freed.db, added.db) /\ IsDb(added.db)
    BY <1>9, MovesUnspent, Zenon DEF Moves
<1>13. SameKeyImages(freed.db, added.db) /\ SameUnlocked(freed.db, added.db)
    BY <1>12, Zenon DEF SameOthers, SameKeyImages, SameUnlocked
<1>14. Paid(freed.db, added.db, x[2], Worth(x))
    <2>1. Paid(freed.db, added.db, o, Amount[o])
        BY <1>4, <1>6, AddUnspentPays DEF Fine, Balanced
    <2>2. QED
        BY <1>1, <2>1 DEF Worth
<1>15. Balanced(added.db)
    BY <1>6, <1>8, <1>11, <1>14, PaidAdd DEF Fine
<1>16. PutsKeyImage(added, t, x)
    <2>1. PICK b \in BOOLEAN : b = ~KnownKeyImage(s.db, k)
        OBVIOUS
    <2>2. t = IF k = NoKeyImage THEN added ELSE PutWithUndo(added, <<"keyimage", k>>, x, b)
        BY <1>1, <1>5, <2>1
    <2>3. QED
        BY <1>1, <1>2, <2>2 DEF PutsKeyImage
<1>17. PICK f : f = freed.db
    OBVIOUS
<1>18. /\ SameUnlocked(added.db, t.db) /\ UnspentIn(t.db) = UnspentIn(added.db)
       /\ \A a \in Owners : BalanceOf(t.db, a) = BalanceOf(added.db, a)
       /\ LeadTo(f, t.db, x)
    <2>1. SameKeyImages(f, added.db) /\ IsDb(added.db)
        BY <1>12, <1>13, <1>17
    <2>2. QED
        BY <1>16, <2>1, PutKeyImage, Zenon
<1>19. Balanced(t.db)
    BY <1>15, <1>18, BalancedSame
<1>20. UnspentIn(t.db) = UnspentIn(f) \cup {x}
    BY <1>11, <1>17, <1>18
<1>21. SameUnlocked(f, t.db)
    BY <1>13, <1>17, <1>18, Zenon DEF SameUnlocked
<1>22. \A g \in Heights : f[<<"unlocked", g, x[2]>>] = Absent
    BY <1>1, <1>6, <1>17, Zenon DEF SameUnlocked, Free
<1>23. NoneWith(UnspentIn(f), Ki[x[2]]) /\ Indexed(f)
    BY <1>1, <1>2, <1>6, <1>17 DEF Fine
<1>24. Indexed(t.db)
    BY <1>18, <1>20, <1>21, <1>22, <1>23, IndexedAdd
<1>25. OnlyAt(UnspentIn(t.db), o, h)
    BY <1>1, <1>6, <1>7, <1>17, <1>20 DEF OnlyAt
<1>26. QED
    BY <1>19, <1>24, <1>25 DEF Fine

\* add_incoming_output of an output that is in no index.
LEMMA AddIncomingFine ==
    ASSUME NEW s, IsDb(s.db), KiOk(s.db), Fine(s.db), NEW o \in Outputs, NEW h \in Heights,
           Free(s.db, o), NEW j \in BOOLEAN, NEW t, t = AddIncomingOutput(s, o, h, j)
    PROVE  Fine(t.db) /\ (j => OnlyAt(UnspentIn(t.db), o, h))
<1>1. CASE t = s
    BY <1>1, FreeUnspent
<1>2. CASE t = AddToLockIndex(s, o, h) /\ ~j
    BY <1>2, LockFine
<1>3. CASE t = TakePlace(s, o, h) /\ ~Spent(s.db, Ki[o])
    BY <1>3, TakePlaceFine
<1>4. \/ t = s
      \/ t = AddToLockIndex(s, o, h) /\ ~j
      \/ t = TakePlace(s, o, h) /\ ~Spent(s.db, Ki[o])
    BY DEF AddIncomingOutput
<1>5. QED
    BY <1>1, <1>2, <1>3, <1>4

\* unlock records the height at which the output is in the unspent index, if
\* it is there.
LEMMA RecordUnlocked ==
    ASSUME NEW w, IsDb(w.db), Fine(w.db), NEW o \in Outputs, NEW h, NEW now \in Heights,
           OnlyAt(UnspentIn(w.db), o, h), NEW t, t = PutWithUndo(w, <<"unlocked", now, o>>, h, TRUE)
    PROVE  Fine(t.db)
<1>1. PICK k \in Keys : k = <<"unlocked", now, o>> /\ k[1] # "balance"
    BY KeyFacts, KeyNames
<1>2. Sets(w, t, k, h)
    BY <1>1, PutNew, Zenon
<1>3. Moves(w, t, k, h)
    BY <1>2, SetsMoves
<1>4. Unmoved(w, t, k) /\ t.db[k] = h
    BY <1>3, MovesNot, Zenon DEF Moves
<1>5. Unmoved(w, t, <<"unlocked", now, o>>)
    BY <1>1, <1>4, Zenon
<1>6. SameKeyImages(w.db, t.db)
    BY <1>5, KeysApart, Zenon DEF Unmoved, SameKeyImages
<1>7. \A g \in Heights, p \in Outputs : t.db[<<"unspent", g, p>>] = w.db[<<"unspent", g, p>>]
    BY <1>5, KeysApart, Zenon DEF Unmoved
<1>8. UnspentIn(t.db) = UnspentIn(w.db)
    BY <1>7, UnspentSame
<1>9. Balanced(t.db)
    <2>1. \A a \in Owners : BalanceOf(t.db, a) = BalanceOf(w.db, a)
        BY <1>1, <1>2, SetsBalances
    <2>2. QED
        BY <1>8, <2>1, BalancedSame DEF Fine
<1>10. PICK S \in SUBSET Places : S = UnspentIn(w.db)
    BY UnspentPlaces
<1>11. ASSUME NEW x \in S, NEW g \in Heights, t.db[<<"unlocked", g, x[2]>>] # Absent
       PROVE  t.db[<<"unlocked", g, x[2]>>] = x[1]
    <2>1. x[2] \in Outputs
        BY PlaceFields
    <2>2. CASE x[2] = o
        <3>1. x = <<h, o>>
            BY <1>10, <2>2, Zenon DEF OnlyAt
        <3>2. x[1] = h
            BY <3>1
        <3>3. CASE g = now
            BY <1>1, <1>4, <2>2, <3>2, <3>3, Zenon
        <3>4. CASE g # now
            <4>1. <<"unlocked", g, o>> # k
                BY <1>1, <3>4
            <4>2. t.db[<<"unlocked", g, o>>] = w.db[<<"unlocked", g, o>>]
                BY <1>4, <4>1, Zenon DEF Unmoved
            <4>3. QED
                BY <1>10, <1>11, <2>2, <4>2, Zenon DEF Fine, Indexed, OneUnlock
        <3>5. QED
            BY <3>3, <3>4
    <2>3. CASE x[2] # o
        <3>1. t.db[<<"unlocked", g, x[2]>>] = w.db[<<"unlocked", g, x[2]>>]
            BY <1>5, <2>1, <2>3, KeysApart, Zenon DEF Unmoved
        <3>2. QED
            BY <1>10, <1>11, <3>1, Zenon DEF Fine, Indexed, OneUnlock
    <2>4. QED
        BY <2>2, <2>3
<1>12. OneUnlock(t.db, S)
    BY <1>11, Zenon DEF OneUnlock
<1>13. OwnKeyImage(t.db)
    BY <1>6, OwnKeyImageSame DEF Fine, Indexed
<1>14. ByKeyImage(t.db, S)
    <2>1. PICK T \in SUBSET S : T = S
        OBVIOUS
    <2>2. ByKeyImage(w.db, S)
        BY <1>10 DEF Fine, Indexed
    <2>3. QED
        BY <1>6, <2>1, <2>2, ByKeyImageSame
<1>15. QED
    BY <1>8, <1>9, <1>10, <1>12, <1>13, <1>14 DEF Fine, Indexed

LEMMA UnlockFine ==
    ASSUME NEW s, IsDb(s.db), KiOk(s.db), Fine(s.db), NEW o \in Locked(s.db), LockOk(s.db, o),
           NEW now \in Heights, NEW t, t = UnlockOutput(s, o, now)
    PROVE  Fine(t.db)
<1>1. o \in Outputs /\ s.db[<<"locked", o>>] # Absent
    BY DEF Locked
<1>2. PICK h \in Heights : h = s.db[<<"locked", o>>]
    BY <1>1, Zenon DEF LockOk
<1>3. Free(s.db, o)
    BY <1>1, Zenon DEF LockOk
<1>4. PICK u : u = RemoveFromLockIndex(s, o)
    OBVIOUS
<1>5. PICK j \in BOOLEAN : j = TRUE
    OBVIOUS
<1>6. PICK w : w = AddIncomingOutput(u, o, h, j)
    OBVIOUS
<1>7. t = PutWithUndo(w, <<"unlocked", now, o>>, h, TRUE)
    BY <1>2, <1>4, <1>5, <1>6 DEF UnlockOutput
<1>8. Moves(s, u, <<"locked", o>>, Absent)
    BY <1>1, <1>4, RemoveLock, Zenon
<1>9. Within(s.db, u.db, {o}) /\ u.db[<<"locked", o>>] = Absent /\ SameIndices(s.db, u.db)
    BY <1>1, <1>8, MovesLocked, Zenon
<1>10. IsDb(u.db) /\ KiOk(u.db) /\ Fresh(u.db, o)
    BY <1>1, <1>3, <1>8, <1>9, WithinKi, Zenon DEF Moves, Fresh, Free, SameIndices
<1>11. Fine(u.db)
    BY <1>1, <1>4, LockFine
<1>12. IsDb(w.db)
    BY <1>1, <1>6, <1>10, AddIncomingOkay DEF Okay
<1>13. Fine(w.db) /\ OnlyAt(UnspentIn(w.db), o, h)
    <2>1. Free(u.db, o)
        BY <1>10 DEF Fresh
    <2>2. QED
        BY <1>1, <1>5, <1>6, <1>10, <1>11, <2>1, AddIncomingFine
<1>14. QED
    BY <1>1, <1>7, <1>12, <1>13, RecordUnlocked

LEMMA SpendFine ==
    ASSUME NEW s, IsDb(s.db), KiOk(s.db), Fine(s.db), NEW k \in KeyImages, NEW t, t = SpendKeyImage(s, k)
    PROVE  Fine(t.db)
<1>1. CASE StandingUnspent(s.db, k)
    <2>1. t = RemoveFromUnspentIndex(s, Standing(s.db, k)[2], Standing(s.db, k)[1])
        BY <1>1, Zenon DEF SpendKeyImage
    <2>2. QED
        BY <1>1, <2>1, RemoveStandingFine
<1>2. CASE ~StandingUnspent(s.db, k)
    <2>1. t = s
        BY <1>2, Zenon DEF SpendKeyImage
    <2>2. QED
        BY <2>1
<1>3. QED
    BY <1>1, <1>2

LEMMA RecordTxFine ==
    ASSUME NEW s, IsDb(s.db), Fine(s.db), NEW u \in Txs, NEW h, NEW t, t = PutWithUndo(s, <<"tx", u>>, h, TRUE)
    PROVE  Fine(t.db)
<1>1. PICK k \in Keys : k = <<"tx", u>> /\ k[1] # "balance"
    BY KeyFacts, KeyNames
<1>2. Sets(s, t, k, h)
    BY <1>1, PutNew, Zenon
<1>3. Moves(s, t, k, h)
    BY <1>2, SetsMoves
<1>4. Unmoved(s, t, <<"tx", u>>)
    BY <1>1, <1>3, MovesNot, Zenon
<1>5. SameKeyImages(s.db, t.db)
    BY <1>4, KeysApart, Zenon DEF Unmoved, SameKeyImages
<1>6. SameUnlocked(s.db, t.db)
    BY <1>4, KeysApart, Zenon DEF Unmoved, SameUnlocked
<1>7. \A g \in Heights, p \in Outputs : t.db[<<"unspent", g, p>>] = s.db[<<"unspent", g, p>>]
    BY <1>4, KeysApart, Zenon DEF Unmoved
<1>8. UnspentIn(t.db) = UnspentIn(s.db)
    BY <1>7, UnspentSame
<1>9. \A a \in Owners : BalanceOf(t.db, a) = BalanceOf(s.db, a)
    BY <1>1, <1>2, SetsBalances
<1>10. Balanced(t.db)
    BY <1>8, <1>9, BalancedSame DEF Fine
<1>11. Indexed(t.db)
    BY <1>5, <1>6, <1>8, IndexedSame DEF Fine
<1>12. QED
    BY <1>10, <1>11 DEF Fine

LEMMA BlankFine == Fine(Blank)
<1>1. \A k \in Keys : Blank[k] = Absent
    BY DEF Blank
<1>2. ASSUME NEW x \in Places PROVE Blank[<<"unspent", x[1], x[2]>>] = Absent
    BY <1>1, PlaceFields, KeyFacts, Zenon
<1>3. UnspentIn(Blank) = {}
    BY <1>2 DEF UnspentIn
<1>4. \A a \in Owners : BalanceOf(Blank, a) = Zero
    BY <1>1, BalanceKeys, Zenon DEF BalanceOf
<1>5. \A a \in Owners : Owned({}, a) = {}
    BY DEF Owned
<1>6. Kept(Blank)
    BY <1>4, ZeroFields DEF Kept
<1>7. Balanced(Blank)
    BY <1>3, <1>4, <1>5, <1>6, ZeroFields, TotalEmpty DEF Balanced
<1>8. \A k \in KeyImages : Blank[<<"keyimage", k>>] = Absent
    BY <1>1, KeyFacts, Zenon
<1>9. OwnKeyImage(Blank)
    BY <1>8, Zenon DEF OwnKeyImage, KnownKeyImage
<1>10. Indexed(Blank)
    BY <1>3, <1>9 DEF Indexed, ByKeyImage, OneUnlock
<1>11. QED
    BY <1>7, <1>10 DEF Fine

-----------------------------------------------------------------------------
\* The invariant: the tables are fine now, before the block at hand, before
\* every block of the chain and on disk, and so they are after any undo.
AllFine(ch) == \A i \in 1..Len(ch) : Fine(ch[i].before)
OnDiskFine == Fine(disk.db) /\ AllFine(disk.chain)
Fair == Fine(db) /\ Fine(Base) /\ AllFine(chain) /\ OnDiskFine

LEMMA FixEmptyFine ==
    ASSUME NEW ch, NEW d, AllFine(ch), Fine(d)
    PROVE  AllFine(FixEmpty(ch, d))
<1>1. CASE ch = <<>>
    <2>1. PICK e : e = [block |-> Genesis, undo |-> NoUndo, before |-> d]
        OBVIOUS
    <2>2. e.before = d /\ FixEmpty(ch, d) = <<e>>
        BY <1>1, <2>1 DEF FixEmpty
    <2>3. Len(<<e>>) = 1 /\ <<e>>[1] = e
        OBVIOUS
    <2>4. \A i \in 1..1 : i = 1
        OBVIOUS
    <2>5. QED
        BY <2>2, <2>3, <2>4 DEF AllFine
<1>2. CASE ch # <<>>
    BY <1>2 DEF FixEmpty
<1>3. QED
    BY <1>1, <1>2

\* A call in the middle of a block, and a step that ends outside of one.
LEMMA FairCall ==
    ASSUME Inv, Fair, Keeps(Now, [db |-> db', cur |-> cur']), Fine(db'), UNCHANGED <<chain, disk>>
    PROVE  Fair'
<1>1. Base' = Base
    BY DEF Inv, Tables, Keeps, Now, Base
<1>2. QED
    BY <1>1 DEF Fair, OnDiskFine

LEMMA FairOutside ==
    ASSUME cur' = NoUndo, IsDb(db'), Fine(db'), AllFine(chain'), OnDiskFine'
    PROVE  Fair'
<1>1. Base' = db'
    BY RestoreNothing DEF Base
<1>2. QED
    BY <1>1 DEF Fair

LEMMA StaysFair ==
    ASSUME Fair, UNCHANGED <<tables, chain, disk>>
    PROVE  Fair'
<1>1. UNCHANGED <<db, cur, chain, disk>>
    BY DEF tables
<1>2. QED
    BY <1>1 DEF Fair, OnDiskFine, Base

LEMMA AddOutputFair ==
    ASSUME Inv, Sound, Fair, AddOutput
    PROVE  Fair'
<1>1. /\ Running("outputs") /\ UNCHANGED <<chain, disk>>
      /\ \/ UNCHANGED tables
         \/ \E x \in Arg : Set(AddIncomingOutput(Now, x[2], At, FALSE))
    BY DEF AddOutput
<1>2. AtCall("outputs")
    BY <1>1, AtCallFacts, Middle
<1>3. PICK q, b : q = calls[1] /\ b = answer[1]
    OBVIOUS
<1>4. /\ q[1] = "outputs" /\ q[2] = Arg /\ b \in Blocks /\ CallOk(q, db, TxSet(b))
      /\ IsDb(db) /\ KiOk(db) /\ At \in Heights
    BY <1>2, <1>3, Zenon DEF AtCall, Arg
<1>5. CASE UNCHANGED tables
    BY <1>1, <1>5, StaysFair
<1>6. ASSUME NEW x \in q[2], Set(AddIncomingOutput(Now, x[2], At, FALSE)) PROVE Fair'
    <2>1. PICK s, o, t : s = Now /\ o = x[2] /\ t = AddIncomingOutput(Now, x[2], At, FALSE)
        OBVIOUS
    <2>2. s.db = db
        BY <2>1 DEF Now
    <2>3. Fresh(db, o) /\ \E u \in TxSet(b) : o \in MyOuts(u)
        BY <1>4, <2>1 DEF CallOk
    <2>4. o \in Outputs
        BY <1>4, <2>3, BlockFacts, OutsFacts
    <2>5. PICK j \in BOOLEAN : j = FALSE
        OBVIOUS
    <2>6. Fine(t.db)
        <3>1. IsDb(s.db) /\ KiOk(s.db) /\ Fine(s.db) /\ Free(s.db, o)
            BY <1>4, <2>2, <2>3 DEF Fair, Fresh
        <3>2. t = AddIncomingOutput(s, o, At, j)
            BY <2>1, <2>5
        <3>3. QED
            BY <1>4, <2>4, <3>1, <3>2, AddIncomingFine
    <2>7. db' = t.db
        BY <1>6, <2>1 DEF Set
    <2>8. Keeps(Now, [db |-> db', cur |-> cur'])
        BY <1>6, AddIncomingOutputKeeps, SetKeeps
    <2>9. QED
        BY <1>1, <2>6, <2>7, <2>8, FairCall
<1>7. QED
    BY <1>1, <1>4, <1>5, <1>6, Zenon

LEMMA UnlockNextFair ==
    ASSUME Inv, Sound, Fair, UnlockNext
    PROVE  Fair'
<1>1. /\ Running("unlock") /\ UNCHANGED <<chain, disk>>
      /\ \/ UNCHANGED tables
         \/ \E o \in Arg : Set(UnlockOutput(Now, o, At))
    BY DEF UnlockNext
<1>2. AtCall("unlock")
    BY <1>1, AtCallFacts, Middle
<1>3. PICK q, b, S : q = calls[1] /\ b = answer[1] /\ S = Arg
    OBVIOUS
<1>4. /\ q[1] = "unlock" /\ q[2] = S /\ CallOk(q, db, TxSet(b)) /\ Good(db, Upto(b))
      /\ IsDb(db) /\ KiOk(db) /\ At \in Heights
    BY <1>2, <1>3, Zenon DEF AtCall, Arg
<1>5. CASE UNCHANGED tables
    BY <1>1, <1>5, StaysFair
<1>6. ASSUME NEW o \in S, Set(UnlockOutput(Now, o, At)) PROVE Fair'
    <2>1. PICK s, t : s = Now /\ t = UnlockOutput(Now, o, At)
        OBVIOUS
    <2>2. s.db = db
        BY <2>1 DEF Now
    <2>3. o \in Outputs /\ o \in Locked(db)
        BY <1>4 DEF CallOk, Locked
    <2>4. LockOk(db, o)
        BY <1>4, <2>3 DEF Good
    <2>5. Fine(t.db)
        <3>1. IsDb(s.db) /\ KiOk(s.db) /\ Fine(s.db) /\ o \in Locked(s.db) /\ LockOk(s.db, o)
            BY <1>4, <2>2, <2>3, <2>4 DEF Fair
        <3>2. t = UnlockOutput(s, o, At)
            BY <2>1
        <3>3. QED
            BY <1>4, <3>1, <3>2, UnlockFine
    <2>6. db' = t.db
        BY <1>6, <2>1 DEF Set
    <2>7. Keeps(Now, [db |-> db', cur |-> cur'])
        BY <1>6, UnlockOutputKeeps, SetKeeps
    <2>8. QED
        BY <1>1, <2>5, <2>6, <2>7, FairCall
<1>7. QED
    BY <1>1, <1>3, <1>5, <1>6, Zenon

LEMMA SpendFair ==
    ASSUME Inv, Sound, Fair, Spend
    PROVE  Fair'
<1>1. Running("spend") /\ UNCHANGED <<chain, disk>> /\ Set(SpendKeyImage(Now, Arg))
    BY DEF Spend
<1>2. AtCall("spend")
    BY <1>1, AtCallFacts, Middle
<1>3. PICK q, b, k : q = calls[1] /\ b = answer[1] /\ k = Arg
    OBVIOUS
<1>4. q[1] = "spend" /\ q[2] = k /\ CallOk(q, db, TxSet(b)) /\ IsDb(db) /\ KiOk(db)
    BY <1>2, <1>3, Zenon DEF AtCall, Arg
<1>5. PICK s, t : s = Now /\ t = SpendKeyImage(Now, k)
    OBVIOUS
<1>6. k \in KeyImages
    BY <1>4 DEF CallOk
<1>7. Fine(t.db)
    <2>1. IsDb(s.db) /\ KiOk(s.db) /\ Fine(s.db)
        BY <1>4, <1>5 DEF Now, Fair
    <2>2. t = SpendKeyImage(s, k)
        BY <1>5
    <2>3. QED
        BY <1>6, <2>1, <2>2, SpendFine
<1>8. db' = t.db
    BY <1>1, <1>3, <1>5 DEF Set
<1>9. Keeps(Now, [db |-> db', cur |-> cur'])
    BY <1>1, SpendKeyImageKeeps, SetKeeps
<1>10. QED
    BY <1>1, <1>7, <1>8, <1>9, FairCall

LEMMA AddTransactionFair ==
    ASSUME Inv, Sound, Fair, AddTransaction
    PROVE  Fair'
<1>1. Running("tx") /\ UNCHANGED <<chain, disk>> /\ Set(PutWithUndo(Now, <<"tx", Arg>>, At, TRUE))
    BY DEF AddTransaction
<1>2. AtCall("tx")
    BY <1>1, AtCallFacts, Middle
<1>3. PICK q, b, u : q = calls[1] /\ b = answer[1] /\ u = Arg
    OBVIOUS
<1>4. q[1] = "tx" /\ q[2] = u /\ b \in Blocks /\ CallOk(q, db, TxSet(b)) /\ IsDb(db)
    BY <1>2, <1>3, Zenon DEF AtCall, Arg
<1>5. PICK s, t : s = Now /\ t = PutWithUndo(s, <<"tx", u>>, At, TRUE)
    OBVIOUS
<1>6. u \in Txs
    BY <1>4, BlockFacts DEF CallOk
<1>7. IsDb(s.db) /\ Fine(s.db)
    BY <1>4, <1>5 DEF Now, Fair
<1>8. Fine(t.db)
    BY <1>5, <1>6, <1>7, RecordTxFine
<1>9. db' = t.db
    BY <1>1, <1>3, <1>5 DEF Set
<1>10. Keeps(Now, [db |-> db', cur |-> cur'])
    BY <1>1, PutKeeps, SetKeeps
<1>11. QED
    BY <1>1, <1>8, <1>9, <1>10, FairCall

LEMMA PushChainFair ==
    ASSUME Inv, Sound, Fair, PushChain
    PROVE  Fair'
<1>1. chain' = Pushed(answer[1]) /\ cur' = NoUndo /\ UNCHANGED <<db, disk>>
    BY DEF PushChain
<1>2. PICK e : e = [block |-> answer[1], undo |-> cur, before |-> Base]
    OBVIOUS
<1>3. chain' = chain \o <<e>> /\ e.before = Base
    BY <1>1, <1>2 DEF Pushed, Base
<1>4. PICK S : chain \in Seq(S)
    BY DEF Inv, Tables, Exact, IsSeq
<1>5. Len(chain) \in Nat
    BY <1>4
<1>6. Len(chain') = Len(chain) + 1 /\ chain'[Len(chain) + 1] = e /\ \A i \in 1..Len(chain) : chain'[i] = chain[i]
    <2>1. chain \in Seq(S \cup {e}) /\ <<e>> \in Seq(S \cup {e}) /\ Len(<<e>>) = 1
        BY <1>4
    <2>2. PICK c : c = chain \o <<e>>
        OBVIOUS
    <2>3. Len(c) = Len(chain) + 1 /\ c[Len(chain) + 1] = e /\ \A i \in 1..Len(chain) : c[i] = chain[i]
        BY <2>1, <2>2
    <2>4. QED
        BY <1>3, <2>2, <2>3
<1>7. Fine(Base) /\ AllFine(chain)
    BY DEF Fair
<1>8. ASSUME NEW i \in 1..Len(chain') PROVE Fine(chain'[i].before)
    <2>1. i \in 1..Len(chain) \/ i = Len(chain) + 1
        BY <1>5, <1>6
    <2>2. QED
        BY <1>3, <1>6, <1>7, <2>1 DEF AllFine
<1>9. AllFine(chain')
    BY <1>8 DEF AllFine
<1>10. IsDb(db') /\ Fine(db') /\ OnDiskFine'
    BY <1>1 DEF Inv, Tables, Fair, OnDiskFine
<1>11. QED
    BY <1>1, <1>9, <1>10, FairOutside

LEMMA PopFair ==
    ASSUME Inv, Sound, Fair, NEW op \in Loops, Running(op), chain # <<>>, PopChain, UNCHANGED disk
    PROVE  Fair'
<1>1. Len(calls) <= 1
    BY LoopAlone
<1>2. cur = NoUndo /\ IsSeq(chain) /\ Exact(chain, db)
    BY <1>1, LoopTables, AtLoop
<1>3. /\ db' = Restore(db, chain[Len(chain)].undo) /\ chain' = SubSeq(chain, 1, Len(chain) - 1)
      /\ cur' = cur
    BY DEF PopChain
<1>4. db' = chain[Len(chain)].before
    BY <1>2, <1>3, PopExact
<1>5. PICK S : chain \in Seq(S)
    BY <1>2 DEF IsSeq
<1>6. PICK n \in Nat : n = Len(chain) - 1 /\ Len(chain) = n + 1
    BY <1>5
<1>7. Len(chain') = n /\ \A i \in 1..n : chain'[i] = chain[i]
    BY <1>3, <1>5, <1>6
<1>8. AllFine(chain)
    BY DEF Fair
<1>9. AllFine(chain') /\ Fine(db')
    <2>1. n + 1 \in 1..Len(chain) /\ \A i \in 1..n : i \in 1..Len(chain)
        BY <1>6
    <2>2. QED
        BY <1>4, <1>6, <1>7, <1>8, <2>1 DEF AllFine
<1>10. IsDb(db')
    BY <1>3, RestoreIsDb
<1>11. OnDiskFine' /\ cur' = NoUndo
    BY <1>2, <1>3 DEF Fair, OnDiskFine
<1>12. QED
    BY <1>9, <1>10, <1>11, FairOutside

LEMMA RescanEndsFair ==
    ASSUME Inv, Sound, Fair, RescanEnds
    PROVE  Fair'
<1>1. /\ Running("rescan") /\ chain' = FixEmpty(chain, db) /\ disk' = [db |-> db, chain |-> chain']
      /\ UNCHANGED <<db, cur>>
    BY DEF RescanEnds, tables
<1>2. Len(calls) <= 1
    BY <1>1, LoopAlone DEF Loops
<1>3. cur = NoUndo /\ IsDb(db)
    BY <1>2, LoopTables
<1>4. AllFine(chain')
    BY <1>1, FixEmptyFine DEF Fair
<1>5. disk'.db = db /\ disk'.chain = chain' /\ Fine(db)
    BY <1>1 DEF Fair
<1>6. OnDiskFine'
    BY <1>4, <1>5 DEF OnDiskFine
<1>7. QED
    BY <1>1, <1>3, <1>4, <1>5, <1>6, FairOutside

LEMMA DbCommitFair ==
    ASSUME Fair, DbCommit
    PROVE  Fair'
<1>1. disk' = [db |-> db, chain |-> chain] /\ UNCHANGED <<db, cur, chain>>
    BY DEF DbCommit, tables
<1>2. disk'.db = db /\ disk'.chain = chain /\ Base' = Base
    BY <1>1 DEF Base
<1>3. QED
    BY <1>1, <1>2 DEF Fair, OnDiskFine

LEMMA RestartFair ==
    ASSUME Inv, Fair, Restart
    PROVE  Fair'
<1>1. db' = disk.db /\ cur' = NoUndo /\ chain' = FixEmpty(disk.chain, disk.db) /\ disk' = disk
    BY DEF Restart
<1>2. IsDb(db') /\ Fine(db') /\ OnDiskFine' /\ AllFine(disk.chain) /\ Fine(disk.db)
    BY <1>1 DEF Inv, OnDisk, Fair, OnDiskFine
<1>3. AllFine(chain')
    BY <1>1, <1>2, FixEmptyFine
<1>4. QED
    BY <1>1, <1>2, <1>3, FairOutside

LEMMA FairInit == Init => Fair
<1> SUFFICES ASSUME Init PROVE Fair
    OBVIOUS
<1>1. db = Blank /\ cur = NoUndo /\ chain = FixEmpty(<<>>, Blank) /\ disk = [db |-> Blank, chain |-> <<>>]
    BY DEF Init
<1>2. IsDb(Blank)
    BY DEF IsDb, Blank
<1>3. Base = db /\ Fine(db)
    BY <1>1, <1>2, RestoreNothing, BlankFine DEF Base
<1>4. AllFine(<<>>)
    <2>1. 1..Len(<<>>) = {}
        OBVIOUS
    <2>2. QED
        BY <2>1 DEF AllFine
<1>5. AllFine(chain)
    BY <1>1, <1>4, FixEmptyFine, BlankFine
<1>6. disk.db = Blank /\ disk.chain = <<>>
    BY <1>1
<1>7. QED
    BY <1>3, <1>4, <1>5, <1>6, BlankFine DEF Fair, OnDiskFine

LEMMA FairStep ==
    ASSUME Inv, Sound, Fair, [Next]_vars
    PROVE  Fair'
<1>1. CASE RedoTransaction \/ AddKeyImage \/ UnlockBlock
    BY <1>1, StaysFair DEF RedoTransaction, AddKeyImage, UnlockBlock
<1>2. CASE Redo
    BY <1>1, <1>2, AddOutputFair, UnlockNextFair, SpendFair, AddTransactionFair, PushChainFair DEF Redo
<1>3. CASE UndoBlock
    BY <1>3, PopFair DEF UndoBlock, Loops
<1>4. CASE RescanBlock
    BY <1>4, PopFair DEF RescanBlock, Loops
<1>5. CASE StartRedo \/ RedoBlock \/ SyncEnds
    BY <1>5, StaysFair DEF StartRedo, RedoBlock, SyncEnds
<1>6. ASSUME NEW s \in Answers, SyncBlocks(s) PROVE Fair'
    BY <1>6, StaysFair DEF SyncBlocks
<1>7. ASSUME NEW h \in Heights, WalletAddressesUpdated(h) PROVE Fair'
    BY <1>7, StaysFair DEF WalletAddressesUpdated
<1>8. ASSUME NEW t \in Txs, PoolAdds(t) \/ PoolRemoves(t) \/ AddToPaymentQueue(t) PROVE Fair'
    BY <1>8, StaysFair DEF PoolAdds, PoolRemoves, AddToPaymentQueue
<1>9. ASSUME NEW t \in Txs, NEW h \in Heights, ProcessPaymentQueueSendError(t, h) PROVE Fair'
    BY <1>9, StaysFair DEF ProcessPaymentQueueSendError
<1>10. CASE UNCHANGED vars
    BY <1>10, StaysFair DEF vars
<1>11. QED
    BY <1>2, <1>3, <1>4, <1>5, <1>6, <1>7, <1>8, <1>9, <1>10, RescanEndsFair, DbCommitFair, RestartFair DEF Next

\* The memory state and the files of the queue hold transactions.
Mine == memTx \subseteq Txs /\ files \subseteq Txs

LEMMA MemType ==
    ASSUME Mine, NEW ts \in SUBSET Txs, NEW d
    PROVE  MemAdd(ts, d).tx \subseteq Txs /\ \A m, us : m.tx \subseteq Txs => MemUndo(m, us).tx \subseteq Txs
<1>1. MemAdd(ts, d).tx = memTx \cup {t \in ts \ memTx : Ours(d, t)}
    BY DEF MemAdd
<1>2. \A m, us : MemUndo(m, us).tx = m.tx \ us
    BY DEF MemUndo
<1>3. QED
    BY <1>1, <1>2 DEF Mine

LEMMA FixedMine ==
    ASSUME Mine, NEW ch, NEW d, FixPaymentQueue(ch, d)
    PROVE  Mine'
<1>1. PICK R, A : R \subseteq Txs /\ Fixed(ch, d).mem = MemUndo(MemAdd(R, d), A)
    <2>1. PICK R \in SUBSET Txs : R = {t \in Txs : queue[t] > 0 /\ ~Has(d, t)}
        OBVIOUS
    <2>2. Fixed(ch, d).mem = MemUndo(MemAdd(R, d), {t \in Txs : queue[t] = 0 /\ Has(d, t)} \ pool)
        BY <2>1 DEF Fixed
    <2>3. QED
        BY <2>2
<1>2. memTx' = Fixed(ch, d).mem.tx
    BY DEF FixPaymentQueue, SetMem
<1>3. memTx' \subseteq Txs
    BY <1>1, <1>2, MemType
<1>4. files' \subseteq files
    BY DEF FixPaymentQueue, Fixed
<1>5. QED
    BY <1>3, <1>4 DEF Mine

LEMMA MineStep ==
    ASSUME Mine, [Next]_vars
    PROVE  Mine'
<1>1. \A t \in Txs : {t} \in SUBSET Txs
    OBVIOUS
<1>2. Mem.tx = memTx
    BY DEF Mem
<1>3. CASE RedoTransaction
    <2>1. PICK t : SetMem(MemUndo(Mem, {t})) /\ files' = files
        BY <1>3 DEF RedoTransaction
    <2>2. memTx' = MemUndo(Mem, {t}).tx
        BY <2>1 DEF SetMem
    <2>3. QED
        BY <1>2, <2>1, <2>2 DEF Mine, MemUndo
<1>4. CASE Redo /\ ~RedoTransaction
    BY <1>4 DEF Redo, AddOutput, AddKeyImage, UnlockNext, Spend, AddTransaction, UnlockBlock, PushChain, memory, Mine
<1>5. CASE UndoBlock \/ StartRedo \/ RedoBlock \/ RescanBlock
    BY <1>5 DEF UndoBlock, StartRedo, RedoBlock, RescanBlock, memory, Mine
<1>6. CASE SyncEnds
    BY <1>6, FixedMine DEF SyncEnds
<1>7. CASE RescanEnds
    BY <1>7, FixedMine DEF RescanEnds
<1>8. ASSUME NEW s \in Answers, SyncBlocks(s) PROVE Mine'
    BY <1>8 DEF SyncBlocks, memory, Mine
<1>9. ASSUME NEW h \in Heights, WalletAddressesUpdated(h) PROVE Mine'
    BY <1>9 DEF WalletAddressesUpdated, memory, Mine
<1>10. ASSUME NEW t \in Txs, PoolAdds(t) PROVE Mine'
    <2>1. memTx' = MemAdd({t}, db).tx /\ files' = files
        BY <1>10 DEF PoolAdds, SetMem
    <2>2. QED
        BY <1>1, <2>1, MemType DEF Mine
<1>11. ASSUME NEW t \in Txs, PoolRemoves(t) PROVE Mine'
    <2>1. (memTx' = memTx \/ memTx' = MemUndo(Mem, {t}).tx) /\ files' = files
        BY <1>2, <1>11 DEF PoolRemoves, SetMem
    <2>2. QED
        BY <1>2, <2>1 DEF Mine, MemUndo
<1>12. ASSUME NEW t \in Txs, AddToPaymentQueue(t) PROVE Mine'
    <2>1. (memTx' = memTx \/ memTx' = MemAdd({t}, db).tx) /\ files' = files \cup {t}
        BY <1>12 DEF AddToPaymentQueue, SetMem
    <2>2. memTx' \subseteq Txs
        BY <1>1, <2>1, MemType DEF Mine
    <2>3. QED
        BY <2>1, <2>2 DEF Mine
<1>13. ASSUME NEW t \in Txs, NEW h \in Heights, ProcessPaymentQueueSendError(t, h) PROVE Mine'
    <2>1. (memTx' = memTx \/ memTx' = MemUndo(Mem, {t}).tx) /\ files' = files \ {t}
        BY <1>2, <1>13 DEF ProcessPaymentQueueSendError, SetMem
    <2>2. QED
        BY <1>2, <2>1 DEF Mine, MemUndo
<1>14. CASE DbCommit
    BY <1>14 DEF DbCommit, memory, Mine
<1>15. CASE Restart
    <2>1. memTx' \subseteq files /\ files' = files
        BY <1>15 DEF Restart
    <2>2. QED
        BY <2>1 DEF Mine
<1>16. CASE UNCHANGED vars
    BY <1>16 DEF vars, memory, Mine
<1>17. QED
    BY <1>3, <1>4, <1>5, <1>6, <1>7, <1>8, <1>9, <1>10, <1>11, <1>12, <1>13, <1>14, <1>15, <1>16 DEF Next

\* With fine tables, the three indices take out of the balance just what is
\* not offered.
LEMMA SpentInMemory ==
    ASSUME Fine(db), Mine, NEW x \in UnspentIn(db)
    PROVE  MemorySpent(x[2]) <=>
               \E t \in memTx : \E k \in Ins[t] : KnownKeyImage(db, k) /\ Standing(db, k) = x
<1>1. x \in Places
    BY UnspentPlaces
<1>2. PICK q \in KeyImages : q = Ki[x[2]]
    BY <1>1, PlaceFields
<1>3. ASSUME NEW t \in memTx, q \in Ins[t] PROVE KnownKeyImage(db, q) /\ Standing(db, q) = x
    <2>1. q # NoKeyImage
        BY <1>3, ValueAssumption DEF ValueAssumption, Mine
    <2>2. db[<<"keyimage", q>>] = x
        BY <1>2, <2>1, Zenon DEF Fine, Indexed, ByKeyImage
    <2>3. QED
        BY <1>1, <2>1, <2>2, NotAbsent, Zenon DEF KnownKeyImage, Standing
<1>4. ASSUME NEW t \in memTx, NEW k \in Ins[t], KnownKeyImage(db, k), Standing(db, k) = x PROVE k = q
    <2>1. k \in KeyImages
        BY DEF Mine, KeyImages
    <2>2. Ki[Standing(db, k)[2]] = k
        BY <1>4, <2>1, Zenon DEF Fine, Indexed, OwnKeyImage
    <2>3. QED
        BY <1>2, <1>4, <2>2, Zenon
<1>5. QED
    BY <1>2, <1>3, <1>4, Zenon DEF MemorySpent

LEMMA UnlockedAbove ==
    ASSUME Fine(db), NEW x \in UnspentIn(db), NEW h
    PROVE  x[2] \in RecentlyUnlocked(h) <=> \E g \in Heights : g > h /\ db[<<"unlocked", g, x[2]>>] = x[1]
<1>1. x \in Places
    BY UnspentPlaces
<1>2. x[1] \in Heights /\ x[2] \in Outputs
    BY <1>1, PlaceFields
<1>3. x[1] # Absent
    BY <1>2, ValueAssumption DEF ValueAssumption
<1>4. x[2] \in RecentlyUnlocked(h) <=> \E g \in Heights : g > h /\ db[<<"unlocked", g, x[2]>>] # Absent
    BY <1>2, Zenon DEF RecentlyUnlocked
<1>5. \A g \in Heights : db[<<"unlocked", g, x[2]>>] # Absent <=> db[<<"unlocked", g, x[2]>>] = x[1]
    BY <1>3, Zenon DEF Fine, Indexed, OneUnlock
<1>6. QED
    BY <1>4, <1>5, Zenon

NoOverlap(A, B, C, D) == A \cap B = {} /\ (A \cup B) \cap C = {} /\ (A \cup B \cup C) \cap D = {}

LEMMA FourParts ==
    ASSUME NEW A \in SUBSET Places, NEW B \in SUBSET Places, NEW C \in SUBSET Places, NEW D \in SUBSET Places,
           NoOverlap(A, B, C, D)
    PROVE  Total(A \cup B \cup C \cup D) - Total(A) - Total(B) - Total(C) = Total(D)
<1> USE DEF NoOverlap
<1>1. PICK E, F \in SUBSET Places : E = A \cup B /\ F = E \cup C
    OBVIOUS
<1>2. Total(E) = Total(A) + Total(B)
    BY <1>1, TotalTogether
<1>3. Total(F) = Total(E) + Total(C)
    BY <1>1, TotalTogether
<1>4. Total(F \cup D) = Total(F) + Total(D)
    BY <1>1, TotalTogether
<1>5. PICK a, b, c, d \in Nat : a = Total(A) /\ b = Total(B) /\ c = Total(C) /\ d = Total(D)
    BY TotalNat
<1>6. Total(F \cup D) = ((a + b) + c) + d
    BY <1>2, <1>3, <1>4, <1>5
<1>7. A \cup B \cup C \cup D = F \cup D
    BY <1>1
<1>8. Total(A \cup B \cup C \cup D) = ((a + b) + c) + d
    BY <1>6, <1>7, Zenon
<1>9. (((a + b) + c) + d) - a - b - c = d
    OBVIOUS
<1>10. QED
    BY <1>5, <1>8, <1>9, Zenon

LEMMA SpendableIs ==
    ASSUME Fine(db), Mine, NEW a \in Owners, NEW h \in Heights
    PROVE  Spendable(a, h) = Total(Offered(a, h))
<1>1. PICK S \in SUBSET Places : S = UnspentIn(db) /\ S = Unspent
    BY DEF UnspentIn, Unspent, Places
<1>2. PICK M \in SUBSET S : M = Owned(S, a)
    BY DEF Owned
<1>3. PICK W, R : W = {x \in S : MemorySpent(x[2])} /\ R = {x \in S : x[2] \in RecentlyUnlocked(h)}
    OBVIOUS
<1>4. PICK H : H = {x \in S : x[1] <= h}
    OBVIOUS
<1>5. \A x \in S : x[1] > h <=> x \notin H
    <2>1. Heights \subseteq Nat
        BY WalletAssumption DEF WalletAssumption, Heights
    <2>2. \A x \in S : x[1] \in Nat /\ h \in Nat
        BY <2>1, PlaceFields
    <2>3. QED
        BY <1>4, <2>2
<1>6. {x \in M : x[1] > h} = M \ H
    BY <1>5
<1>7. {x \in M : /\ x[1] <= h /\ ~MemorySpent(x[2])
                 /\ \E g \in Heights : g > h /\ db[<<"unlocked", g, x[2]>>] = x[1]} = ((M \cap H) \ W) \cap R
    <2>1. \A x \in S : x \in R <=> \E g \in Heights : g > h /\ db[<<"unlocked", g, x[2]>>] = x[1]
        BY <1>1, <1>3, UnlockedAbove, Zenon
    <2>2. \A x \in S : x \in W <=> MemorySpent(x[2])
        BY <1>3
    <2>3. \A x \in S : x \in H <=> x[1] <= h
        BY <1>4
    <2>4. QED
        BY <2>1, <2>2, <2>3, Zenon
<1>8. {x \in M : /\ x[1] <= h
                 /\ \E t \in memTx : \E k \in Ins[t] : KnownKeyImage(db, k) /\ Standing(db, k) = x} = M \cap H \cap W
    <2>1. \A x \in S : x \in W <=> \E t \in memTx : \E k \in Ins[t] : KnownKeyImage(db, k) /\ Standing(db, k) = x
        BY <1>1, <1>3, SpentInMemory, Zenon
    <2>2. \A x \in S : x \in H <=> x[1] <= h
        BY <1>4
    <2>3. QED
        BY <2>1, <2>2, Zenon
<1>9. Offered(a, h) = ((M \cap H) \ W) \ R
    <2>1. \A x \in S : /\ x \in R <=> x[2] \in RecentlyUnlocked(h)
                       /\ x \in W <=> MemorySpent(x[2])
                       /\ x \in H <=> x[1] <= h
                       /\ x \in M <=> (a # AllAddrs => Addr[x[2]] = a)
        BY <1>2, <1>3, <1>4 DEF Owned
    <2>2. Offered(a, h) = {x \in S : /\ x[1] <= h /\ (a # AllAddrs => Addr[x[2]] = a)
                                     /\ ~MemorySpent(x[2]) /\ x[2] \notin RecentlyUnlocked(h)}
        BY <1>1, Zenon DEF Offered
    <2>3. QED
        BY <2>1, <2>2, Zenon
<1>10. {x \in Unspent : a # AllAddrs => Addr[x[2]] = a} = M
    BY <1>1, <1>2, Zenon DEF Owned
<1>11. Spendable(a, h) = BalanceOf(db, a).spendable - Total(M \ H) - Total(((M \cap H) \ W) \cap R) - Total(M \cap H \cap W)
    BY <1>6, <1>7, <1>8, <1>10, Zenon DEF Spendable
<1>12. BalanceOf(db, a).spendable = Total(M)
    BY <1>1, <1>2 DEF Fine, Balanced
<1>13. PICK A, B, C, D \in SUBSET Places :
          A = M \ H /\ B = ((M \cap H) \ W) \cap R /\ C = M \cap H \cap W /\ D = ((M \cap H) \ W) \ R
    OBVIOUS
<1>14. NoOverlap(A, B, C, D) /\ A \cup B \cup C \cup D = M
    BY <1>13 DEF NoOverlap
<1>15. Total(A \cup B \cup C \cup D) - Total(A) - Total(B) - Total(C) = Total(D)
    BY <1>14, FourParts
<1>16. QED
    BY <1>9, <1>11, <1>12, <1>13, <1>14, <1>15

\* SpendableExact for any blocks, outputs, locks, key images, payments and
\* restarts: after every handler the spendable balance at any depth is the sum
\* of what api_add_unspent offers for it (WalletStateBasic.cpp get_balance).
THEOREM SpendableExactAlways == Spec => []SpendableExact
<1>1. Init => Inv /\ Sound /\ Fair /\ Mine
    <2>1. Init => Mine
        BY DEF Init, Mine
    <2>2. QED
        BY <2>1, InvInit, SoundInit, FairInit
<1>2. Inv /\ Sound /\ Fair /\ Mine /\ [Next]_vars => (Inv /\ Sound /\ Fair /\ Mine)'
    BY InvStep, SoundStep, FairStep, MineStep
<1>3. Fair /\ Mine => SpendableExact
    BY SpendableIs DEF Fair, SpendableExact, Owners
<1>4. QED
    BY <1>1, <1>2, <1>3, PTL DEF Spec
=============================================================================
