-------------------------- MODULE Downloader_proofs -------------------------
(***************************************************************************)
(* Proofs about Downloader for any clients, heights, window, limits and    *)
(* number of faults: the counters are those of the cells, and after every  *)
(* event somebody works at every cell.                                     *)
(***************************************************************************)
EXTENDS Downloader, FiniteSetTheorems, SequenceTheorems, TLAPS

CellType ==
    [bid : Nat, client : Clients \cup {NoClient},
     status : {"DOWNLOADING", "PREPARING", "PREPARED"}, protect : BOOLEAN]

\* The window and what is behind it.
WindowTypes ==
    /\ cells \in Seq(CellType) /\ Len(cells) <= Window
    /\ chain \in Seq(Nat) /\ has \subseteq Nat

\* The client that is asked for the chain is connected, as long as it is one.
ClientTypes ==
    /\ clients \subseteq Clients /\ downloading \in [Clients -> Int]
    /\ chainClient \in clients \cup {NoClient}
    /\ requestSent => chainClient \in clients

\* A block that is being prepared is with a thread or already done.
WithThreads ==
    /\ work \in [Bids -> Nat]
    /\ \A i \in 1..Len(cells) :
          cells[i].status = "PREPARING" =>
              cells[i].bid \in Bids /\ (work[cells[i].bid] > 0 \/ cells[i].bid \in prepared)

\* advance_chain runs at once when it is called, after the window was filled
\* or the chain was given up.
Frames == {"advance", "advance_chain", "assign"}
Calls(x) == \E i \in 1..Len(stack) : stack[i] = x
Nested ==
    /\ stack \in Seq(Frames)
    /\ \A i \in 2..Len(stack) : stack[i] # "advance_chain"
    /\ Calls("advance_chain") /\ cells = <<>> => chain = <<>>

\* What is still to be assigned or asked for will be by a call.
ToAssign == ~importing => Waiting = {} \/ total >= MaxBlocks \/ Calls("advance") \/ Calls("assign")
ToAsk ==
    ~importing /\ cells = <<>> /\ Worth # {} =>
        requestSent \/ Calls("advance") \/ Calls("advance_chain")

BookInv == WindowTypes /\ ClientTypes /\ CountersAgree
CallInv == WithThreads /\ Nested /\ ToAssign /\ ToAsk
Inv == BookInv /\ CallInv

-----------------------------------------------------------------------------
\* The sets of cells that the counters count.
LEMMA SetsFinite ==
    ASSUME NEW s \in Seq(CellType)
    PROVE  /\ IsFiniteSet(Taken(s)) /\ Cardinality(Taken(s)) \in Nat
           /\ \A c : IsFiniteSet(With(s, c)) /\ Cardinality(With(s, c)) \in Nat
<1>1. IsFiniteSet(1..Len(s))
    BY FS_Interval
<1>2. Taken(s) \in SUBSET (1..Len(s)) /\ \A c : With(s, c) \in SUBSET (1..Len(s))
    BY DEF Taken, With
<1>3. IsFiniteSet(Taken(s)) /\ \A c : IsFiniteSet(With(s, c))
    BY <1>1, <1>2, FS_Subset
<1>4. QED
    BY <1>3, FS_CardinalityType

\* A client's cells are taken.
LEMMA WithTaken ==
    ASSUME NEW s, NEW c \in Clients
    PROVE  With(s, c) \subseteq Taken(s)
BY DownloadAssumption DEF With, Taken, DownloadAssumption

\* A part of a finite set is given back.
LEMMA Given ==
    ASSUME NEW S, IsFiniteSet(S), NEW T, T \subseteq S
    PROVE  Cardinality(S \ T) = Cardinality(S) - Cardinality(T)
<1>1. S \cap T = T
    OBVIOUS
<1>2. QED
    BY <1>1, FS_Difference

\* The same cells are with the same clients.
LEMMA SameCounters ==
    ASSUME CountersAgree, UNCHANGED <<downloading, total>>, clients \subseteq clients',
           \A c \in Clients : With(cells', c) = With(cells, c), Taken(cells') = Taken(cells),
           \A i \in Taken(cells) : cells'[i].client = cells[i].client
    PROVE  CountersAgree'
BY DEF CountersAgree

\* A client is given a cell that waits.
LEMMA StartCounters ==
    ASSUME BookInv, NEW i \in Waiting, NEW c \in clients, StartDownload(i, c)
    PROVE  CountersAgree' /\ cells' \in Seq(CellType) /\ Len(cells') = Len(cells)
                          /\ downloading' \in [Clients -> Int]
<1>1. /\ cells \in Seq(CellType) /\ c \in Clients /\ c # NoClient /\ i \in 1..Len(cells)
      /\ cells[i].status = "DOWNLOADING" /\ cells[i].client = NoClient /\ NoClient \notin Clients
    BY DownloadAssumption DEF BookInv, WindowTypes, ClientTypes, Waiting, DownloadAssumption
<1>2. cells' = [cells EXCEPT ![i].client = c] /\ clients' = clients
      /\ downloading' = [downloading EXCEPT ![c] = @ + 1] /\ total' = total + 1
    BY DEF StartDownload
<1>3. /\ cells' \in Seq(CellType) /\ Len(cells') = Len(cells)
      /\ cells'[i].client = c /\ cells'[i].status = cells[i].status
      /\ \A j \in 1..Len(cells) : j # i => cells'[j] = cells[j]
    <2>1. cells[i] \in CellType
        BY <1>1
    <2>2. [cells[i] EXCEPT !.client = c] \in CellType
        BY <1>1, <2>1 DEF CellType
    <2>3. QED
        BY <1>1, <1>2, <2>1, <2>2 DEF CellType
<1>4. With(cells', c) = With(cells, c) \cup {i} /\ i \notin With(cells, c)
    BY <1>1, <1>3 DEF With
<1>5. \A d \in Clients \ {c} : With(cells', d) = With(cells, d)
    BY <1>1, <1>3 DEF With
<1>6. Taken(cells') = Taken(cells) \cup {i} /\ i \notin Taken(cells)
    BY <1>1, <1>3 DEF Taken
<1>7. /\ Cardinality(With(cells', c)) = Cardinality(With(cells, c)) + 1
      /\ Cardinality(Taken(cells')) = Cardinality(Taken(cells)) + 1
    <2>1. IsFiniteSet(With(cells, c)) /\ IsFiniteSet(Taken(cells))
        BY <1>1, SetsFinite
    <2>2. i \notin With(cells, c) /\ i \notin Taken(cells)
        BY <1>4, <1>6
    <2>3. Cardinality(With(cells, c) \cup {i}) = Cardinality(With(cells, c)) + 1
        BY <2>1, <2>2, FS_AddElement
    <2>4. Cardinality(Taken(cells) \cup {i}) = Cardinality(Taken(cells)) + 1
        BY <2>1, <2>2, FS_AddElement
    <2>5. QED
        BY <1>4, <1>6, <2>3, <2>4
<1>8. downloading \in [Clients -> Int] /\ \A d \in Clients : downloading[d] = Cardinality(With(cells, d))
    BY DEF BookInv, CountersAgree, ClientTypes
<1>9. /\ \A d \in Clients : downloading'[d] = Cardinality(With(cells', d))
      /\ downloading' \in [Clients -> Int]
    <2>1. /\ downloading' \in [Clients -> Int] /\ downloading'[c] = downloading[c] + 1
          /\ \A d \in Clients \ {c} : downloading'[d] = downloading[d]
        BY <1>1, <1>2, <1>8
    <2>2. downloading'[c] = Cardinality(With(cells', c))
        BY <1>1, <1>7, <1>8, <2>1
    <2>3. \A d \in Clients \ {c} : downloading'[d] = Cardinality(With(cells', d))
        BY <1>5, <1>8, <2>1
    <2>4. QED
        BY <2>1, <2>2, <2>3
<1>10. \A j \in Taken(cells') : cells'[j].client \in clients'
    <2>1. \A j \in Taken(cells) : j \in 1..Len(cells) /\ cells[j].client \in clients
        BY DEF BookInv, CountersAgree, Taken
    <2>2. QED
        BY <1>2, <1>3, <1>6, <2>1
<1>11. total' = Cardinality(Taken(cells'))
    BY <1>2, <1>7 DEF BookInv, CountersAgree
<1>12. QED
    BY <1>3, <1>9, <1>10, <1>11 DEF CountersAgree

\* stop_download of one cell whose block came.
LEMMA StopCounters ==
    ASSUME BookInv, NEW c \in Clients, NEW i \in With(cells, c), StopBooks(c),
           cells' = [cells EXCEPT ![i].client = NoClient, ![i].status = "PREPARING"]
    PROVE  CountersAgree' /\ cells' \in Seq(CellType) /\ Len(cells') = Len(cells)
                          /\ downloading' \in [Clients -> Int]
<1>1. /\ cells \in Seq(CellType) /\ c # NoClient /\ i \in 1..Len(cells) /\ cells[i].client = c
      /\ cells[i].status = "DOWNLOADING"
    BY DownloadAssumption DEF BookInv, WindowTypes, With, DownloadAssumption
<1>2. /\ downloading' = [downloading EXCEPT ![c] = @ - 1] /\ total' = total - 1
      /\ clients' = clients
    BY DEF StopBooks
<1>3. /\ cells' \in Seq(CellType) /\ Len(cells') = Len(cells) /\ cells'[i].status = "PREPARING"
      /\ \A j \in 1..Len(cells) : j # i => cells'[j] = cells[j]
    <2>1. cells[i] \in CellType
        BY <1>1
    <2>2. PICK x : x = [cells[i] EXCEPT !.client = NoClient, !.status = "PREPARING"]
        OBVIOUS
    <2>3. x \in CellType /\ x.status = "PREPARING" /\ cells' = [cells EXCEPT ![i] = x]
        BY <1>1, <2>1, <2>2 DEF CellType
    <2>4. QED
        BY <1>1, <2>3
<1>4. With(cells', c) = With(cells, c) \ {i}
    BY <1>1, <1>3 DEF With
<1>5. \A d \in Clients \ {c} : With(cells', d) = With(cells, d)
    BY <1>1, <1>3 DEF With
<1>6. Taken(cells') = Taken(cells) \ {i} /\ i \in Taken(cells)
    BY <1>1, <1>3 DEF Taken
<1>7. /\ Cardinality(With(cells', c)) = Cardinality(With(cells, c)) - 1
      /\ Cardinality(Taken(cells')) = Cardinality(Taken(cells)) - 1
    <2>1. IsFiniteSet(With(cells, c)) /\ IsFiniteSet(Taken(cells))
        BY <1>1, SetsFinite
    <2>2. i \in With(cells, c) /\ i \in Taken(cells)
        BY <1>4, <1>6
    <2>3. Cardinality(With(cells, c) \ {i}) = Cardinality(With(cells, c)) - 1
        BY <2>1, <2>2, FS_RemoveElement
    <2>4. Cardinality(Taken(cells) \ {i}) = Cardinality(Taken(cells)) - 1
        BY <2>1, <2>2, FS_RemoveElement
    <2>5. QED
        BY <1>4, <1>6, <2>3, <2>4
<1>8. downloading \in [Clients -> Int] /\ \A d \in Clients : downloading[d] = Cardinality(With(cells, d))
    BY DEF BookInv, CountersAgree, ClientTypes
<1>9. /\ \A d \in Clients : downloading'[d] = Cardinality(With(cells', d))
      /\ downloading' \in [Clients -> Int]
    <2>1. /\ downloading' \in [Clients -> Int] /\ downloading'[c] = downloading[c] - 1
          /\ \A d \in Clients \ {c} : downloading'[d] = downloading[d]
        BY <1>1, <1>2, <1>8
    <2>2. downloading'[c] = Cardinality(With(cells', c))
        BY <1>1, <1>7, <1>8, <2>1
    <2>3. \A d \in Clients \ {c} : downloading'[d] = Cardinality(With(cells', d))
        BY <1>5, <1>8, <2>1
    <2>4. QED
        BY <2>1, <2>2, <2>3
<1>10. \A j \in Taken(cells') : cells'[j].client \in clients'
    <2>1. \A j \in Taken(cells) : j \in 1..Len(cells) /\ cells[j].client \in clients
        BY DEF BookInv, CountersAgree, Taken
    <2>2. QED
        BY <1>2, <1>3, <1>6, <2>1
<1>11. total' = Cardinality(Taken(cells'))
    BY <1>2, <1>7 DEF BookInv, CountersAgree
<1>12. QED
    BY <1>3, <1>9, <1>10, <1>11 DEF CountersAgree

Moved(i, c, e) ==
    /\ cells' = [cells EXCEPT ![i].client = e]
    /\ downloading' = [downloading EXCEPT ![c] = @ - 1, ![e] = @ + 1]
    /\ UNCHANGED <<clients, total>>

\* A missed block is asked from the client that sent the chain.
LEMMA MoveCounters ==
    ASSUME BookInv, NEW c \in Clients, NEW i \in With(cells, c), NEW e \in clients, e # c, Moved(i, c, e)
    PROVE  CountersAgree' /\ cells' \in Seq(CellType) /\ Len(cells') = Len(cells)
                          /\ downloading' \in [Clients -> Int]
<1>1. /\ cells \in Seq(CellType) /\ c # NoClient /\ i \in 1..Len(cells) /\ cells[i].client = c
      /\ cells[i].status = "DOWNLOADING" /\ e \in Clients /\ e # NoClient
    BY DownloadAssumption DEF BookInv, WindowTypes, ClientTypes, With, DownloadAssumption
<1>2. /\ cells' \in Seq(CellType) /\ Len(cells') = Len(cells)
      /\ cells'[i].client = e /\ cells'[i].status = cells[i].status
      /\ \A j \in 1..Len(cells) : j # i => cells'[j] = cells[j]
    <2>1. cells[i] \in CellType
        BY <1>1
    <2>2. [cells[i] EXCEPT !.client = e] \in CellType
        BY <1>1, <2>1 DEF CellType
    <2>3. QED
        BY <1>1, <2>1, <2>2 DEF CellType, Moved
<1>3. With(cells', c) = With(cells, c) \ {i} /\ i \in With(cells, c)
    BY <1>1, <1>2 DEF With
<1>4. With(cells', e) = With(cells, e) \cup {i} /\ i \notin With(cells, e)
    BY <1>1, <1>2 DEF With
<1>5. \A d \in Clients \ {c, e} : With(cells', d) = With(cells, d)
    BY <1>1, <1>2 DEF With
<1>6. Taken(cells') = Taken(cells)
    BY <1>1, <1>2 DEF Taken
<1>7. IsFiniteSet(With(cells, c)) /\ IsFiniteSet(With(cells, e))
    BY <1>1, SetsFinite
<1>8. Cardinality(With(cells', c)) = Cardinality(With(cells, c)) - 1
    BY <1>3, <1>7, FS_RemoveElement
<1>9. Cardinality(With(cells', e)) = Cardinality(With(cells, e)) + 1
    BY <1>4, <1>7, FS_AddElement
<1>10. downloading \in [Clients -> Int] /\ \A d \in Clients : downloading[d] = Cardinality(With(cells, d))
    BY DEF BookInv, CountersAgree, ClientTypes
<1>11. /\ downloading' \in [Clients -> Int] /\ downloading'[c] = downloading[c] - 1
       /\ downloading'[e] = downloading[e] + 1
       /\ \A d \in Clients \ {c, e} : downloading'[d] = downloading[d]
    BY <1>1, <1>10 DEF Moved
<1>12. \A d \in Clients : downloading'[d] = Cardinality(With(cells', d))
    <2>1. downloading'[c] = Cardinality(With(cells', c))
        BY <1>1, <1>8, <1>10, <1>11
    <2>2. downloading'[e] = Cardinality(With(cells', e))
        BY <1>1, <1>9, <1>10, <1>11
    <2>3. \A d \in Clients \ {c, e} : downloading'[d] = Cardinality(With(cells', d))
        BY <1>5, <1>10, <1>11
    <2>4. QED
        BY <2>1, <2>2, <2>3
<1>13. \A j \in Taken(cells') : cells'[j].client \in clients'
    <2>1. \A j \in Taken(cells) : j \in 1..Len(cells) /\ cells[j].client \in clients
        BY DEF BookInv, CountersAgree, Taken
    <2>2. QED
        BY <1>2, <1>6, <2>1 DEF Moved
<1>14. total' = Cardinality(Taken(cells'))
    BY <1>6 DEF BookInv, CountersAgree, Moved
<1>15. QED
    BY <1>2, <1>11, <1>12, <1>13, <1>14 DEF CountersAgree

\* The cells behind the first ones are stopped and dropped.
LEMMA CleanCounters ==
    ASSUME BookInv, NEW k \in 1..Len(cells), CleanChain(k - 1, cells)
    PROVE  /\ CountersAgree' /\ cells' \in Seq(CellType) /\ Len(cells') = k - 1
           /\ \A i \in 1..k - 1 : cells'[i] = cells[i]
           /\ downloading' \in [Clients -> Int] /\ chain' = <<>> /\ clients' = clients
<1> DEFINE keep == k - 1
           gone(c) == {i \in With(cells, c) : i > keep}
           lost == {i \in Taken(cells) : i > keep}
<1>1. cells \in Seq(CellType) /\ Len(cells) \in Nat /\ keep \in 0..Len(cells)
    BY DEF BookInv, WindowTypes
<1>2. /\ cells' = SubSeq(cells, 1, keep) /\ chain' = <<>> /\ clients' = clients
      /\ downloading' = [c \in Clients |-> downloading[c] - Cardinality(gone(c))]
      /\ total' = total - Cardinality(lost)
    BY DEF CleanChain
<1> HIDE DEF keep
<1>3. /\ cells' \in Seq(CellType) /\ Len(cells') = keep
      /\ \A i \in 1..keep : cells'[i] = cells[i]
    BY <1>1, <1>2
<1>4. \A c \in Clients : With(cells', c) = With(cells, c) \ gone(c)
    BY <1>1, <1>3 DEF With
<1>5. Taken(cells') = Taken(cells) \ lost
    BY <1>1, <1>3 DEF Taken
<1>6. \A c \in Clients : gone(c) \subseteq With(cells, c)
    OBVIOUS
<1>7. lost \subseteq Taken(cells)
    OBVIOUS
<1> HIDE DEF gone, lost
<1>8. ASSUME NEW c \in Clients
      PROVE  /\ Cardinality(With(cells', c)) = Cardinality(With(cells, c)) - Cardinality(gone(c))
             /\ Cardinality(gone(c)) \in Int
    <2>1. IsFiniteSet(With(cells, c))
        BY <1>1, SetsFinite
    <2>2. IsFiniteSet(gone(c))
        BY <1>6, <2>1, FS_Subset
    <2>3. Cardinality(gone(c)) \in Int
        BY <2>2, FS_CardinalityType
    <2>4. QED
        BY <1>4, <1>6, <2>1, <2>3, Given
<1>9. Cardinality(Taken(cells')) = Cardinality(Taken(cells)) - Cardinality(lost)
    <2>1. IsFiniteSet(Taken(cells))
        BY <1>1, SetsFinite
    <2>2. QED
        BY <1>5, <1>7, <2>1, Given
<1>10. downloading \in [Clients -> Int] /\ \A d \in Clients : downloading[d] = Cardinality(With(cells, d))
    BY DEF BookInv, CountersAgree, ClientTypes
<1>11. downloading' \in [Clients -> Int] /\ \A d \in Clients : downloading'[d] = Cardinality(With(cells', d))
    BY <1>2, <1>8, <1>10
<1>12. \A j \in Taken(cells') : cells'[j].client \in clients'
    <2>1. \A j \in Taken(cells') : j \in 1..keep /\ j \in Taken(cells)
        BY <1>3, <1>5 DEF Taken
    <2>2. QED
        BY <1>2, <1>3, <2>1 DEF BookInv, CountersAgree
<1>13. total' = Cardinality(Taken(cells'))
    BY <1>2, <1>9 DEF BookInv, CountersAgree
<1>14. CountersAgree'
    BY <1>11, <1>12, <1>13 DEF CountersAgree
<1>15. QED
    BY <1>2, <1>3, <1>11, <1>14 DEF keep

\* What is as in s but for the mark of protection.
Alike(s, t) ==
    /\ t \in Seq(CellType) /\ Len(t) = Len(s)
    /\ \A i \in 1..Len(s) : t[i].client = s[i].client /\ t[i].status = s[i].status /\ t[i].bid = s[i].bid

\* A client is lost: its cells wait again, and the total forgets them.
LEMMA DisconnectCounters ==
    ASSUME BookInv, NEW c \in Clients, NEW s, Alike(cells, s), Disconnect(c, s)
    PROVE  /\ CountersAgree' /\ ClientTypes' /\ cells' \in Seq(CellType) /\ Len(cells') = Len(cells)
           /\ \A i \in 1..Len(cells) : cells'[i].status = cells[i].status /\ cells'[i].bid = cells[i].bid
<1>1. cells \in Seq(CellType) /\ Len(cells) \in Nat /\ NoClient \notin Clients /\ c # NoClient
    BY DownloadAssumption DEF BookInv, WindowTypes, DownloadAssumption
<1>2. /\ clients' = clients \ {c} /\ downloading' = [downloading EXCEPT ![c] = 0]
      /\ total' = total - downloading[c]
      /\ cells' = [i \in 1..Len(s) |->
                    IF s[i].status = "DOWNLOADING" /\ s[i].client = c
                    THEN [s[i] EXCEPT !.client = NoClient] ELSE s[i]]
      /\ IF chainClient = c THEN chainClient' = NoClient /\ requestSent' = FALSE
                            ELSE UNCHANGED request
    BY DEF Disconnect
<1>3. s \in Seq(CellType) /\ Len(s) = Len(cells)
    BY DEF Alike
<1>4. ASSUME NEW i \in 1..Len(cells)
      PROVE  /\ cells'[i] \in CellType
             /\ cells'[i].status = cells[i].status /\ cells'[i].bid = cells[i].bid
             /\ cells'[i].client =
                  IF cells[i].status = "DOWNLOADING" /\ cells[i].client = c THEN NoClient ELSE cells[i].client
    <2>1. /\ s[i] \in CellType /\ s[i].client = cells[i].client /\ s[i].status = cells[i].status
          /\ s[i].bid = cells[i].bid
        BY <1>3 DEF Alike
    <2>2. cells'[i] = IF cells[i].status = "DOWNLOADING" /\ cells[i].client = c
                      THEN [s[i] EXCEPT !.client = NoClient] ELSE s[i]
        BY <1>2, <1>3, <2>1
    <2>3. QED
        BY <2>1, <2>2 DEF CellType
<1>5. cells' \in Seq(CellType) /\ Len(cells') = Len(cells)
    <2>1. cells' = [i \in 1..Len(cells) |-> cells'[i]]
        BY <1>2, <1>3
    <2>2. QED
        BY <1>1, <1>4, <2>1
<1>6. With(cells', c) = {}
    BY <1>1, <1>4, <1>5 DEF With
<1>7. \A d \in Clients \ {c} : With(cells', d) = With(cells, d)
    BY <1>1, <1>4, <1>5 DEF With
<1>8. Taken(cells') = Taken(cells) \ With(cells, c)
    BY <1>1, <1>4, <1>5 DEF With, Taken
<1>9. Cardinality(Taken(cells')) = Cardinality(Taken(cells)) - Cardinality(With(cells, c))
    <2>1. IsFiniteSet(Taken(cells))
        BY <1>1, SetsFinite
    <2>2. QED
        BY <1>8, <2>1, Given, WithTaken
<1>10. downloading \in [Clients -> Int] /\ \A d \in Clients : downloading[d] = Cardinality(With(cells, d))
    BY DEF BookInv, CountersAgree, ClientTypes
<1>11. /\ downloading' \in [Clients -> Int] /\ downloading'[c] = 0
       /\ \A d \in Clients \ {c} : downloading'[d] = downloading[d]
    BY <1>2, <1>10
<1>12. \A d \in Clients : downloading'[d] = Cardinality(With(cells', d))
    BY <1>6, <1>7, <1>10, <1>11, FS_EmptySet
<1>13. total' = Cardinality(Taken(cells'))
    BY <1>2, <1>9, <1>10 DEF BookInv, CountersAgree
<1>14. \A j \in Taken(cells') : cells'[j].client \in clients'
    <2>1. \A j \in Taken(cells) : j \in 1..Len(cells) /\ cells[j].client \in clients
        BY DEF BookInv, CountersAgree, Taken
    <2>2. \A j \in Taken(cells) \ With(cells, c) : cells[j].client # c
        BY DEF Taken, With
    <2>3. \A j \in Taken(cells') : cells'[j].client = cells[j].client
        BY <1>4, <1>8, <2>1, <2>2
    <2>4. QED
        BY <1>2, <1>8, <2>1, <2>2, <2>3
<1>15. ClientTypes'
    BY <1>2, <1>11 DEF BookInv, ClientTypes, request
<1>16. CountersAgree'
    BY <1>12, <1>13, <1>14 DEF CountersAgree
<1>17. QED
    BY <1>4, <1>5, <1>15, <1>16

\* Indices that move together are as many as before.
LEMMA ShiftedCard ==
    ASSUME NEW S, IsFiniteSet(S), S \subseteq Int, NEW n \in Int, NEW T, T \subseteq Int,
           \A j \in Int : j \in T <=> j + n \in S
    PROVE  Cardinality(T) = Cardinality(S)
<1> DEFINE f == [i \in S |-> i - n]
<1>1. ASSUME NEW i \in S PROVE i - n \in T
    <2>1. i \in Int /\ (i - n) + n = i
        OBVIOUS
    <2>2. QED
        BY <2>1
<1>2. ASSUME NEW j \in T PROVE \E i \in S : f[i] = j
    <2>1. j + n \in S /\ (j + n) - n = j
        OBVIOUS
    <2>2. QED
        BY <2>1
<1>3. \A i, j \in S : i - n = j - n => i = j
    OBVIOUS
<1>4. f \in [S -> T]
    BY <1>1
<1>5. f \in Bijection(S, T)
    BY <1>2, <1>3, <1>4 DEF Bijection, Injection, IsInjective, Surjection
<1>6. ExistsBijection(S, T)
    BY <1>5 DEF ExistsBijection
<1>7. QED
    BY <1>6, FS_Bijection

\* on_idle matches prepared blocks with their cells: nothing is taken or given.
LEMMA MatchedCells ==
    ASSUME cells \in Seq(CellType)
    PROVE  /\ Matched \in Seq(CellType) /\ Len(Matched) = Len(cells)
           /\ \A i \in 1..Len(cells) :
                /\ Matched[i].client = cells[i].client /\ Matched[i].bid = cells[i].bid
                /\ \/ Matched[i].status = cells[i].status
                      /\ ~(cells[i].status = "PREPARING" /\ cells[i].bid \in prepared)
                   \/ cells[i].status = "PREPARING" /\ Matched[i].status = "PREPARED"
           /\ Taken(Matched) = Taken(cells) /\ \A c : With(Matched, c) = With(cells, c)
<1>1. Len(cells) \in Nat
    OBVIOUS
<1>2. ASSUME NEW i \in 1..Len(cells)
      PROVE  /\ Matched[i] \in CellType
             /\ Matched[i].client = cells[i].client /\ Matched[i].bid = cells[i].bid
             /\ \/ Matched[i].status = cells[i].status
                   /\ ~(cells[i].status = "PREPARING" /\ cells[i].bid \in prepared)
                \/ cells[i].status = "PREPARING" /\ Matched[i].status = "PREPARED"
    <2>1. cells[i] \in CellType
        OBVIOUS
    <2>2. Matched[i] = IF cells[i].status = "PREPARING" /\ cells[i].bid \in prepared
                       THEN [cells[i] EXCEPT !.status = "PREPARED"] ELSE cells[i]
        BY DEF Matched
    <2>3. QED
        BY <2>1, <2>2 DEF CellType
<1>3. Matched \in Seq(CellType) /\ Len(Matched) = Len(cells)
    <2>1. Matched = [i \in 1..Len(cells) |-> Matched[i]]
        BY DEF Matched
    <2>2. QED
        BY <1>1, <1>2, <2>1
<1>4. Taken(Matched) = Taken(cells) /\ \A c : With(Matched, c) = With(cells, c)
    BY <1>2, <1>3 DEF Taken, With
<1>5. QED
    BY <1>2, <1>3, <1>4

\* The front of the window is prepared and leaves it.
LEMMA ShiftCounters ==
    ASSUME BookInv, NEW n \in 1..Len(cells), Ready(Matched, n), UNCHANGED <<clients, downloading, total>>,
           cells' = SubSeq(Matched, n + 1, Len(cells))
    PROVE  /\ CountersAgree' /\ cells' \in Seq(CellType) /\ Len(cells') = Len(cells) - n
           /\ \A i \in 1..Len(cells) - n : i + n \in 1..Len(cells) /\ cells'[i] = Matched[i + n]
<1> DEFINE m == Matched
<1>1. cells \in Seq(CellType) /\ Len(cells) \in Nat
    BY DEF BookInv, WindowTypes
<1>2. /\ m \in Seq(CellType) /\ Len(m) = Len(cells) /\ Taken(m) = Taken(cells)
      /\ \A c : With(m, c) = With(cells, c)
      /\ \A i \in 1..Len(cells) : m[i].client = cells[i].client
    BY <1>1, MatchedCells
<1>3. \A i \in 1..n : m[i].status = "PREPARED"
    BY DEF Ready
<1> HIDE DEF m
<1>4. /\ cells' \in Seq(CellType) /\ Len(cells') = Len(cells) - n
      /\ \A i \in 1..Len(cells) - n : cells'[i] = m[i + n]
    <2>1. cells' = SubSeq(m, n + 1, Len(m))
        BY <1>2 DEF m
    <2>2. PICK k \in Nat : k = Len(cells) - n
        BY <1>1
    <2>3. n \in Nat /\ n + 1 \in 1..Len(m) + 1 /\ Len(m) \in 0..Len(m) /\ k + n = Len(m)
        BY <1>1, <1>2, <2>2
    <2>4. cells' \in Seq(CellType)
        BY <1>2, <2>1, <2>3
    <2>5. Len(cells') = k
        BY <1>2, <2>1, <2>3
    <2>6. ASSUME NEW i \in 1..k PROVE cells'[i] = m[i + n]
        BY <1>2, <2>1, <2>3
    <2>7. QED
        BY <2>2, <2>4, <2>5, <2>6
<1>5. \A i \in 1..Len(cells) - n : i + n \in 1..Len(cells)
    BY <1>1
<1>6. ASSUME NEW c
      PROVE  \A j \in Int : j \in With(cells', c) <=> j + n \in With(m, c)
    <2>1. \A j \in With(cells', c) : j \in 1..Len(cells) - n
        BY <1>4 DEF With
    <2>2. \A i \in With(m, c) : i \in 1..Len(cells) /\ i > n
        BY <1>1, <1>2, <1>3 DEF With
    <2>3. ASSUME NEW j \in Int, j + n \in With(m, c) PROVE j \in 1..Len(cells) - n
        <3>1. j + n \in 1..Len(cells) /\ j + n > n
            BY <2>2, <2>3
        <3>2. QED
            BY <1>1, <3>1
    <2>4. ASSUME NEW j \in 1..Len(cells) - n
          PROVE  j \in With(cells', c) <=> j + n \in With(m, c)
        <3>1. j \in 1..Len(cells') /\ j + n \in 1..Len(m) /\ cells'[j] = m[j + n]
            BY <1>2, <1>4, <1>5
        <3>2. QED
            BY <3>1 DEF With
    <2>5. QED
        BY <2>1, <2>3, <2>4
<1>7. \A j \in Int : j \in Taken(cells') <=> j + n \in Taken(m)
    <2>1. \A j \in Taken(cells') : j \in 1..Len(cells) - n
        BY <1>4 DEF Taken
    <2>2. \A i \in Taken(m) : i \in 1..Len(cells) /\ i > n
        BY <1>1, <1>2, <1>3 DEF Taken
    <2>3. ASSUME NEW j \in Int, j + n \in Taken(m) PROVE j \in 1..Len(cells) - n
        <3>1. j + n \in 1..Len(cells) /\ j + n > n
            BY <2>2, <2>3
        <3>2. QED
            BY <1>1, <3>1
    <2>4. ASSUME NEW j \in 1..Len(cells) - n
          PROVE  j \in Taken(cells') <=> j + n \in Taken(m)
        <3>1. j \in 1..Len(cells') /\ j + n \in 1..Len(m) /\ cells'[j] = m[j + n]
            BY <1>2, <1>4, <1>5
        <3>2. QED
            BY <3>1 DEF Taken
    <2>5. QED
        BY <2>1, <2>3, <2>4
<1>8. ASSUME NEW c \in Clients PROVE downloading'[c] = Cardinality(With(cells', c))
    <2>1. IsFiniteSet(With(m, c))
        BY <1>2, SetsFinite
    <2>2. With(m, c) \subseteq Int /\ With(cells', c) \subseteq Int
        BY DEF With
    <2>3. n \in Int /\ \A j \in Int : j \in With(cells', c) <=> j + n \in With(m, c)
        BY <1>1, <1>6
    <2>4. Cardinality(With(cells', c)) = Cardinality(With(m, c))
        BY <2>1, <2>2, <2>3, ShiftedCard
    <2>5. With(m, c) = With(cells, c)
        BY <1>2
    <2>6. QED
        BY <2>4, <2>5 DEF BookInv, CountersAgree
<1>9. total' = Cardinality(Taken(cells'))
    <2>1. IsFiniteSet(Taken(m))
        BY <1>2, SetsFinite
    <2>2. Taken(m) \subseteq Int /\ Taken(cells') \subseteq Int
        BY DEF Taken
    <2>3. n \in Int /\ \A j \in Int : j \in Taken(cells') <=> j + n \in Taken(m)
        BY <1>1, <1>7
    <2>4. Cardinality(Taken(cells')) = Cardinality(Taken(m))
        BY <2>1, <2>2, <2>3, ShiftedCard
    <2>5. Taken(m) = Taken(cells)
        BY <1>2
    <2>6. QED
        BY <2>4, <2>5 DEF BookInv, CountersAgree
<1>10. \A j \in Taken(cells') : cells'[j].client \in clients'
    <2>1. \A j \in Taken(cells') : j \in Int /\ j \in 1..Len(cells) - n
        BY <1>4 DEF Taken
    <2>2. \A j \in Taken(cells') : j + n \in Taken(cells) /\ cells'[j].client = cells[j + n].client
        BY <1>2, <1>4, <1>5, <1>7, <2>1
    <2>3. QED
        BY <2>2 DEF BookInv, CountersAgree
<1>11. CountersAgree'
    BY <1>8, <1>9, <1>10 DEF CountersAgree
<1>12. QED
    BY <1>4, <1>5, <1>11 DEF m

\* What follows one another.
LEMMA Joined ==
    ASSUME NEW S, NEW s \in Seq(S), NEW t \in Seq(S)
    PROVE  /\ s \o t \in Seq(S) /\ Len(s \o t) = Len(s) + Len(t)
           /\ \A i \in 1..Len(s) : (s \o t)[i] = s[i]
           /\ \A i \in 1..Len(s \o t) : i \notin 1..Len(s) => (s \o t)[i] = t[i - Len(s)]
<1>1. Len(s) \in Nat /\ Len(t) \in Nat /\ s \o t \in Seq(S)
    OBVIOUS
<1>2. Len(s \o t) = Len(s) + Len(t)
    OBVIOUS
<1>3. ASSUME NEW i \in 1..Len(s) PROVE (s \o t)[i] = s[i]
    BY <1>1
<1>4. ASSUME NEW i \in 1..Len(s \o t), i \notin 1..Len(s) PROVE (s \o t)[i] = t[i - Len(s)]
    BY <1>1, <1>2, <1>4
<1>5. QED
    BY <1>1, <1>2, <1>3, <1>4

\* The window is filled from the chain with cells that wait.
LEMMA FillCounters ==
    ASSUME BookInv, cells' = cells \o [i \in 1..Room |-> Cell(chain[i])],
           chain' = SubSeq(chain, Room + 1, Len(chain)),
           UNCHANGED <<clients, downloading, total, has>>
    PROVE  /\ CountersAgree' /\ WindowTypes'
           /\ \A i \in 1..Len(cells') : cells'[i].status = "PREPARING" =>
                 i \in 1..Len(cells) /\ cells'[i] = cells[i]
           /\ cells' = <<>> => chain' = <<>>
<1>1. /\ cells \in Seq(CellType) /\ Len(cells) \in Nat /\ Len(cells) <= Window
      /\ chain \in Seq(Nat) /\ Len(chain) \in Nat /\ Window \in Nat /\ Window > 0 /\ has \subseteq Nat
    BY DownloadAssumption DEF BookInv, WindowTypes, DownloadAssumption
<1>2. Room \in Nat /\ Room <= Len(chain) /\ Room + Len(cells) <= Window
    BY <1>1 DEF Room
<1>3. Room = Len(chain) \/ Room + Len(cells) = Window
    BY <1>1 DEF Room
<1> DEFINE new == [i \in 1..Room |-> Cell(chain[i])]
<1>4. \A i \in 1..Room : Cell(chain[i]) \in CellType
    BY <1>1, <1>2 DEF Cell, CellType
<1>5. /\ new \in Seq(CellType) /\ Len(new) = Room
      /\ \A i \in 1..Room : new[i].status = "DOWNLOADING" /\ new[i].client = NoClient
    BY <1>2, <1>4 DEF Cell
<1> HIDE DEF new
<1>6. /\ cells' \in Seq(CellType) /\ Len(cells') = Len(cells) + Room
      /\ \A i \in 1..Len(cells) : cells'[i] = cells[i]
      /\ \A i \in 1..Len(cells') : i \notin 1..Len(cells) =>
            cells'[i].status = "DOWNLOADING" /\ cells'[i].client = NoClient
    <2>1. cells' = cells \o new
        BY DEF new
    <2>2. cells' \in Seq(CellType) /\ Len(cells') = Len(cells) + Room
        BY <1>1, <1>5, <2>1, Joined
    <2>3. \A i \in 1..Len(cells) : cells'[i] = cells[i]
        BY <1>1, <1>5, <2>1, Joined
    <2>4. ASSUME NEW i \in 1..Len(cells'), i \notin 1..Len(cells)
          PROVE  cells'[i].status = "DOWNLOADING" /\ cells'[i].client = NoClient
        <3>1. i - Len(cells) \in 1..Room
            BY <1>1, <1>2, <2>2, <2>4
        <3>2. cells'[i] = new[i - Len(cells)]
            BY <1>1, <1>5, <2>1, <2>2, <2>4, Joined
        <3>3. QED
            BY <1>5, <3>1, <3>2
    <2>5. QED
        BY <2>2, <2>3, <2>4
<1>7. ASSUME NEW c \in Clients PROVE With(cells', c) = With(cells, c)
    <2>1. c # NoClient
        BY DownloadAssumption DEF DownloadAssumption
    <2>2. \A i \in 1..Len(cells) : i \in 1..Len(cells')
        BY <1>1, <1>2, <1>6
    <2>3. QED
        BY <1>6, <2>1, <2>2 DEF With
<1>8. Taken(cells') = Taken(cells)
    BY <1>1, <1>2, <1>6 DEF Taken
<1>9. \A i \in Taken(cells) : cells'[i].client = cells[i].client
    BY <1>6 DEF Taken
<1>10. CountersAgree'
    BY <1>7, <1>8, <1>9, SameCounters DEF BookInv
<1>11. chain' \in Seq(Nat) /\ (Room = Len(chain) => chain' = <<>>)
    BY <1>1, <1>2
<1>12. WindowTypes'
    BY <1>1, <1>2, <1>6, <1>11 DEF WindowTypes
<1>13. cells' = <<>> => chain' = <<>>
    BY <1>1, <1>2, <1>3, <1>6, <1>11
<1>14. QED
    BY <1>6, <1>10, <1>12, <1>13

\* The cells of a slacker are marked.
LEMMA Protected ==
    ASSUME cells \in Seq(CellType), NEW c
    PROVE  Alike(cells, [i \in 1..Len(cells) |->
               IF cells[i].client = c THEN [cells[i] EXCEPT !.protect = TRUE] ELSE cells[i]])
<1> DEFINE s == [i \in 1..Len(cells) |->
               IF cells[i].client = c THEN [cells[i] EXCEPT !.protect = TRUE] ELSE cells[i]]
<1>1. Len(cells) \in Nat
    OBVIOUS
<1>2. ASSUME NEW i \in 1..Len(cells)
      PROVE  /\ s[i] \in CellType /\ s[i].client = cells[i].client
             /\ s[i].status = cells[i].status /\ s[i].bid = cells[i].bid
    <2>1. cells[i] \in CellType
        OBVIOUS
    <2>2. QED
        BY <2>1 DEF CellType
<1>3. s \in Seq(CellType) /\ Len(s) = Len(cells)
    BY <1>1, <1>2
<1> HIDE DEF s
<1>4. Alike(cells, s)
    BY <1>2, <1>3 DEF Alike
<1>5. QED
    BY <1>4 DEF s

-----------------------------------------------------------------------------
\* A step that leaves the cells and the counters.
LEMMA KeptBooks ==
    ASSUME BookInv, UNCHANGED <<clients, downloading, total, cells>>, chain' \in Seq(Nat), has' \subseteq Nat,
           chainClient' \in clients \cup {NoClient}, requestSent' => chainClient' \in clients
    PROVE  BookInv'
BY DEF BookInv, WindowTypes, ClientTypes, CountersAgree, With, Taken

\* A step that changes the cells and leaves the request.
LEMMA ChangedBooks ==
    ASSUME BookInv, CountersAgree', cells' \in Seq(CellType), Len(cells') <= Len(cells),
           downloading' \in [Clients -> Int], chain' \in Seq(Nat), has' \subseteq Nat,
           UNCHANGED <<clients, chainClient, requestSent>>
    PROVE  BookInv'
<1>1. Len(cells') \in Nat /\ Len(cells) \in Nat /\ Window \in Nat /\ Len(cells) <= Window
    BY DownloadAssumption DEF BookInv, WindowTypes, DownloadAssumption
<1>2. Len(cells') <= Window
    BY <1>1
<1>3. QED
    BY <1>2 DEF BookInv, WindowTypes, ClientTypes

\* The loss of a client, whatever else follows it.
LEMMA LostBooks ==
    ASSUME BookInv, NEW c \in Clients, NEW s, Alike(cells, s), Disconnect(c, s), chain' \in Seq(Nat),
           UNCHANGED has
    PROVE  BookInv'
<1>1. /\ CountersAgree' /\ ClientTypes' /\ cells' \in Seq(CellType) /\ Len(cells') = Len(cells)
    BY DisconnectCounters
<1>2. QED
    BY <1>1 DEF BookInv, WindowTypes

\* The cells are like themselves, and a taken one has a client.
LEMMA AlikeItself ==
    ASSUME BookInv
    PROVE  /\ Alike(cells, cells)
           /\ \A i \in 1..Len(cells) : cells[i].client # NoClient => cells[i].client \in Clients
<1>1. cells \in Seq(CellType)
    BY DEF BookInv, WindowTypes
<1>2. ASSUME NEW i \in 1..Len(cells), cells[i].client # NoClient PROVE cells[i].client \in Clients
    <2>1. cells[i] \in CellType
        BY <1>1
    <2>2. QED
        BY <1>2, <2>1 DEF CellType
<1>3. QED
    BY <1>1, <1>2 DEF Alike

\* advance_download leaves the books in order wherever it is.
LEMMA RunBooks ==
    ASSUME BookInv, Run \/ DropSlacker
    PROVE  BookInv'
<1>1. /\ cells \in Seq(CellType) /\ Len(cells) \in Nat /\ chain \in Seq(Nat) /\ has \subseteq Nat
      /\ chainClient \in clients \cup {NoClient} /\ (requestSent => chainClient \in clients)
      /\ clients \subseteq Clients /\ NoClient \notin Clients
    BY DownloadAssumption DEF BookInv, WindowTypes, ClientTypes, DownloadAssumption
<1>2. CASE AdvanceSkipped \/ AdvanceChainSkipped \/ AdvanceReturns
    <2>1. UNCHANGED <<clients, downloading, total, cells, chain, has, chainClient, requestSent>>
        BY <1>2 DEF AdvanceSkipped, AdvanceChainSkipped, AdvanceReturns, books, request
    <2>2. QED
        BY <1>1, <2>1, KeptBooks
<1>3. CASE AdvanceDownload
    <2>1. CountersAgree' /\ WindowTypes'
        BY <1>3, FillCounters DEF AdvanceDownload, books
    <2>2. ClientTypes'
        BY <1>3 DEF AdvanceDownload, books, request, BookInv, ClientTypes
    <2>3. QED
        BY <2>1, <2>2 DEF BookInv
<1>4. CASE DropLagging
    <2>1. PICK c \in Lagging : /\ clients' = clients \ {c}
                               /\ downloading' = [downloading EXCEPT ![c] = 0]
                               /\ total' = total - downloading[c]
        BY <1>4 DEF DropLagging
    <2>2. /\ c \in Clients /\ cells = <<>> /\ cells' = cells /\ chain' = chain /\ has' = has
          /\ ~requestSent /\ requestSent' = requestSent /\ chainClient' = NoClient
        BY <1>1, <1>4 DEF DropLagging, Lagging, ChainNeeded
    <2>3. Taken(cells) = {} /\ \A d : With(cells, d) = {}
        BY <2>2 DEF Taken, With
    <2>4. /\ downloading \in [Clients -> Int] /\ \A d \in Clients : downloading[d] = 0
          /\ total = 0
        BY <2>3, FS_EmptySet DEF BookInv, ClientTypes, CountersAgree
    <2>5. /\ downloading' \in [Clients -> Int] /\ \A d \in Clients : downloading'[d] = 0
          /\ total' = 0
        BY <2>1, <2>2, <2>4
    <2>6. Taken(cells') = {} /\ \A d : With(cells', d) = {}
        BY <2>2, <2>3
    <2>7. CountersAgree'
        BY <2>5, <2>6, FS_EmptySet DEF CountersAgree
    <2>8. QED
        BY <1>1, <2>1, <2>2, <2>5, <2>7 DEF BookInv, WindowTypes, ClientTypes
<1>5. CASE NobodyToAsk
    <2>1. ~requestSent /\ requestSent' = requestSent
        BY <1>5 DEF NobodyToAsk, ChainNeeded
    <2>2. QED
        BY <1>1, <1>5, <2>1, KeptBooks DEF NobodyToAsk, books
<1>6. CASE RequestChain
    <2>1. chainClient' \in clients
        BY <1>6 DEF RequestChain, Worth
    <2>2. QED
        BY <1>1, <1>6, <2>1, KeptBooks DEF RequestChain, books
<1>7. CASE AssignCell
    <2>0. PICK i \in Waiting : \E c \in Able(cells[i].bid) : StartDownload(i, c)
        BY <1>7 DEF AssignCell
    <2>1. PICK c \in Able(cells[i].bid) : StartDownload(i, c)
        BY <2>0
    <2>2. c \in clients
        BY <1>1 DEF Able
    <2>3. /\ CountersAgree' /\ cells' \in Seq(CellType) /\ Len(cells') = Len(cells)
          /\ downloading' \in [Clients -> Int]
        BY <2>1, <2>2, StartCounters
    <2>4. UNCHANGED <<clients, chainClient, requestSent, chain, has>>
        BY <1>7, <2>1 DEF AssignCell, StartDownload, request
    <2>5. QED
        BY <1>1, <2>3, <2>4, ChangedBooks
<1>8. CASE NobodyAble
    <2>1. PICK i \in Waiting : CleanChain(i - 1, cells)
        BY <1>8 DEF NobodyAble
    <2>2. i \in 1..Len(cells)
        BY DEF Waiting
    <2>3. /\ CountersAgree' /\ cells' \in Seq(CellType) /\ Len(cells') = i - 1
          /\ downloading' \in [Clients -> Int] /\ chain' = <<>> /\ clients' = clients
        BY <2>1, <2>2, CleanCounters
    <2>4. UNCHANGED <<chainClient, requestSent, has>>
        BY <1>8 DEF NobodyAble, request
    <2>5. Len(cells') <= Len(cells) /\ chain' \in Seq(Nat) /\ has' \subseteq Nat
        BY <1>1, <2>2, <2>3, <2>4
    <2>6. QED
        BY <2>3, <2>4, <2>5, ChangedBooks
<1>9. CASE DropSlacker
    <2> DEFINE who == cells[1].client
               s == [i \in 1..Len(cells) |->
                        IF cells[i].client = who THEN [cells[i] EXCEPT !.protect = TRUE] ELSE cells[i]]
    <2>1. /\ cells # <<>> /\ who # NoClient /\ Disconnect(who, s)
          /\ UNCHANGED <<chain, has>>
        BY <1>9 DEF DropSlacker, FrontAsked
    <2>2. who \in Clients
        <3>1. 1 \in 1..Len(cells)
            BY <1>1, <2>1
        <3>2. QED
            BY <2>1, <3>1, AlikeItself
    <2>3. Alike(cells, s)
        BY <1>1, Protected
    <2> HIDE DEF s, who
    <2>4. QED
        BY <1>1, <2>1, <2>2, <2>3, LostBooks
<1>10. QED
    BY <1>2, <1>3, <1>4, <1>5, <1>6, <1>7, <1>8, <1>9 DEF Run

\* What a chain answer leaves is a chain.
LEMMA ReceivedChain ==
    ASSUME NEW ids \in Seq(Nat), Received(ids)
    PROVE  chain' \in Seq(Nat) /\ ~requestSent'
<1>1. ~requestSent'
    BY DEF Received
<1>2. chain' = <<>> \/ \E n \in 1..Len(ids) : chain' = SubSeq(ids, n, Len(ids))
    <2> DEFINE known(b) == b \in has \/ \E i \in 1..Len(cells) : cells[i].bid = b
               new == {n \in 1..Len(ids) : ~known(ids[n]) /\ \A m \in 1..(n - 1) : known(ids[m])}
    <2>1. chain' = (IF new = {} THEN <<>> ELSE SubSeq(ids, CHOOSE n \in new : TRUE, Len(ids)))
        BY DEF Received
    <2>2. new \subseteq 1..Len(ids)
        OBVIOUS
    <2> HIDE DEF new
    <2>3. new # {} => (CHOOSE n \in new : TRUE) \in 1..Len(ids)
        BY <2>2
    <2>4. QED
        BY <2>1, <2>3
<1>3. ASSUME NEW n \in 1..Len(ids) PROVE SubSeq(ids, n, Len(ids)) \in Seq(Nat)
    <2>1. Len(ids) \in Nat
        OBVIOUS
    <2>2. n \in 1..Len(ids) + 1 /\ Len(ids) \in 0..Len(ids)
        BY <2>1
    <2>3. QED
        BY <2>1, <2>2, SubSeqProperties
<1>4. CASE chain' = <<>>
    BY <1>1, <1>4
<1>5. ASSUME NEW n \in 1..Len(ids), chain' = SubSeq(ids, n, Len(ids)) PROVE chain' \in Seq(Nat)
    BY <1>3, <1>5
<1>6. QED
    BY <1>1, <1>2, <1>4, <1>5

\* A block that comes, or is missed, leaves the books in order.
LEMMA BlockBooks ==
    ASSUME BookInv, NEW c \in Clients, NEW b \in Bids, OnBlock(c, b) \/ OnMissed(c, b)
    PROVE  BookInv'
<1>1. /\ cells \in Seq(CellType) /\ Len(cells) \in Nat /\ chain \in Seq(Nat) /\ has \subseteq Nat
      /\ chainClient \in clients \cup {NoClient} /\ (requestSent => chainClient \in clients)
    BY DEF BookInv, WindowTypes, ClientTypes
<1>2. UNCHANGED <<chainClient, requestSent, has>>
    BY DEF OnBlock, OnMissed, request
<1>3. \A i \in CellOf(c, b) : i \in With(cells, c) /\ i \in 1..Len(cells)
    BY DEF CellOf, With
<1>4. CASE OnBlock(c, b)
    <2>1. chain' = chain
        BY <1>4 DEF OnBlock
    <2>2. CASE UNCHANGED <<books, cells>>
        BY <1>1, <1>2, <2>1, <2>2, KeptBooks DEF books
    <2>3. ASSUME NEW i \in CellOf(c, b), StopBooks(c),
                 cells' = [cells EXCEPT ![i].client = NoClient, ![i].status = "PREPARING"]
          PROVE  BookInv'
        <3>1. /\ CountersAgree' /\ cells' \in Seq(CellType) /\ Len(cells') = Len(cells)
              /\ downloading' \in [Clients -> Int]
            BY <1>3, <2>3, StopCounters
        <3>2. QED
            BY <1>1, <1>2, <2>1, <2>3, <3>1, ChangedBooks DEF StopBooks
    <2>4. QED
        BY <1>4, <2>2, <2>3 DEF OnBlock
<1>5. CASE OnMissed(c, b)
    <2>1. CASE UNCHANGED <<books, chain, cells>>
        BY <1>1, <1>2, <2>1, KeptBooks DEF books
    <2>2. ASSUME NEW i \in CellOf(c, b), CleanChain(i - 1, cells)
          PROVE  BookInv'
        <3>1. /\ CountersAgree' /\ cells' \in Seq(CellType) /\ Len(cells') = i - 1
              /\ downloading' \in [Clients -> Int] /\ chain' = <<>> /\ clients' = clients
            BY <1>3, <2>2, CleanCounters
        <3>2. Len(cells') <= Len(cells) /\ chain' \in Seq(Nat) /\ has' \subseteq Nat
            BY <1>1, <1>2, <1>3, <3>1
        <3>3. QED
            BY <1>2, <3>1, <3>2, ChangedBooks
    <2>3. ASSUME NEW i \in CellOf(c, b), chainClient \notin {NoClient, c},
                 cells' = [cells EXCEPT ![i].client = chainClient],
                 downloading' = [downloading EXCEPT ![c] = @ - 1, ![chainClient] = @ + 1],
                 UNCHANGED <<clients, total, chain>>
          PROVE  BookInv'
        <3>1. chainClient \in clients /\ chainClient # c
            BY <1>1, <2>3
        <3>2. PICK e \in clients : e = chainClient
            BY <3>1
        <3>3. e # c /\ i \in With(cells, c)
            BY <1>3, <2>3, <3>1, <3>2
        <3>4. Moved(i, c, e)
            BY <2>3, <3>2 DEF Moved
        <3>5. /\ CountersAgree' /\ cells' \in Seq(CellType) /\ Len(cells') = Len(cells)
              /\ downloading' \in [Clients -> Int]
            BY <3>3, <3>4, MoveCounters
        <3>6. UNCHANGED <<clients, chain>>
            BY <2>3
        <3>7. Len(cells') <= Len(cells) /\ chain' \in Seq(Nat) /\ has' \subseteq Nat
            BY <1>1, <1>2, <3>5, <3>6
        <3>8. QED
            BY <1>2, <3>5, <3>6, <3>7, ChangedBooks
    <2>4. QED
        BY <1>5, <2>1, <2>2, <2>3 DEF OnMissed
<1>6. QED
    BY <1>4, <1>5

\* So does on_idle.
LEMMA IdleBooks ==
    ASSUME BookInv, OnIdle
    PROVE  BookInv'
<1>1. /\ cells \in Seq(CellType) /\ Len(cells) \in Nat /\ chain \in Seq(Nat) /\ has \subseteq Nat
    BY DEF BookInv, WindowTypes
<1>2. UNCHANGED <<clients, downloading, total, chainClient, requestSent, chain>>
    BY DEF OnIdle, books, request
<1>3. downloading' \in [Clients -> Int]
    BY <1>2 DEF BookInv, ClientTypes
<1>4. CASE cells' = Matched /\ has' = has
    <2>1. /\ cells' \in Seq(CellType) /\ Len(cells') = Len(cells)
          /\ Taken(cells') = Taken(cells) /\ \A c \in Clients : With(cells', c) = With(cells, c)
          /\ \A i \in 1..Len(cells) : cells'[i].client = cells[i].client
        BY <1>1, <1>4, MatchedCells
    <2>2. \A i \in Taken(cells) : cells'[i].client = cells[i].client
        BY <2>1 DEF Taken
    <2>3. CountersAgree'
        BY <1>2, <2>1, <2>2, SameCounters DEF BookInv
    <2>4. QED
        BY <1>1, <1>2, <1>3, <1>4, <2>1, <2>3, ChangedBooks
<1>5. ASSUME NEW n \in 1..Len(cells), Ready(Matched, n), cells' = SubSeq(Matched, n + 1, Len(cells)),
             has' \subseteq has \cup {cells[i].bid : i \in 1..n}
      PROVE  BookInv'
    <2>1. CountersAgree' /\ cells' \in Seq(CellType) /\ Len(cells') = Len(cells) - n
        BY <1>2, <1>5, ShiftCounters
    <2>2. Len(cells') <= Len(cells)
        BY <1>1, <2>1
    <2>3. ASSUME NEW i \in 1..n PROVE cells[i].bid \in Nat
        <3>1. i \in 1..Len(cells)
            BY <1>1
        <3>2. cells[i] \in CellType
            BY <1>1, <3>1
        <3>3. QED
            BY <3>2 DEF CellType
    <2>4. has' \subseteq Nat
        BY <1>1, <1>5, <2>3
    <2>5. QED
        BY <1>1, <1>2, <1>3, <2>1, <2>2, <2>4, ChangedBooks
<1>6. QED
    <2>1. CASE cells' = Matched /\ UNCHANGED has
        BY <1>4, <2>1
    <2>2. ASSUME NEW n \in 1..Len(cells), Ready(Matched, n), cells' = SubSeq(Matched, n + 1, Len(cells)),
                 has' = has \cup {h \in {cells[i].bid : i \in 1..n} :
                                    \A g \in 1..(h - 1) : g \in has \/ \E i \in 1..n : cells[i].bid = g}
          PROVE  BookInv'
        <3>1. has' \subseteq has \cup {cells[i].bid : i \in 1..n}
            BY <2>2
        <3>2. QED
            BY <1>5, <2>2, <3>1
    <2>3. QED
        BY <2>1, <2>2 DEF OnIdle

\* Every event leaves the books in order.
LEMMA EventBooks ==
    ASSUME BookInv, NEW c \in Clients,
           OnConnect(c) \/ OnDisconnect(c) \/ Lose(c) \/ OnChain(c) \/ OnNewBlock(c)
    PROVE  BookInv'
<1>1. /\ cells \in Seq(CellType) /\ Len(cells) \in Nat /\ chain \in Seq(Nat) /\ has \subseteq Nat
      /\ chainClient \in clients \cup {NoClient} /\ (requestSent => chainClient \in clients)
      /\ clients \subseteq Clients /\ Serves \in [Clients -> 0..Top] /\ Top \in Nat
    BY DownloadAssumption DEF BookInv, WindowTypes, ClientTypes, DownloadAssumption
<1>2. Alike(cells, cells)
    BY AlikeItself
<1>3. CASE OnConnect(c)
    <2>1. /\ clients' = clients \cup {c}
          /\ UNCHANGED <<downloading, total, chainClient, requestSent, chain, cells, has>>
        BY <1>3 DEF OnConnect, request
    <2>2. QED
        BY <2>1 DEF BookInv, WindowTypes, ClientTypes, CountersAgree, With, Taken
<1>4. CASE OnDisconnect(c)
    BY <1>1, <1>2, <1>4, LostBooks DEF OnDisconnect
<1>5. CASE Lose(c)
    <2>1. UNCHANGED <<clients, downloading, total, cells, chain, has, chainClient, requestSent>>
        BY <1>5 DEF Lose, books, request
    <2>2. QED
        BY <1>1, <2>1, KeptBooks
<1>6. CASE OnChain(c)
    <2>1. has' = has
        BY <1>6 DEF OnChain
    <2>2. CASE Disconnect(c, cells) /\ chain' = <<>>
        BY <1>2, <2>1, <2>2, LostBooks
    <2>3. CASE UNCHANGED <<books, request, chain, cells>>
        BY <1>1, <2>1, <2>3, KeptBooks DEF books, request
    <2>4. ASSUME NEW from \in {b \in has : b <= Serves[c]},
                 Received([n \in 1..(Serves[c] - from + 1) |-> from + n - 1]),
                 UNCHANGED <<books, cells, chainClient>>
          PROVE  BookInv'
        <3>1. from \in Nat /\ Serves[c] \in Nat /\ from <= Serves[c]
            BY <1>1
        <3>2. PICK k \in Nat : k = Serves[c] - from + 1
            BY <3>1
        <3>3. PICK ids : ids = [n \in 1..k |-> from + n - 1]
            OBVIOUS
        <3>4. \A n \in 1..k : from + n - 1 \in Nat
            BY <3>1, <3>2
        <3>5. ids \in Seq(Nat) /\ Received(ids)
            BY <2>4, <3>2, <3>3, <3>4
        <3>6. chain' \in Seq(Nat) /\ ~requestSent'
            BY <3>5, ReceivedChain
        <3>7. QED
            BY <1>1, <2>1, <2>4, <3>6, KeptBooks DEF books
    <2>5. QED
        BY <1>6, <2>2, <2>3, <2>4 DEF OnChain
<1>7. CASE OnNewBlock(c)
    <2>1. /\ has' = has \cup {Serves[c]}
          /\ UNCHANGED <<clients, downloading, total, cells, chain, chainClient, requestSent>>
        BY <1>7 DEF OnNewBlock, books, request
    <2>2. Serves[c] \in Nat
        BY <1>1
    <2>3. has' \subseteq Nat
        BY <1>1, <2>1, <2>2
    <2>4. QED
        BY <1>1, <2>1, <2>3, KeptBooks
<1>8. QED
    BY <1>3, <1>4, <1>5, <1>6, <1>7

LEMMA NextBooks ==
    ASSUME BookInv, [Next]_vars
    PROVE  BookInv'
<1>1. CASE Run \/ DropSlacker
    BY <1>1, RunBooks
<1>2. CASE OnIdle
    BY <1>2, IdleBooks
<1>3. CASE \E c \in Clients, b \in Bids : OnBlock(c, b) \/ OnMissed(c, b)
    BY <1>3, BlockBooks
<1>4. CASE \E c \in Clients : OnConnect(c) \/ OnDisconnect(c) \/ Lose(c) \/ OnChain(c) \/ OnNewBlock(c)
    BY <1>4, EventBooks
<1>5. CASE OnChainTimer
    <2>1. chainClient \in Clients
        BY <1>5 DEF OnChainTimer, BookInv, ClientTypes
    <2>2. Disconnect(chainClient, cells) /\ UNCHANGED <<chain, has>> /\ Alike(cells, cells)
        BY <1>5, AlikeItself DEF OnChainTimer
    <2>3. QED
        BY <2>1, <2>2, LostBooks DEF BookInv, WindowTypes
<1>6. CASE OnDownloadTimer
    <2>1. cells \in Seq(CellType) /\ cells # <<>> /\ cells[1].client # NoClient
        BY <1>6 DEF OnDownloadTimer, FrontAsked, BookInv, WindowTypes
    <2>2. 1 \in 1..Len(cells)
        BY <2>1
    <2>3. cells[1].client \in Clients /\ Alike(cells, cells)
        BY <2>1, <2>2, AlikeItself
    <2>4. Disconnect(cells[1].client, cells) /\ UNCHANGED <<chain, has>>
        BY <1>6 DEF OnDownloadTimer
    <2>5. QED
        BY <2>3, <2>4, LostBooks DEF BookInv, WindowTypes
<1>7. CASE UNCHANGED vars \/ OnTimedSync \/ OnImport \/ \E b \in Bids : Prepare(b)
    <2>1. UNCHANGED <<clients, downloading, total, cells, chain, has, chainClient, requestSent>>
        BY <1>7 DEF OnTimedSync, OnImport, Prepare, books, request, vars
    <2>2. /\ chain' \in Seq(Nat) /\ has' \subseteq Nat /\ chainClient' \in clients \cup {NoClient}
          /\ requestSent' => chainClient' \in clients
        BY <2>1 DEF BookInv, WindowTypes, ClientTypes
    <2>3. UNCHANGED <<clients, downloading, total, cells>>
        BY <2>1
    <2>4. QED
        BY <2>2, <2>3, KeptBooks
<1>8. QED
    BY <1>1, <1>2, <1>3, <1>4, <1>5, <1>6, <1>7 DEF Next, Answer

-----------------------------------------------------------------------------
\* The calls behind the one that runs, and those of a sequence.
Rest(x) == \E i \in 2..Len(stack) : stack[i] = x
In(f, x) == \E i \in 1..Len(f) : f[i] = x

LEMMA HeadOrRest ==
    ASSUME Nested, ~Idle
    PROVE  \A x : Calls(x) <=> Head(stack) = x \/ Rest(x)
<1>1. stack \in Seq(Frames) /\ stack # <<>>
    BY DEF Nested, Idle
<1>2. Len(stack) \in Nat /\ Len(stack) > 0 /\ Head(stack) = stack[1]
    BY <1>1
<1>3. \A i : i \in 1..Len(stack) <=> i = 1 \/ i \in 2..Len(stack)
    BY <1>2
<1>4. QED
    BY <1>2, <1>3 DEF Calls, Rest

\* A call ends and calls f in its place.
LEMMA Called ==
    ASSUME Nested, ~Idle, NEW f \in Seq(Frames), Call(f),
           \A i \in 2..Len(f) : f[i] # "advance_chain"
    PROVE  /\ stack' \in Seq(Frames) /\ \A i \in 2..Len(stack') : stack'[i] # "advance_chain"
           /\ \A x : Calls(x)' <=> In(f, x) \/ Rest(x)
           /\ ~Rest("advance_chain")
<1>1. stack \in Seq(Frames) /\ stack # <<>> /\ \A i \in 2..Len(stack) : stack[i] # "advance_chain"
    BY DEF Nested, Idle
<1>2. PICK t \in Seq(Frames) : t = Tail(stack)
    <2>1. Tail(stack) \in Seq(Frames)
        BY <1>1
    <2>2. QED
        BY <2>1
<1>3. Len(stack) \in Nat /\ Len(stack) > 0 /\ Len(t) = Len(stack) - 1 /\ Len(f) \in Nat /\ Len(t) \in Nat
    BY <1>1, <1>2
<1>4. ASSUME NEW i \in 1..Len(t) PROVE i + 1 \in 2..Len(stack) /\ t[i] = stack[i + 1]
    <2>1. i + 1 \in 2..Len(stack)
        BY <1>3
    <2>2. Tail(stack)[i] = stack[i + 1]
        BY <1>1, <1>3
    <2>3. QED
        BY <1>2, <2>1, <2>2
<1>5. ASSUME NEW j \in 2..Len(stack) PROVE j - 1 \in 1..Len(t) /\ t[j - 1] = stack[j]
    <2>1. j - 1 \in 1..Len(t) /\ (j - 1) + 1 = j
        BY <1>3
    <2>2. QED
        BY <1>4, <2>1
<1>6. /\ stack' \in Seq(Frames) /\ Len(stack') = Len(f) + Len(t)
      /\ \A i \in 1..Len(f) : stack'[i] = f[i]
      /\ \A i \in 1..Len(stack') : i \notin 1..Len(f) => stack'[i] = t[i - Len(f)]
    <2>1. stack' = f \o t
        BY <1>2 DEF Call
    <2>2. QED
        BY <2>1, Joined
<1>7. ASSUME NEW i \in 1..Len(stack'), i \notin 1..Len(f)
      PROVE  i - Len(f) + 1 \in 2..Len(stack) /\ stack'[i] = stack[i - Len(f) + 1]
    <2>1. i - Len(f) \in 1..Len(t)
        BY <1>3, <1>6, <1>7
    <2>2. QED
        BY <1>4, <1>6, <1>7, <2>1
<1>8. ASSUME NEW j \in 2..Len(stack)
      PROVE  (j - 1) + Len(f) \in 1..Len(stack') /\ stack'[(j - 1) + Len(f)] = stack[j]
    <2>1. /\ (j - 1) + Len(f) \in 1..Len(stack') /\ (j - 1) + Len(f) \notin 1..Len(f)
          /\ ((j - 1) + Len(f)) - Len(f) = j - 1
        BY <1>3, <1>6
    <2>2. QED
        BY <1>5, <1>6, <2>1
<1>9. \A i \in 2..Len(stack') : stack'[i] # "advance_chain"
    <2>1. ASSUME NEW i \in 2..Len(stack') PROVE stack'[i] # "advance_chain"
        <3>1. i \in 1..Len(stack')
            BY <1>3, <1>6
        <3>2. CASE i \in 1..Len(f)
            <4>1. i \in 2..Len(f)
                BY <1>3, <3>2
            <4>2. QED
                BY <1>6, <3>2, <4>1
        <3>3. CASE i \notin 1..Len(f)
            BY <1>1, <1>7, <3>1, <3>3
        <3>4. QED
            BY <3>2, <3>3
    <2>2. QED
        BY <2>1
<1>10. ASSUME NEW x PROVE Calls(x)' <=> In(f, x) \/ Rest(x)
    <2>1. ASSUME NEW i \in 1..Len(stack'), stack'[i] = x PROVE In(f, x) \/ Rest(x)
        <3>1. CASE i \in 1..Len(f)
            BY <1>6, <2>1, <3>1 DEF In
        <3>2. CASE i \notin 1..Len(f)
            BY <1>7, <2>1, <3>2 DEF Rest
        <3>3. QED
            BY <3>1, <3>2
    <2>2. ASSUME NEW i \in 1..Len(f), f[i] = x PROVE Calls(x)'
        <3>1. i \in 1..Len(stack') /\ stack'[i] = x
            BY <1>3, <1>6, <2>2
        <3>2. QED
            BY <3>1 DEF Calls
    <2>3. ASSUME NEW j \in 2..Len(stack), stack[j] = x PROVE Calls(x)'
        BY <1>8, <2>3 DEF Calls
    <2>4. QED
        BY <2>1, <2>2, <2>3 DEF Calls, In, Rest
<1>11. QED
    BY <1>1, <1>6, <1>9, <1>10 DEF Rest

\* The calls of advance_download, one by one.
LEMMA CallsOf ==
    /\ <<>> \in Seq(Frames) /\ \A x : ~In(<<>>, x)
    /\ <<"advance">> \in Seq(Frames) /\ \A x : In(<<"advance">>, x) <=> x = "advance"
    /\ <<"advance_chain">> \in Seq(Frames) /\ \A x : In(<<"advance_chain">>, x) <=> x = "advance_chain"
    /\ <<"advance_chain", "assign">> \in Seq(Frames)
    /\ \A x : In(<<"advance_chain", "assign">>, x) <=> x \in {"advance_chain", "assign"}
BY DEF In, Frames

LEMMA CallNothing ==
    ASSUME Nested, ~Idle, Call(<<>>)
    PROVE  /\ stack' \in Seq(Frames) /\ \A i \in 2..Len(stack') : stack'[i] # "advance_chain"
           /\ \A x : Calls(x)' <=> Rest(x)
           /\ ~Rest("advance_chain")
<1>1. <<>> \in Seq(Frames)
    BY CallsOf
<1>2. \A i \in 2..Len(<<>>) : <<>>[i] # "advance_chain"
    OBVIOUS
<1>3. QED
    BY <1>1, <1>2, Called, CallsOf

\* Once advance_download is to be called there is nothing else to see to.
LEMMA Advancing ==
    ASSUME stack' \in Seq(Frames), \A i \in 2..Len(stack') : stack'[i] # "advance_chain",
           Calls("advance")', ~Calls("advance_chain")'
    PROVE  Nested' /\ ToAssign' /\ ToAsk'
BY DEF Nested, ToAssign, ToAsk

LEMMA EventAdvances ==
    ASSUME stack' \in {<<"advance">>, <<"advance", "advance">>}
    PROVE  Nested' /\ ToAssign' /\ ToAsk'
<1>1. /\ stack' \in Seq(Frames) /\ Len(stack') \in {1, 2}
      /\ \A i \in 1..Len(stack') : stack'[i] = "advance"
    <2>1. CASE stack' = <<"advance">>
        BY <2>1 DEF Frames
    <2>2. CASE stack' = <<"advance", "advance">>
        BY <2>2 DEF Frames
    <2>3. QED
        BY <2>1, <2>2
<1>2. \A i \in 2..Len(stack') : stack'[i] # "advance_chain"
    BY <1>1
<1>3. Calls("advance")' /\ ~Calls("advance_chain")'
    BY <1>1 DEF Calls
<1>4. QED
    BY <1>1, <1>2, <1>3, Advancing

LEMMA CallAdvances ==
    ASSUME Nested, ~Idle, Call(<<"advance">>)
    PROVE  Nested' /\ ToAssign' /\ ToAsk'
<1>1. <<"advance">> \in Seq(Frames) /\ \A i \in 2..Len(<<"advance">>) : <<"advance">>[i] # "advance_chain"
    BY CallsOf
<1>2. /\ stack' \in Seq(Frames) /\ \A i \in 2..Len(stack') : stack'[i] # "advance_chain"
      /\ \A x : Calls(x)' <=> In(<<"advance">>, x) \/ Rest(x)
      /\ ~Rest("advance_chain")
    BY <1>1, Called
<1>3. Calls("advance")' /\ ~Calls("advance_chain")'
    BY <1>2, CallsOf
<1>4. QED
    BY <1>2, <1>3, Advancing

\* The blocks that are being prepared are some of those before.
LEMMA SameThreads ==
    ASSUME WithThreads, UNCHANGED <<work, prepared>>,
           \A i \in 1..Len(cells') : cells'[i].status = "PREPARING" =>
               \E j \in 1..Len(cells) : cells[j].status = "PREPARING" /\ cells[j].bid = cells'[i].bid
    PROVE  WithThreads'
BY DEF WithThreads

\* The loss of a client leaves them with the threads.
LEMMA LostThreads ==
    ASSUME BookInv, WithThreads, NEW c \in Clients, NEW s, Alike(cells, s), Disconnect(c, s),
           UNCHANGED threads
    PROVE  WithThreads'
<1>1. /\ Len(cells') = Len(cells)
      /\ \A i \in 1..Len(cells) : cells'[i].status = cells[i].status /\ cells'[i].bid = cells[i].bid
    BY DisconnectCounters
<1>2. UNCHANGED <<work, prepared>>
    BY DEF threads
<1>3. QED
    BY <1>1, <1>2, SameThreads

\* A chain that is given up leaves them with the threads.
LEMMA CleanThreads ==
    ASSUME BookInv, WithThreads, NEW k \in 1..Len(cells), CleanChain(k - 1, cells), UNCHANGED threads
    PROVE  WithThreads'
<1>1. Len(cells) \in Nat
    BY DEF BookInv, WindowTypes
<1>2. Len(cells') = k - 1 /\ \A i \in 1..k - 1 : cells'[i] = cells[i]
    BY CleanCounters
<1>3. \A i \in 1..Len(cells') : i \in 1..Len(cells) /\ cells'[i] = cells[i]
    BY <1>1, <1>2
<1>4. UNCHANGED <<work, prepared>>
    BY DEF threads
<1>5. QED
    BY <1>3, <1>4, SameThreads

\* What is assigned or asked for is kept by what touches neither.
LEMMA KeptCalls ==
    ASSUME ToAssign, ToAsk, UNCHANGED <<cells, total, importing, clients, has, requestSent, stack>>
    PROVE  ToAssign' /\ ToAsk'
BY DEF ToAssign, ToAsk, Waiting, Worth, Calls

\* Within advance_chain the assignment is that of its caller.
LEMMA ChainAssign ==
    ASSUME ToAssign, Nested, ~Idle, Head(stack) = "advance_chain", Call(<<>>),
           UNCHANGED <<cells, total, importing>>
    PROVE  ToAssign'
<1>1. \A x : Calls(x) <=> Head(stack) = x \/ Rest(x)
    BY HeadOrRest
<1>2. \A x : Calls(x)' <=> Rest(x)
    BY CallNothing
<1>3. /\ Calls("advance") => Calls("advance")'
      /\ Calls("assign") => Calls("assign")'
    BY <1>1, <1>2
<1>4. QED
    BY <1>3 DEF ToAssign, Waiting

\* advance_download forgets nobody, wherever it is.
LEMMA RunCalls ==
    ASSUME BookInv, CallInv, Run \/ DropSlacker
    PROVE  CallInv'
<1>1. /\ cells \in Seq(CellType) /\ Len(cells) \in Nat
    BY DEF BookInv, WindowTypes
<1>2. Nested /\ ToAssign /\ ToAsk /\ WithThreads
    BY DEF CallInv
<1>3. ~Idle
    BY DEF Run, DropSlacker, AdvanceSkipped, AdvanceDownload, AdvanceChainSkipped, DropLagging, NobodyToAsk,
           RequestChain, AssignCell, NobodyAble, AdvanceReturns, Assigning, AssignEnds
<1>4. UNCHANGED <<cells, work, prepared>> => WithThreads'
    BY <1>2 DEF WithThreads
<1>5. Call(<<>>) => /\ stack' \in Seq(Frames) /\ \A i \in 2..Len(stack') : stack'[i] # "advance_chain"
                    /\ \A x : Calls(x)' <=> Rest(x)
                    /\ ~Rest("advance_chain")
    BY <1>2, <1>3, CallNothing
<1>6. Call(<<>>) => Nested'
    BY <1>5 DEF Nested
<1>7. \A x : Calls(x) <=> Head(stack) = x \/ Rest(x)
    BY <1>2, <1>3, HeadOrRest
<1>8. ~Rest("advance_chain")
    BY <1>2 DEF Nested, Rest
<1>9. CASE AdvanceSkipped
    <2>1. Call(<<>>) /\ UNCHANGED <<cells, work, prepared>> /\ importing /\ importing' = importing
        BY <1>9 DEF AdvanceSkipped, threads
    <2>2. ToAssign' /\ ToAsk'
        BY <2>1 DEF ToAssign, ToAsk
    <2>3. QED
        BY <1>4, <1>6, <2>1, <2>2 DEF CallInv
<1>10. CASE AdvanceDownload
    <2>1. /\ Call(<<"advance_chain", "assign">>) /\ UNCHANGED <<work, prepared>>
          /\ cells' = cells \o [i \in 1..Room |-> Cell(chain[i])]
          /\ chain' = SubSeq(chain, Room + 1, Len(chain))
          /\ UNCHANGED <<clients, downloading, total, has>>
        BY <1>10 DEF AdvanceDownload, books, threads
    <2>2. /\ \A i \in 1..Len(cells') : cells'[i].status = "PREPARING" =>
                i \in 1..Len(cells) /\ cells'[i] = cells[i]
          /\ cells' = <<>> => chain' = <<>>
        BY <2>1, FillCounters
    <2>3. WithThreads'
        BY <1>2, <2>1, <2>2, SameThreads
    <2>4. PICK f \in Seq(Frames) : f = <<"advance_chain", "assign">>
        BY CallsOf
    <2>5. \A i \in 2..Len(f) : f[i] # "advance_chain"
        BY <2>4
    <2>6. Call(f)
        BY <2>1, <2>4
    <2>7. /\ stack' \in Seq(Frames) /\ \A i \in 2..Len(stack') : stack'[i] # "advance_chain"
          /\ \A x : Calls(x)' <=> In(f, x) \/ Rest(x)
        BY <1>2, <1>3, <2>5, <2>6, Called
    <2>8. Calls("advance_chain")' /\ Calls("assign")'
        BY <2>4, <2>7, CallsOf
    <2>9. Nested' /\ ToAssign' /\ ToAsk'
        BY <2>2, <2>7, <2>8 DEF Nested, ToAssign, ToAsk
    <2>10. QED
        BY <2>3, <2>9 DEF CallInv
<1>11. CASE AdvanceChainSkipped
    <2>1. /\ Call(<<>>) /\ UNCHANGED <<cells, work, prepared, clients, has, total, importing, requestSent>>
          /\ Head(stack) = "advance_chain" /\ ~ChainNeeded
        BY <1>11 DEF AdvanceChainSkipped, threads, books, request
    <2>2. ToAssign'
        BY <1>2, <1>3, <2>1, ChainAssign
    <2>3. cells = <<>> => requestSent
        BY <1>2, <1>7, <2>1 DEF Nested, ChainNeeded
    <2>4. ToAsk'
        BY <2>1, <2>3 DEF ToAsk
    <2>5. QED
        BY <1>4, <1>6, <2>1, <2>2, <2>4 DEF CallInv
<1>12. CASE DropLagging
    <2>1. Call(<<"advance">>) /\ UNCHANGED <<cells, work, prepared>>
        BY <1>12 DEF DropLagging, threads
    <2>2. Nested' /\ ToAssign' /\ ToAsk'
        BY <1>2, <1>3, <2>1, CallAdvances
    <2>3. QED
        BY <1>4, <2>1, <2>2 DEF CallInv
<1>13. CASE NobodyToAsk
    <2>1. /\ Call(<<>>) /\ UNCHANGED <<cells, work, prepared, clients, has, total, importing>>
          /\ Head(stack) = "advance_chain" /\ Worth = {}
        BY <1>13 DEF NobodyToAsk, threads, books
    <2>2. ToAssign'
        BY <1>2, <1>3, <2>1, ChainAssign
    <2>3. ToAsk'
        BY <2>1 DEF ToAsk, Worth
    <2>4. QED
        BY <1>4, <1>6, <2>1, <2>2, <2>3 DEF CallInv
<1>14. CASE RequestChain
    <2>1. /\ Call(<<>>) /\ UNCHANGED <<cells, work, prepared, total, importing>>
          /\ Head(stack) = "advance_chain" /\ requestSent'
        BY <1>14 DEF RequestChain, threads, books
    <2>2. ToAssign'
        BY <1>2, <1>3, <2>1, ChainAssign
    <2>3. ToAsk'
        BY <2>1 DEF ToAsk
    <2>4. QED
        BY <1>4, <1>6, <2>1, <2>2, <2>3 DEF CallInv
<1>15. CASE AssignCell
    <2>1. PICK i \in Waiting : \E c \in Able(cells[i].bid) : StartDownload(i, c)
        BY <1>15 DEF AssignCell
    <2>2. PICK c \in Able(cells[i].bid) : StartDownload(i, c)
        BY <2>1
    <2>3. /\ UNCHANGED <<work, prepared, stack>> /\ Head(stack) = "assign"
          /\ cells' = [cells EXCEPT ![i].client = c]
        BY <1>15, <2>2 DEF AssignCell, StartDownload, Assigning, threads
    <2>4. i \in 1..Len(cells)
        BY DEF Waiting
    <2>5. /\ Len(cells') = Len(cells)
          /\ \A j \in 1..Len(cells) : cells'[j].status = cells[j].status /\ cells'[j].bid = cells[j].bid
        <3>1. cells[i] \in CellType
            BY <1>1, <2>4
        <3>2. QED
            BY <1>1, <2>3, <2>4, <3>1 DEF CellType
    <2>6. WithThreads'
        BY <1>2, <2>3, <2>5, SameThreads
    <2>7. cells' # <<>>
        BY <1>1, <2>4, <2>5
    <2>8. Calls("assign") /\ ~Calls("advance_chain")
        BY <1>7, <1>8, <2>3
    <2>9. Calls("assign")' /\ ~Calls("advance_chain")'
        BY <2>3, <2>8 DEF Calls
    <2>10. Nested'
        BY <1>2, <2>3, <2>9 DEF Nested
    <2>11. ToAssign' /\ ToAsk'
        BY <2>7, <2>9 DEF ToAssign, ToAsk
    <2>12. QED
        BY <2>6, <2>10, <2>11 DEF CallInv
<1>16. CASE NobodyAble
    <2>1. PICK i \in Waiting : IsNext(i) /\ CleanChain(i - 1, cells)
        BY <1>16 DEF NobodyAble
    <2>2. i \in 1..Len(cells) /\ UNCHANGED threads /\ Call(<<"advance_chain">>)
        BY <1>16 DEF Waiting, NobodyAble
    <2>3. WithThreads'
        BY <1>2, <2>1, <2>2, CleanThreads
    <2>4. Len(cells') = i - 1 /\ chain' = <<>> /\ \A j \in 1..i - 1 : cells'[j] = cells[j]
        BY <2>1, <2>2, CleanCounters
    <2>5. ASSUME NEW j \in 1..i - 1 PROVE j \notin Waiting
        <3>1. ~(i <= j)
            BY <1>1, <2>2
        <3>2. QED
            BY <2>1, <3>1 DEF IsNext
    <2>6. \A j \in 1..i - 1 : j \in 1..Len(cells)
        BY <1>1, <2>2
    <2>7. Waiting' = {}
        BY <2>4, <2>5, <2>6 DEF Waiting
    <2>8. PICK f \in Seq(Frames) : f = <<"advance_chain">>
        BY CallsOf
    <2>9. \A k \in 2..Len(f) : f[k] # "advance_chain"
        BY <2>8
    <2>10. Call(f)
        BY <2>2, <2>8
    <2>11. /\ stack' \in Seq(Frames) /\ \A k \in 2..Len(stack') : stack'[k] # "advance_chain"
           /\ \A x : Calls(x)' <=> In(f, x) \/ Rest(x)
        BY <1>2, <1>3, <2>9, <2>10, Called
    <2>12. Calls("advance_chain")'
        BY <2>8, <2>11, CallsOf
    <2>13. Nested' /\ ToAssign' /\ ToAsk'
        BY <2>4, <2>7, <2>11, <2>12 DEF Nested, ToAssign, ToAsk
    <2>14. QED
        BY <2>3, <2>13 DEF CallInv
<1>17. CASE AdvanceReturns
    <2>1. /\ Call(<<>>) /\ UNCHANGED <<cells, work, prepared, clients, has, total, importing, requestSent>>
          /\ Head(stack) = "assign" /\ (Waiting = {} \/ total >= MaxBlocks)
        BY <1>17 DEF AdvanceReturns, AssignEnds, threads, books, request
    <2>2. ToAssign'
        BY <2>1 DEF ToAssign, Waiting
    <2>3. Calls("advance") => Calls("advance")'
        BY <1>5, <1>7, <2>1
    <2>4. ~Calls("advance_chain")
        BY <1>7, <1>8, <2>1
    <2>5. ToAsk'
        BY <1>2, <2>1, <2>3, <2>4 DEF ToAsk, Worth
    <2>6. QED
        BY <1>4, <1>6, <2>1, <2>2, <2>5 DEF CallInv
<1>18. CASE DropSlacker
    <2> DEFINE who == cells[1].client
               s == [i \in 1..Len(cells) |->
                        IF cells[i].client = who THEN [cells[i] EXCEPT !.protect = TRUE] ELSE cells[i]]
    <2>1. /\ cells # <<>> /\ who # NoClient /\ Disconnect(who, s)
          /\ UNCHANGED threads /\ Call(<<"advance">>)
        BY <1>18 DEF DropSlacker, FrontAsked
    <2>2. who \in Clients
        <3>1. 1 \in 1..Len(cells)
            BY <1>1, <2>1
        <3>2. QED
            BY <2>1, <3>1, AlikeItself
    <2>3. Alike(cells, s)
        BY <1>1, Protected
    <2> HIDE DEF s, who
    <2>4. WithThreads'
        BY <1>2, <2>1, <2>2, <2>3, LostThreads
    <2>5. Nested' /\ ToAssign' /\ ToAsk'
        BY <1>2, <1>3, <2>1, CallAdvances
    <2>6. QED
        BY <2>4, <2>5 DEF CallInv
<1>19. QED
    BY <1>9, <1>10, <1>11, <1>12, <1>13, <1>14, <1>15, <1>16, <1>17, <1>18 DEF Run

\* A block that comes goes to the threads; one that is missed is asked for
\* again or given up.
LEMMA BlockCalls ==
    ASSUME BookInv, CallInv, NEW c \in Clients, NEW b \in Bids, OnBlock(c, b) \/ OnMissed(c, b)
    PROVE  CallInv'
<1>1. cells \in Seq(CellType) /\ Len(cells) \in Nat
    BY DEF BookInv, WindowTypes
<1>2. WithThreads /\ work \in [Bids -> Nat]
    BY DEF CallInv, WithThreads
<1>3. Nested' /\ ToAssign' /\ ToAsk'
    <2>1. stack' \in {<<"advance">>, <<"advance", "advance">>}
        BY DEF OnBlock, OnMissed, Advance
    <2>2. QED
        BY <2>1, EventAdvances
<1>4. \A i \in CellOf(c, b) : i \in 1..Len(cells) /\ cells[i].bid = b /\ cells[i] \in CellType
    BY <1>1 DEF CellOf, With
<1>5. CASE OnBlock(c, b)
    <2>1. prepared' = prepared
        BY <1>5 DEF OnBlock
    <2>2. ASSUME UNCHANGED <<cells, work>> PROVE WithThreads'
        BY <1>2, <2>1, <2>2, SameThreads
    <2>3. ASSUME NEW i \in CellOf(c, b), work' = [work EXCEPT ![b] = @ + 1],
                 cells' = [cells EXCEPT ![i].client = NoClient, ![i].status = "PREPARING"]
          PROVE  WithThreads'
        <3>1. PICK x : x = [cells[i] EXCEPT !.client = NoClient, !.status = "PREPARING"]
            OBVIOUS
        <3>2. x.bid = b /\ cells' = [cells EXCEPT ![i] = x]
            BY <1>1, <1>4, <2>3, <3>1 DEF CellType
        <3>3. Len(cells') = Len(cells) /\ \A j \in 1..Len(cells) : cells'[j] = IF j = i THEN x ELSE cells[j]
            BY <1>1, <1>4, <3>2
        <3>4. work' \in [Bids -> Nat] /\ \A d \in Bids : work'[d] = IF d = b THEN work[d] + 1 ELSE work[d]
            BY <1>2, <2>3
        <3>5. ASSUME NEW j \in 1..Len(cells'), cells'[j].status = "PREPARING"
              PROVE  cells'[j].bid \in Bids /\ (work'[cells'[j].bid] > 0 \/ cells'[j].bid \in prepared')
            <4>1. CASE j = i
                <5>1. cells'[j].bid = b
                    BY <3>2, <3>3, <4>1
                <5>2. work'[b] > 0
                    BY <1>2, <3>4
                <5>3. QED
                    BY <5>1, <5>2
            <4>2. CASE j # i
                <5>1. cells'[j] = cells[j] /\ j \in 1..Len(cells)
                    BY <3>3, <4>2
                <5>2. PICK d \in Bids : d = cells[j].bid /\ (work[d] > 0 \/ d \in prepared)
                    BY <1>2, <3>5, <5>1 DEF WithThreads
                <5>3. work[d] > 0 => work'[d] > 0
                    BY <1>2, <3>4
                <5>4. QED
                    BY <2>1, <5>1, <5>2, <5>3
            <4>3. QED
                BY <4>1, <4>2
        <3>6. QED
            BY <3>4, <3>5 DEF WithThreads
    <2>4. WithThreads'
        BY <1>5, <2>2, <2>3 DEF OnBlock
    <2>5. QED
        BY <1>3, <2>4 DEF CallInv
<1>6. CASE OnMissed(c, b)
    <2>1. UNCHANGED threads /\ UNCHANGED <<work, prepared>>
        BY <1>6 DEF OnMissed, threads
    <2>2. ASSUME UNCHANGED cells PROVE WithThreads'
        BY <1>2, <2>1, <2>2, SameThreads
    <2>3. ASSUME NEW i \in CellOf(c, b), CleanChain(i - 1, cells)
          PROVE  WithThreads'
        BY <1>2, <1>4, <2>1, <2>3, CleanThreads
    <2>4. ASSUME NEW i \in CellOf(c, b), cells' = [cells EXCEPT ![i].client = chainClient]
          PROVE  WithThreads'
        <3>1. i \in 1..Len(cells) /\ cells[i] \in CellType
            BY <1>4
        <3>2. /\ Len(cells') = Len(cells)
              /\ \A j \in 1..Len(cells) : cells'[j].status = cells[j].status /\ cells'[j].bid = cells[j].bid
            BY <1>1, <2>4, <3>1 DEF CellType
        <3>3. QED
            BY <1>2, <2>1, <3>2, SameThreads
    <2>5. WithThreads'
        BY <1>6, <2>2, <2>3, <2>4 DEF OnMissed
    <2>6. QED
        BY <1>3, <2>5 DEF CallInv
<1>7. QED
    BY <1>5, <1>6

\* on_idle takes from the threads what it gives to the cells.
LEMMA IdleCalls ==
    ASSUME BookInv, CallInv, OnIdle
    PROVE  CallInv'
<1>1. cells \in Seq(CellType) /\ Len(cells) \in Nat
    BY DEF BookInv, WindowTypes
<1>2. WithThreads /\ Nested /\ ToAssign /\ ToAsk
    BY DEF CallInv
<1>3. /\ prepared' = {} /\ Idle
      /\ UNCHANGED <<clients, downloading, total, chainClient, requestSent, chain, work, importing>>
    BY DEF OnIdle, books, request
<1>4. /\ Len(Matched) = Len(cells)
      /\ \A i \in 1..Len(cells) :
           /\ Matched[i].client = cells[i].client /\ Matched[i].bid = cells[i].bid
           /\ \/ Matched[i].status = cells[i].status
                 /\ ~(cells[i].status = "PREPARING" /\ cells[i].bid \in prepared)
              \/ cells[i].status = "PREPARING" /\ Matched[i].status = "PREPARED"
    BY <1>1, MatchedCells
<1>5. \A i \in 1..Len(cells) : Matched[i].status = "PREPARING" =>
          Matched[i].bid \in Bids /\ work[Matched[i].bid] > 0
    BY <1>2, <1>4 DEF WithThreads
<1>6. CASE cells' = Matched /\ UNCHANGED <<has, stack>>
    <2>1. WithThreads'
        BY <1>2, <1>3, <1>4, <1>5, <1>6 DEF WithThreads
    <2>2. Waiting' = Waiting
        BY <1>4, <1>6 DEF Waiting
    <2>3. cells' = <<>> => cells = <<>>
        BY <1>1, <1>4, <1>6
    <2>4. \A x : Calls(x)' <=> Calls(x)
        BY <1>6 DEF Calls
    <2>5. Nested'
        BY <1>2, <1>3, <1>6, <2>3, <2>4 DEF Nested
    <2>6. ToAssign' /\ ToAsk'
        BY <1>2, <1>3, <1>6, <2>2, <2>3, <2>4 DEF ToAssign, ToAsk, Worth
    <2>7. QED
        BY <2>1, <2>5, <2>6 DEF CallInv
<1>7. ASSUME NEW n \in 1..Len(cells), Ready(Matched, n), cells' = SubSeq(Matched, n + 1, Len(cells)), Advance
      PROVE  CallInv'
    <2>1. UNCHANGED <<clients, downloading, total>>
        BY <1>3
    <2>2. /\ Len(cells') = Len(cells) - n
          /\ \A i \in 1..Len(cells) - n : i + n \in 1..Len(cells) /\ cells'[i] = Matched[i + n]
        BY <1>7, <2>1, ShiftCounters
    <2>3. \A i \in 1..Len(cells') : cells'[i].status = "PREPARING" =>
              cells'[i].bid \in Bids /\ work[cells'[i].bid] > 0
        BY <1>5, <2>2
    <2>4. WithThreads'
        BY <1>2, <1>3, <2>3 DEF WithThreads
    <2>5. stack' \in {<<"advance">>, <<"advance", "advance">>}
        BY <1>7 DEF Advance
    <2>6. QED
        BY <2>4, <2>5, EventAdvances DEF CallInv
<1>8. QED
    BY <1>6, <1>7 DEF OnIdle

\* A thread keeps what it finishes.
LEMMA PrepareCalls ==
    ASSUME BookInv, CallInv, NEW b \in Bids, Prepare(b)
    PROVE  CallInv'
<1>1. WithThreads /\ Nested /\ ToAssign /\ ToAsk /\ work \in [Bids -> Nat]
    BY DEF CallInv, WithThreads
<1>2. /\ work[b] > 0 /\ work' = [work EXCEPT ![b] = @ - 1] /\ prepared' = prepared \cup {b}
      /\ UNCHANGED <<cells, total, importing, clients, has, requestSent, stack, chain>>
    BY DEF Prepare, books, request
<1>3. work' \in [Bids -> Nat] /\ \A d \in Bids : d # b => work'[d] = work[d]
    BY <1>1, <1>2
<1>4. \A d \in Bids : work[d] > 0 \/ d \in prepared => work'[d] > 0 \/ d \in prepared'
    BY <1>2, <1>3
<1>5. WithThreads'
    BY <1>1, <1>2, <1>3, <1>4 DEF WithThreads
<1>6. ToAssign' /\ ToAsk'
    BY <1>1, <1>2, KeptCalls
<1>7. Nested'
    BY <1>1, <1>2 DEF Nested, Calls
<1>8. QED
    BY <1>5, <1>6, <1>7 DEF CallInv

\* Every other event calls advance_download or changes nothing it sees to.
LEMMA EventCalls ==
    ASSUME BookInv, CallInv, NEW c \in Clients,
           OnConnect(c) \/ OnDisconnect(c) \/ Lose(c) \/ OnChain(c) \/ OnNewBlock(c)
    PROVE  CallInv'
<1>1. WithThreads /\ Nested /\ ToAssign /\ ToAsk
    BY DEF CallInv
<1>2. Alike(cells, cells)
    BY AlikeItself
<1>3. UNCHANGED threads /\ UNCHANGED <<work, prepared>>
    BY DEF OnConnect, OnDisconnect, Lose, OnChain, OnNewBlock, threads
<1>4. WithThreads'
    <2>1. CASE UNCHANGED cells
        BY <1>1, <1>3, <2>1, SameThreads
    <2>2. CASE Disconnect(c, cells)
        BY <1>1, <1>2, <1>3, <2>2, LostThreads
    <2>3. QED
        BY <2>1, <2>2 DEF OnConnect, OnDisconnect, Lose, OnChain, OnNewBlock, books
<1>5. CASE stack' \in {<<"advance">>, <<"advance", "advance">>}
    BY <1>4, <1>5, EventAdvances DEF CallInv
<1>6. CASE UNCHANGED <<clients, total, requestSent, chain, cells, has, importing, stack>>
    <2>1. ToAssign' /\ ToAsk'
        BY <1>1, <1>6, KeptCalls
    <2>2. Nested'
        BY <1>1, <1>6 DEF Nested, Calls
    <2>3. QED
        BY <1>4, <2>1, <2>2 DEF CallInv
<1>7. CASE OnConnect(c) \/ OnDisconnect(c) \/ OnNewBlock(c)
    BY <1>5, <1>7 DEF OnConnect, OnDisconnect, OnNewBlock, Advance
<1>8. CASE Lose(c)
    BY <1>6, <1>8 DEF Lose, books, request
<1>9. CASE OnChain(c)
    BY <1>5, <1>6, <1>9 DEF OnChain, Advance, books, request
<1>10. QED
    BY <1>7, <1>8, <1>9

LEMMA NextCalls ==
    ASSUME BookInv, CallInv, [Next]_vars
    PROVE  CallInv'
<1>1. CASE Run \/ DropSlacker
    BY <1>1, RunCalls
<1>2. CASE OnIdle
    BY <1>2, IdleCalls
<1>3. CASE \E c \in Clients, b \in Bids : OnBlock(c, b) \/ OnMissed(c, b)
    BY <1>3, BlockCalls
<1>4. CASE \E c \in Clients : OnConnect(c) \/ OnDisconnect(c) \/ Lose(c) \/ OnChain(c) \/ OnNewBlock(c)
    BY <1>4, EventCalls
<1>5. CASE \E b \in Bids : Prepare(b)
    BY <1>5, PrepareCalls
<1>6. CASE OnChainTimer \/ OnDownloadTimer \/ OnTimedSync \/ OnImport
    <2>1. UNCHANGED threads /\ UNCHANGED <<work, prepared>> /\ stack' \in {<<"advance">>, <<"advance", "advance">>}
        BY <1>6 DEF OnChainTimer, OnDownloadTimer, OnTimedSync, OnImport, Advance, threads
    <2>2. WithThreads /\ Alike(cells, cells)
        BY AlikeItself DEF CallInv
    <2>3. ASSUME UNCHANGED cells PROVE WithThreads'
        BY <2>1, <2>2, <2>3, SameThreads
    <2>4. ASSUME OnChainTimer PROVE WithThreads'
        <3>1. chainClient \in Clients /\ Disconnect(chainClient, cells)
            BY <2>4 DEF OnChainTimer, BookInv, ClientTypes
        <3>2. QED
            BY <2>1, <2>2, <3>1, LostThreads
    <2>5. ASSUME OnDownloadTimer PROVE WithThreads'
        <3>1. cells \in Seq(CellType) /\ cells # <<>> /\ cells[1].client # NoClient
            BY <2>5 DEF OnDownloadTimer, FrontAsked, BookInv, WindowTypes
        <3>2. 1 \in 1..Len(cells)
            BY <3>1
        <3>3. cells[1].client \in Clients /\ Disconnect(cells[1].client, cells)
            BY <2>5, <3>1, <3>2, AlikeItself DEF OnDownloadTimer
        <3>4. QED
            BY <2>1, <2>2, <3>3, LostThreads
    <2>6. WithThreads'
        BY <1>6, <2>3, <2>4, <2>5 DEF OnTimedSync, OnImport
    <2>7. QED
        BY <2>1, <2>6, EventAdvances DEF CallInv
<1>7. CASE UNCHANGED vars
    <2>1. /\ UNCHANGED <<clients, downloading, total, requestSent, chain, cells, has, importing, stack>>
          /\ UNCHANGED <<work, prepared>>
        BY <1>7 DEF vars, books, request, threads
    <2>2. WithThreads' /\ Nested'
        BY <2>1 DEF CallInv, WithThreads, Nested, Calls
    <2>3. ToAssign' /\ ToAsk'
        BY <2>1, KeptCalls DEF CallInv
    <2>4. QED
        BY <2>2, <2>3 DEF CallInv
<1>8. QED
    BY <1>1, <1>2, <1>3, <1>4, <1>5, <1>6, <1>7 DEF Next, Answer

-----------------------------------------------------------------------------
\* The inductive invariant holds from the start and over every step.
THEOREM Invariance == Spec => []Inv
<1>1. Init => Inv
    <2> SUFFICES ASSUME Init PROVE Inv
        OBVIOUS
    <2>1. /\ clients = {} /\ downloading = [c \in Clients |-> 0] /\ total = 0
          /\ chainClient = NoClient /\ requestSent = FALSE
          /\ chain = <<>> /\ cells = <<>> /\ work = [b \in Bids |-> 0]
          /\ has = {0} /\ stack = <<>>
        BY DEF Init
    <2>2. Taken(cells) = {} /\ \A c : With(cells, c) = {}
        BY <2>1 DEF Taken, With
    <2>3. CountersAgree
        BY <2>1, <2>2, FS_EmptySet DEF CountersAgree
    <2>4. WindowTypes
        BY <2>1, DownloadAssumption DEF WindowTypes, DownloadAssumption
    <2>5. ClientTypes
        BY <2>1 DEF ClientTypes
    <2>6. WithThreads /\ Nested
        BY <2>1 DEF WithThreads, Nested, Calls
    <2>7. ToAssign /\ ToAsk
        BY <2>1 DEF ToAssign, ToAsk, Waiting, Worth
    <2>8. QED
        BY <2>3, <2>4, <2>5, <2>6, <2>7 DEF Inv, BookInv, CallInv
<1>2. Inv /\ [Next]_vars => Inv'
    BY NextBooks, NextCalls DEF Inv
<1>3. QED
    BY <1>1, <1>2, PTL DEF Spec

\* The counters by which the downloader limits itself are those of the
\* cells, for any clients, window and faults: no invariant() of on_disconnect
\* or stop_download fails.
THEOREM CountersAgreeAlways == Spec => []CountersAgree
<1>1. Inv => CountersAgree
    BY DEF Inv, BookInv
<1>2. QED
    BY <1>1, Invariance, PTL

\* After every event somebody works at every cell of the window, and with an
\* empty window a client that has more was asked for its chain.
THEOREM NobodyForgottenAlways == Spec => []NobodyForgotten
<1>1. Inv => NobodyForgotten
    <2> SUFFICES ASSUME Inv, Idle PROVE NobodyForgotten
        BY DEF NobodyForgotten
    <2>1. \A x : ~Calls(x)
        BY DEF Idle, Calls
    <2>2. WithThreads /\ ToAssign /\ ToAsk /\ ClientTypes
        BY DEF Inv, BookInv, CallInv
    <2>3. QED
        BY <2>1, <2>2 DEF NobodyForgotten, WithThreads, ToAssign, ToAsk, ClientTypes
<1>2. QED
    BY <1>1, Invariance, PTL
=============================================================================
