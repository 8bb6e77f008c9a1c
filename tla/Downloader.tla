----------------------------- MODULE Downloader -----------------------------
(***************************************************************************)
(* Node::DownloaderV11: asks one client for the hashes of the next blocks, *)
(* the chain, and downloads the blocks from all of them, in a window of    *)
(* cells that are received in any order, prepared by threads and added to  *)
(* the block chain front first.  Clients answer late, miss blocks, stay    *)
(* silent, disconnect and come back.                                       *)
(*                                                                         *)
(* The handlers run in one thread, but disconnect calls on_disconnect,     *)
(* which calls advance_download, which may disconnect another client in    *)
(* the middle: `stack' holds the calls that are still to be run, and no    *)
(* other event is handled before it is empty.                              *)
(*                                                                         *)
(* The blocks are those of one chain, 1..Top, block b at height b; client  *)
(* c has them up to Serves[c].  Among the clients that have a block the    *)
(* code prefers the fastest; here it takes any of them.                    *)
(***************************************************************************)
EXTENDS Integers, Sequences, FiniteSets

CONSTANTS
    Clients,     \* outgoing P2P clients of version 1
    NoClient,    \* nullptr
    Serves,      \* current_height of each client
    Top,         \* bound on the heights
    Window,      \* TOTAL_DOWNLOAD_WINDOW
    MaxBlocks,   \* TOTAL_DOWNLOAD_BLOCKS
    GoodLag,     \* GOOD_LAG
    LagLimit,    \* a quarter of p2p_default_connections_count
    MaxFaults    \* bound on lost requests, missed blocks and lost connections

ASSUME DownloadAssumption ==
    /\ IsFiniteSet(Clients) /\ NoClient \notin Clients
    /\ Top \in Nat /\ Serves \in [Clients -> 0..Top]
    /\ Window \in Nat \ {0} /\ MaxBlocks \in Nat \ {0}
    /\ GoodLag \in Nat /\ LagLimit \in Nat /\ MaxFaults \in Nat

VARIABLES
    clients,      \* the keys of m_good_clients
    downloading,  \* its values; 0 for a client that is not in it
    total,        \* total_downloading_blocks
    chainClient,  \* m_chain_client
    requestSent,  \* m_chain_request_sent; m_chain_timer runs meanwhile
    chain,        \* m_chain, the hashes behind the window
    cells,        \* m_download_chain
    work,         \* blocks with the preparing threads, or queued for them
    prepared,     \* prepared_blocks
    has,          \* heights of the blocks in the block chain
    importing,    \* block files or the old chain are being imported
    stack,        \* calls to be run, the next one first
    inbox,        \* per client the requests it has not answered
    faults        \* what went wrong so far

books == <<clients, downloading, total>>
request == <<chainClient, requestSent>>
threads == <<work, prepared>>
network == <<inbox, faults>>
vars == <<books, request, chain, cells, threads, has, importing, stack, network>>

Bids == 1..Top
Tip == CHOOSE h \in has : \A g \in has : g <= h
\* A request for the chain, beside those for blocks.
Chain == 0
Cell(b) == [bid |-> b, client |-> NoClient, status |-> "DOWNLOADING", protect |-> FALSE]
Cleared(c) == [inbox EXCEPT ![c] = {}]
Asked(c, r) == [inbox EXCEPT ![c] = @ \cup {r}]
Idle == stack = <<>>
Call(frames) == stack' = frames \o Tail(stack)

\* Indices of the cells that are being downloaded, by a client, and by anyone.
With(s, c) == {i \in 1..Len(s) : s[i].status = "DOWNLOADING" /\ s[i].client = c}
Taken(s) == {i \in 1..Len(s) : s[i].status = "DOWNLOADING" /\ s[i].client # NoClient}

Init ==
    /\ clients = {} /\ downloading = [c \in Clients |-> 0] /\ total = 0
    /\ chainClient = NoClient /\ requestSent = FALSE
    /\ chain = <<>> /\ cells = <<>> /\ work = [b \in Bids |-> 0] /\ prepared = {}
    /\ has = {0} /\ importing \in BOOLEAN /\ stack = <<>>
    /\ inbox = [c \in Clients |-> {}] /\ faults = 0

-----------------------------------------------------------------------------
\* stop_download of a cell, by its index: the counters give it back.
StopBooks(c) ==
    /\ downloading' = [downloading EXCEPT ![c] = @ - 1]
    /\ total' = total - 1
    /\ UNCHANGED clients

\* The cells behind the first `keep' ones are stopped and dropped, and so is
\* the chain.
CleanChain(keep, s) ==
    LET gone(c) == {i \in With(s, c) : i > keep}
    IN  /\ cells' = SubSeq(s, 1, keep)
        /\ chain' = <<>>
        /\ downloading' = [c \in Clients |-> downloading[c] - Cardinality(gone(c))]
        /\ total' = total - Cardinality({i \in Taken(s) : i > keep})
        /\ UNCHANGED clients

\* start_download: the cell is the client's, and the block is asked for.
StartDownload(i, c) ==
    /\ cells' = [cells EXCEPT ![i].client = c]
    /\ downloading' = [downloading EXCEPT ![c] = @ + 1]
    /\ total' = total + 1
    /\ inbox' = Asked(c, cells[i].bid)
    /\ UNCHANGED <<clients, faults>>

\* Mutant of Disconnect: the total keeps the blocks of the lost client.
DisconnectKeepsTotal(c, s) ==
    /\ clients' = clients \ {c}
    /\ downloading' = [downloading EXCEPT ![c] = 0]
    /\ UNCHANGED total
    /\ cells' = [i \in 1..Len(s) |->
                    IF s[i].status = "DOWNLOADING" /\ s[i].client = c
                    THEN [s[i] EXCEPT !.client = NoClient] ELSE s[i]]
    /\ IF chainClient = c THEN chainClient' = NoClient /\ requestSent' = FALSE
                          ELSE UNCHANGED request
    /\ inbox' = Cleared(c)

\* Mutant of Disconnect: the chain request stays with the lost client.
DisconnectKeepsRequest(c, s) ==
    /\ clients' = clients \ {c}
    /\ downloading' = [downloading EXCEPT ![c] = 0]
    /\ total' = total - downloading[c]
    /\ cells' = [i \in 1..Len(s) |->
                    IF s[i].status = "DOWNLOADING" /\ s[i].client = c
                    THEN [s[i] EXCEPT !.client = NoClient] ELSE s[i]]
    /\ IF chainClient = c THEN chainClient' = NoClient /\ UNCHANGED requestSent
                          ELSE UNCHANGED request
    /\ inbox' = Cleared(c)

\* on_disconnect up to its call of advance_download; s are the cells.
Disconnect(c, s) ==
    /\ clients' = clients \ {c}
    /\ downloading' = [downloading EXCEPT ![c] = 0]
    /\ total' = total - downloading[c]
    /\ cells' = [i \in 1..Len(s) |->
                    IF s[i].status = "DOWNLOADING" /\ s[i].client = c
                    THEN [s[i] EXCEPT !.client = NoClient] ELSE s[i]]
    /\ IF chainClient = c THEN chainClient' = NoClient /\ requestSent' = FALSE
                          ELSE UNCHANGED request
    /\ inbox' = Cleared(c)

-----------------------------------------------------------------------------
\* advance_download: nothing during an import; else the window is filled
\* from the chain, and advance_chain and the rest of it follow.
AdvanceSkipped ==
    /\ ~Idle /\ Head(stack) = "advance" /\ importing
    /\ Call(<<>>)
    /\ UNCHANGED <<books, request, chain, cells, threads, has, importing, network>>

Room == IF Window - Len(cells) < Len(chain) THEN Window - Len(cells) ELSE Len(chain)

AdvanceDownload ==
    /\ ~Idle /\ Head(stack) = "advance" /\ ~importing
    /\ cells' = cells \o [i \in 1..Room |-> Cell(chain[i])]
    /\ chain' = SubSeq(chain, Room + 1, Len(chain))
    /\ Call(<<"advance_chain", "assign">>)
    /\ UNCHANGED <<books, request, threads, has, importing, network>>

\* advance_chain: nothing while there is a chain, a window or a request.
Lagging == {c \in clients : Serves[c] + GoodLag < Tip}
Worth == {c \in clients : Serves[c] \notin has}
ChainNeeded == chain = <<>> /\ cells = <<>> /\ ~requestSent

AdvanceChainSkipped ==
    /\ ~Idle /\ Head(stack) = "advance_chain" /\ ~ChainNeeded
    /\ Call(<<>>)
    /\ UNCHANGED <<books, request, chain, cells, threads, has, importing, network>>

\* One of too many lagging clients is disconnected, which calls
\* advance_download again.
DropLagging ==
    /\ ~Idle /\ Head(stack) = "advance_chain" /\ ChainNeeded
    /\ Cardinality(Lagging) > LagLimit
    /\ \E c \in Lagging :
          /\ clients' = clients \ {c}
          /\ downloading' = [downloading EXCEPT ![c] = 0]
          /\ total' = total - downloading[c]
          /\ inbox' = Cleared(c)
    /\ chainClient' = NoClient
    /\ Call(<<"advance">>)
    /\ UNCHANGED <<requestSent, chain, cells, threads, has, importing, faults>>

NobodyToAsk ==
    /\ ~Idle /\ Head(stack) = "advance_chain" /\ ChainNeeded
    /\ Cardinality(Lagging) <= LagLimit /\ Worth = {}
    /\ chainClient' = NoClient
    /\ Call(<<>>)
    /\ UNCHANGED <<books, requestSent, chain, cells, threads, has, importing, network>>

RequestChain ==
    /\ ~Idle /\ Head(stack) = "advance_chain" /\ ChainNeeded
    /\ Cardinality(Lagging) <= LagLimit
    /\ \E c \in Worth :
          /\ chainClient' = c /\ requestSent' = TRUE
          /\ inbox' = Asked(c, Chain)
    /\ Call(<<>>)
    /\ UNCHANGED <<books, chain, cells, threads, has, importing, faults>>

\* The rest of advance_download: cells without a client get one, front first.
Waiting == {i \in 1..Len(cells) : cells[i].status = "DOWNLOADING" /\ cells[i].client = NoClient}
IsNext(i) == i \in Waiting /\ \A j \in Waiting : i <= j
Assigning == ~Idle /\ Head(stack) = "assign" /\ Waiting # {} /\ total < MaxBlocks
Able(b) ==
    LET having == {c \in clients : Serves[c] >= b}
    IN  IF having = {} THEN {chainClient} \ {NoClient} ELSE having

AssignCell ==
    /\ Assigning
    /\ \E i \in Waiting : IsNext(i) /\ \E c \in Able(cells[i].bid) : StartDownload(i, c)
    /\ UNCHANGED <<request, chain, threads, has, importing, stack>>

NobodyAble ==
    /\ Assigning
    /\ \E i \in Waiting : IsNext(i) /\ Able(cells[i].bid) = {} /\ CleanChain(i - 1, cells)
    /\ Call(<<"advance_chain">>)
    /\ UNCHANGED <<request, threads, has, importing, network>>

\* The front block's client is slow beside the others.
FrontAsked ==
    cells # <<>> /\ cells[1].status = "DOWNLOADING" /\ cells[1].client # NoClient
RelativelySlow ==
    /\ FrontAsked /\ total < MaxBlocks /\ Len(cells) >= Window /\ Cardinality(clients) > 1

\* A request runs into its time-out: it was lost, or its client is too slow.
TimesOut(c, r) ==
    \/ r \notin inbox[c] /\ UNCHANGED faults
    \/ r \in inbox[c] /\ faults < MaxFaults /\ faults' = faults + 1

AssignEnds == ~Idle /\ Head(stack) = "assign" /\ (Waiting = {} \/ total >= MaxBlocks)

\* The slacker's cells are protected and it is disconnected.
DropSlacker ==
    /\ AssignEnds /\ FrontAsked /\ ~cells[1].protect
    /\ \/ RelativelySlow /\ UNCHANGED faults
       \/ ~RelativelySlow /\ TimesOut(cells[1].client, cells[1].bid)
    /\ LET who == cells[1].client
       IN  Disconnect(who, [i \in 1..Len(cells) |->
               IF cells[i].client = who THEN [cells[i] EXCEPT !.protect = TRUE] ELSE cells[i]])
    /\ Call(<<"advance">>)
    /\ UNCHANGED <<chain, threads, has, importing>>

AdvanceReturns ==
    /\ AssignEnds
    /\ RelativelySlow => cells[1].protect
    /\ Call(<<>>)
    /\ UNCHANGED <<books, request, chain, cells, threads, has, importing, network>>

Run ==
    \/ AdvanceSkipped \/ AdvanceDownload
    \/ AdvanceChainSkipped \/ DropLagging \/ NobodyToAsk \/ RequestChain
    \/ AssignCell \/ NobodyAble \/ AdvanceReturns

-----------------------------------------------------------------------------
Advance == stack' = <<"advance">>

OnConnect(c) ==
    /\ Idle /\ c \notin clients
    /\ clients' = clients \cup {c}
    /\ Advance
    /\ UNCHANGED <<downloading, total, request, chain, cells, threads, has, importing, network>>

\* The connection is lost, or the client sends what cannot be parsed; the
\* latter calls advance_download once more.
OnDisconnect(c) ==
    /\ Idle /\ c \in clients /\ faults < MaxFaults
    /\ Disconnect(c, cells)
    /\ faults' = faults + 1
    /\ stack' \in {<<"advance">>, <<"advance", "advance">>}
    /\ UNCHANGED <<chain, threads, has, importing>>

\* The client loses a request.
Lose(c) ==
    /\ Idle /\ faults < MaxFaults
    /\ \E r \in inbox[c] : inbox' = [inbox EXCEPT ![c] = @ \ {r}]
    /\ faults' = faults + 1
    /\ UNCHANGED <<books, request, chain, cells, threads, has, importing, stack>>

\* Mutant of OnChainTimer: the client is left connected and the request open.
OnChainTimerOnly ==
    /\ Idle /\ requestSent
    /\ TimesOut(chainClient, Chain)
    /\ Advance
    /\ UNCHANGED <<books, request, chain, cells, threads, has, importing, inbox>>

\* on_chain_timer.
OnChainTimer ==
    /\ Idle /\ requestSent
    /\ TimesOut(chainClient, Chain)
    /\ Disconnect(chainClient, cells)
    /\ Advance
    /\ UNCHANGED <<chain, threads, has, importing>>

\* on_download_timer.
OnDownloadTimer ==
    /\ Idle /\ FrontAsked /\ cells[1].protect
    /\ TimesOut(cells[1].client, cells[1].bid)
    /\ Disconnect(cells[1].client, cells)
    /\ Advance
    /\ UNCHANGED <<chain, threads, has, importing>>

\* A chain answer that is not, or no longer, expected is ignored.  What is
\* stored or in the window already is cut off the front of one that is.
Received(ids) ==
    LET known(b) == b \in has \/ \E i \in 1..Len(cells) : cells[i].bid = b
        new == {n \in 1..Len(ids) : ~known(ids[n]) /\ \A m \in 1..(n - 1) : known(ids[m])}
    IN  /\ chain' = (IF new = {} THEN <<>>
                     ELSE SubSeq(ids, CHOOSE n \in new : TRUE, Len(ids)))
        /\ requestSent' = FALSE

\* on_msg_notify_request_chain: the client answers with what it has above a
\* common block, or, which is a fault, with nothing and is disconnected.
OnChain(c) ==
    /\ Idle /\ Chain \in inbox[c]
    /\ \/ /\ chainClient = c /\ requestSent
          /\ \E from \in {b \in has : b <= Serves[c]} :
                Received([n \in 1..(Serves[c] - from + 1) |-> from + n - 1])
          /\ inbox' = [inbox EXCEPT ![c] = @ \ {Chain}]
          /\ Advance
          /\ UNCHANGED <<books, cells, chainClient, faults>>
       \/ /\ chainClient = c /\ requestSent /\ faults < MaxFaults
          /\ Disconnect(c, cells)
          /\ chain' = <<>> /\ faults' = faults + 1
          /\ stack' = <<"advance", "advance">>
       \/ /\ chainClient # c \/ ~requestSent
          /\ inbox' = [inbox EXCEPT ![c] = @ \ {Chain}]
          /\ UNCHANGED <<books, request, chain, cells, stack, faults>>
    /\ UNCHANGED <<threads, has, importing>>

\* The cell an answer is for.
CellOf(c, b) == {i \in With(cells, c) : cells[i].bid = b}

\* on_msg_notify_request_objects with a block: it goes to the threads, or
\* is a stray one.
OnBlock(c, b) ==
    /\ Idle /\ b \in inbox[c]
    /\ inbox' = [inbox EXCEPT ![c] = @ \ {b}]
    /\ \/ \E i \in CellOf(c, b) :
             /\ cells' = [cells EXCEPT ![i].client = NoClient, ![i].status = "PREPARING"]
             /\ work' = [work EXCEPT ![b] = @ + 1]
             /\ StopBooks(c)
       \/ CellOf(c, b) = {} /\ UNCHANGED <<books, cells, work>>
    /\ Advance
    /\ UNCHANGED <<request, chain, prepared, has, importing, faults>>

\* The same with a missed block: the client that sent the chain is asked; if
\* that is the one that missed it, the chain is given up from there on.
OnMissed(c, b) ==
    /\ Idle /\ b \in inbox[c] /\ faults < MaxFaults
    /\ faults' = faults + 1
    /\ \/ \E i \in CellOf(c, b) :
             \/ /\ chainClient \in {NoClient, c}
                /\ CleanChain(i - 1, cells)
                /\ inbox' = [inbox EXCEPT ![c] = @ \ {b}]
             \/ /\ chainClient \notin {NoClient, c}
                /\ cells' = [cells EXCEPT ![i].client = chainClient]
                /\ downloading' = [downloading EXCEPT ![c] = @ - 1, ![chainClient] = @ + 1]
                /\ inbox' = [inbox EXCEPT ![c] = @ \ {b}, ![chainClient] = @ \cup {b}]
                /\ UNCHANGED <<clients, total, chain>>
       \/ /\ CellOf(c, b) = {}
          /\ inbox' = [inbox EXCEPT ![c] = @ \ {b}]
          /\ UNCHANGED <<books, chain, cells>>
    /\ Advance
    /\ UNCHANGED <<request, threads, has, importing>>

\* thread_run: a thread finishes a block.
Prepare(b) ==
    /\ work[b] > 0
    /\ work' = [work EXCEPT ![b] = @ - 1]
    /\ prepared' = prepared \cup {b}
    /\ UNCHANGED <<books, request, chain, cells, has, importing, stack, network>>

\* on_idle: prepared blocks go to their cells, then blocks are added from the
\* front; add_block stores a block whose parent is stored.
Matched ==
    [i \in 1..Len(cells) |->
        IF cells[i].status = "PREPARING" /\ cells[i].bid \in prepared
        THEN [cells[i] EXCEPT !.status = "PREPARED"] ELSE cells[i]]
Ready(s, n) == \A i \in 1..n : s[i].status = "PREPARED"

OnIdle ==
    /\ Idle /\ ~importing
    /\ prepared' = {}
    /\ \/ /\ ~(Len(cells) > 0 /\ Ready(Matched, 1))
          /\ cells' = Matched
          /\ UNCHANGED <<has, stack>>
       \/ \E n \in 1..Len(cells) :
             /\ Ready(Matched, n)
             /\ cells' = SubSeq(Matched, n + 1, Len(cells))
             /\ has' = has \cup {h \in {cells[i].bid : i \in 1..n} :
                                    \A g \in 1..(h - 1) : g \in has \/ \E i \in 1..n : cells[i].bid = g}
             /\ Advance
    /\ UNCHANGED <<books, request, chain, work, importing, network>>

\* Node::on_idle during an import calls advance_download after each step.
OnImport ==
    /\ Idle /\ importing
    /\ importing' \in BOOLEAN
    /\ Advance
    /\ UNCHANGED <<books, request, chain, cells, threads, has, network>>

\* on_msg_timed_sync, of any client that is connected.
OnTimedSync ==
    /\ Idle /\ clients # {}
    /\ Advance
    /\ UNCHANGED <<books, request, chain, cells, threads, has, importing, network>>

\* on_msg_notify_new_block: a client announces its tip.
OnNewBlock(c) ==
    /\ Idle /\ c \in clients
    /\ Serves[c] \notin has /\ Serves[c] - 1 \in has
    /\ has' = has \cup {Serves[c]}
    /\ Advance
    /\ UNCHANGED <<books, request, chain, cells, threads, importing, network>>

Answer(c) == OnChain(c) \/ \E b \in Bids : OnBlock(c, b)

Next ==
    \/ Run \/ DropSlacker
    \/ \E c \in Clients :
          \/ OnConnect(c) \/ OnDisconnect(c) \/ Lose(c) \/ Answer(c) \/ OnNewBlock(c)
          \/ \E b \in Bids : OnMissed(c, b)
    \/ OnChainTimer \/ OnDownloadTimer \/ OnTimedSync
    \/ \E b \in Bids : Prepare(b)
    \/ OnIdle \/ OnImport

Spec == Init /\ [][Next]_vars

\* The event loop handles every timer and message in the end, P2P connects
\* again, the import ends, and clients answer what they do not lose.
FairSpec ==
    /\ Spec
    /\ WF_vars(Run \/ DropSlacker) /\ SF_vars(DropSlacker)
    /\ SF_vars(OnIdle) /\ SF_vars(OnImport /\ ~importing')
    /\ SF_vars(OnChainTimer) /\ SF_vars(OnDownloadTimer) /\ SF_vars(OnTimedSync)
    /\ \A b \in Bids : WF_vars(Prepare(b))
    /\ \A c \in Clients : SF_vars(OnConnect(c)) /\ SF_vars(Answer(c))

-----------------------------------------------------------------------------
\* The counters by which the downloader limits itself and which its
\* invariants check are those of the cells, over time-outs, missed blocks and
\* nested disconnects: no client's is off, so none of the invariant() calls
\* of on_disconnect and stop_download ends the process, and no slot is lost.
CountersAgree ==
    /\ \A c \in Clients : downloading[c] = Cardinality(With(cells, c))
    /\ total = Cardinality(Taken(cells))
    /\ \A i \in Taken(cells) : cells[i].client \in clients

\* After every event somebody works at every cell of the window: a
\* connected client, a thread or the next on_idle; and with an empty window
\* a client that has more was asked for its chain.
NobodyForgotten ==
    Idle =>
        /\ \A i \in 1..Len(cells) :
              cells[i].status = "PREPARING" => work[cells[i].bid] > 0 \/ cells[i].bid \in prepared
        /\ ~importing => Waiting = {} \/ total >= MaxBlocks
        /\ requestSent => chainClient \in clients
        /\ (~importing /\ cells = <<>> /\ Worth # {}) => requestSent

\* In spite of any finite number of faults the node gets every block some
\* client has.
Synchronises == <>(\A c \in Clients : Serves[c] \in has)
=============================================================================
