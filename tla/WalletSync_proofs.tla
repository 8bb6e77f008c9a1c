-------------------------- MODULE WalletSync_proofs -------------------------
(***************************************************************************)
(* Proofs about WalletSync for any number of connections, payments and     *)
(* faults: no invariant() of the two ends fails, and an answer is the one  *)
(* to the request at hand.                                                 *)
(***************************************************************************)
EXTENDS WalletSync, WellFoundedInduction, TLAPS

MessageType == [req : Requests \cup {None}, ans : Replies \cup {None}, alive : BOOLEAN]
LinkType == [conn : Conns \cup {None}, ready : BOOLEAN]
WalletType == [tip : Nat, version : Nat, queue : SUBSET Payments, next : Nat]

\* The types of both ends.
NodeTypes == tip \in Nat \ {0} /\ version \in Nat /\ running \in BOOLEAN
ServerTypes == DOMAIN served \subseteq Conns /\ polls \subseteq [conn : Conns, status : Statuses]
WalletTypes ==
    /\ net \in [Conns -> MessageType] /\ link \in LinkType
    /\ sent \in Requests \cup {None} /\ wallet \in WalletType

\* Whose turn it is: a request at hand excludes the status timer, the
\* reconnect timer runs only for a request without a connection, and on an
\* open connection the wallet may write exactly when it has no request.
Turns ==
    /\ timer => sent = None
    /\ reconnect => sent # None /\ link.conn = None
    /\ link.conn # None => (link.ready <=> sent = None)

\* A long poll belongs to a client that waits, and to one poll each.
PollsServed ==
    /\ \A q \in polls : q.conn \in DOMAIN served /\ served[q.conn]
    /\ \A q, r \in polls : q.conn = r.conn => q = r

\* On the connection in use, l, there is at most one of a request, an answer
\* and a long poll, and it is of the request r at hand.
Talk(n, ps, l, r) ==
    l.conn # None =>
        /\ n[l.conn].req # None => n[l.conn].req = r /\ n[l.conn].ans = None
        /\ n[l.conn].ans # None => n[l.conn].ans.to = r
        /\ \A q \in ps : q.conn = l.conn =>
              n[l.conn].req = None /\ n[l.conn].ans = None /\ Request("status", q.status) = r
OneTalk == Talk(net, polls, link, sent)

Inv == NodeTypes /\ ServerTypes /\ WalletTypes /\ Turns /\ PollsServed /\ OneTalk /\ ~broken

-----------------------------------------------------------------------------
\* The connection that the constructor opens has its request and no more.
LEMMA InvInit == Init => Inv
<1> SUFFICES ASSUME Init PROVE Inv
    OBVIOUS
<1> DEFINE c == CHOOSE d \in Conns : TRUE
           r == Request("blocks", 0)
<1>1. c \in Conns /\ c # None /\ r \in Requests /\ r # None
    BY SyncAssumption DEF SyncAssumption, Request, Requests
<1> HIDE DEF c, r
<1>2. /\ tip = 1 /\ version = 2 /\ running = TRUE /\ polls = {} /\ served = [d \in {} |-> FALSE]
      /\ net = [d \in Conns |-> IF d = c THEN [req |-> r, ans |-> None, alive |-> TRUE] ELSE Quiet]
      /\ link = [conn |-> c, ready |-> FALSE] /\ sent = r /\ reconnect = FALSE
      /\ wallet = [tip |-> 0, version |-> 1, queue |-> {}, next |-> 0]
      /\ timer = FALSE /\ broken = FALSE
    BY DEF Init, c, r
<1>3. NodeTypes /\ ServerTypes /\ PollsServed
    BY <1>2 DEF NodeTypes, ServerTypes, PollsServed
<1>4. WalletTypes
    <2>1. net \in [Conns -> MessageType]
        BY <1>1, <1>2 DEF MessageType, Quiet
    <2>2. link \in LinkType /\ wallet \in WalletType
        BY <1>1, <1>2 DEF LinkType, WalletType
    <2>3. QED
        BY <1>1, <1>2, <2>1, <2>2 DEF WalletTypes
<1>5. Turns
    BY <1>1, <1>2 DEF Turns
<1>6. OneTalk
    BY <1>1, <1>2 DEF OneTalk, Talk
<1>7. QED
    BY <1>2, <1>3, <1>4, <1>5, <1>6 DEF Inv

\* A message is not None, and the connection in use is a connection.
LEMMA NotNone ==
    /\ \A r \in Requests : r # None
    /\ \A a \in Replies : a # None /\ a.to \in Requests /\ a.status \in Statuses
    /\ \A st \in Statuses : Request("status", st) \in Requests
    /\ None \notin Conns
BY SyncAssumption DEF SyncAssumption, Replies, Requests, Request

\* What is on the connection in use when there is no request at hand: nothing.
LEMMA NothingAtHand ==
    ASSUME Inv, sent = None, link.conn # None
    PROVE  /\ link.ready /\ net[link.conn].req = None /\ net[link.conn].ans = None
           /\ \A q \in polls : q.conn # link.conn
<1>1. link.conn \in Conns /\ net[link.conn] \in MessageType
    BY DEF Inv, WalletTypes, LinkType
<1>2. /\ net[link.conn].req \in Requests \cup {None}
      /\ net[link.conn].ans \in Replies \cup {None}
    BY <1>1 DEF MessageType
<1>3. \A q \in polls : q.status \in Statuses
    BY DEF Inv, ServerTypes
<1>4. QED
    BY <1>2, <1>3, NotNone DEF Inv, Turns, OneTalk, Talk

-----------------------------------------------------------------------------
\* The wallet.

\* The two ends of a step of the wallet: the node is as it was.
LEMMA NodeStays ==
    ASSUME Inv, UNCHANGED <<nodeVars, serverVars>>
    PROVE  NodeTypes' /\ ServerTypes' /\ PollsServed'
BY DEF Inv, NodeTypes, ServerTypes, PollsServed, nodeVars, serverVars

\* A request is put on a new connection, or on an open one with nothing on it.
LEMMA SendsKeeps ==
    ASSUME Inv, NEW r \in Requests, NEW n \in [Conns -> MessageType], NEW l \in LinkType,
           NEW armed, ~armed, l.conn = link.conn,
           l.conn # None => /\ l.ready /\ n[l.conn].req = None /\ n[l.conn].ans = None
                            /\ \A q \in polls : q.conn # l.conn,
           Sends(r, l, n, armed), sent' = r, ~timer', wallet' \in WalletType,
           UNCHANGED <<nodeVars, serverVars>>
    PROVE  Inv'
<1>1. NodeTypes' /\ ServerTypes' /\ PollsServed'
    BY NodeStays
<1>2. r # None /\ None \notin Conns /\ polls' = polls
    BY NotNone DEF serverVars
<1>3. CASE l.conn = None
    <2>0. Connects(r, n, armed)
        BY <1>3 DEF Sends
    <2>1. CASE /\ Free # {}
               /\ net' = [n EXCEPT ![Fresh] = [req |-> IF running THEN r ELSE None, ans |-> None, alive |-> running]]
               /\ link' = [conn |-> Fresh, ready |-> FALSE]
               /\ reconnect' = armed /\ broken' = broken
        <3>1. Fresh \in Conns /\ Fresh \notin DOMAIN served
            BY <2>1 DEF Free, Fresh
        <3> DEFINE f == Fresh
        <3> HIDE DEF f
        <3>2. /\ f \in Conns /\ link'.conn = f /\ ~link'.ready /\ link' \in LinkType
              /\ f # None
            BY <2>1, <3>1, <1>2 DEF f, LinkType
        <3>3. \A q \in polls : q.conn # f
            BY <3>1 DEF f, Inv, PollsServed
        <3>4. running \in BOOLEAN
            BY DEF Inv, NodeTypes
        <3>5. net' \in [Conns -> MessageType] /\ net'[f].ans = None /\ net'[f].req \in {r, None}
            BY <2>1, <3>2, <3>4 DEF f, MessageType
        <3>6. WalletTypes' /\ Turns' /\ OneTalk' /\ ~broken'
            BY <1>2, <2>1, <3>2, <3>3, <3>5 DEF WalletTypes, Turns, OneTalk, Talk, Inv
        <3>7. QED
            BY <1>1, <3>6 DEF Inv
    <2>2. CASE link' = Closed /\ net' = n /\ broken' = broken
        <3>1. link' \in LinkType /\ link'.conn = None
            BY <2>2 DEF Closed, LinkType
        <3>2. WalletTypes' /\ Turns' /\ OneTalk' /\ ~broken'
            BY <1>2, <2>2, <3>1 DEF WalletTypes, Turns, OneTalk, Talk, Inv
        <3>3. QED
            BY <1>1, <3>2 DEF Inv
    <2>3. QED
        BY <2>0, <2>1, <2>2 DEF Connects
<1>4. CASE l.conn # None
    <2>0. Writes(r, l, n, armed) /\ l.conn \in Conns
        BY <1>4 DEF Sends, LinkType
    <2>1. link' \in LinkType /\ link'.conn = l.conn /\ ~link'.ready
        BY <2>0 DEF Writes, LinkType
    <2>2. net' \in [Conns -> MessageType] /\ net'[l.conn].ans = None /\ net'[l.conn].req \in {r, None}
        BY <2>0, <1>4 DEF Writes, MessageType
    <2>3. ~broken' /\ ~reconnect'
        BY <2>0, <1>4 DEF Writes
    <2>4. WalletTypes' /\ Turns' /\ OneTalk'
        BY <1>2, <1>4, <2>1, <2>2, <2>3 DEF WalletTypes, Turns, OneTalk, Talk
    <2>5. QED
        BY <1>1, <2>3, <2>4 DEF Inv
<1>5. QED
    BY <1>3, <1>4

\* The status timer fires with no request at hand.
LEMMA SendGetStatusKeeps ==
    ASSUME Inv, SendGetStatus
    PROVE  Inv'
<1> DEFINE r == Request("status", [tip |-> wallet.tip, version |-> wallet.version])
<1>1. r \in Requests
    BY DEF Inv, WalletTypes, WalletType, Request, Requests, Statuses
<1> HIDE DEF r
<1>2. sent = None /\ ~reconnect
    BY DEF Inv, Turns, SendGetStatus
<1>3. Sends(r, link, net, reconnect) /\ sent' = r
    BY <1>2 DEF SendGetStatus, SetRequest, r
<1>4. link \in LinkType /\ net \in [Conns -> MessageType] /\ wallet' \in WalletType /\ ~timer'
    BY DEF SendGetStatus, Inv, WalletTypes
<1>5. UNCHANGED <<nodeVars, serverVars>>
    BY DEF SendGetStatus
<1>6. QED
    BY <1>1, <1>2, <1>3, <1>4, <1>5, NothingAtHand, SendsKeeps

\* A connection is lost; a request at hand waits for the reconnect timer.
LEMMA OnClientDisconnectKeeps ==
    ASSUME Inv, OnClientDisconnect
    PROVE  Inv'
<1>1. NodeTypes' /\ ServerTypes' /\ PollsServed'
    BY NodeStays DEF OnClientDisconnect
<1>2. link.conn \in Conns /\ net \in [Conns -> MessageType]
    BY DEF OnClientDisconnect, Inv, WalletTypes, LinkType
<1>3. net' \in [Conns -> MessageType]
    BY <1>2 DEF OnClientDisconnect, MessageType, Quiet
<1>4. link' \in LinkType /\ link'.conn = None
    BY DEF OnClientDisconnect, Closed, LinkType
<1>5. UNCHANGED <<sent, wallet, timer, broken>>
    BY DEF OnClientDisconnect, syncVars
<1>6. reconnect' => sent # None
    BY DEF OnClientDisconnect, Inv, Turns
<1>7. WalletTypes' /\ Turns' /\ OneTalk' /\ ~broken'
    BY <1>3, <1>4, <1>5, <1>6 DEF WalletTypes, Turns, OneTalk, Talk, Inv
<1>8. QED
    BY <1>1, <1>7 DEF Inv

\* A request without a connection is sent again, or it is too late for it.
LEMMA ReconnectKeeps ==
    ASSUME Inv, OnReconnectTimer
    PROVE  Inv'
<1>0. sent # None /\ link.conn = None /\ ~timer /\ UNCHANGED <<nodeVars, serverVars, wallet>>
    BY DEF OnReconnectTimer, Inv, Turns
<1>1. CASE late
    <2>1. sent' = None /\ ~reconnect' /\ UNCHANGED <<net, link, broken, polls>>
        BY <1>1 DEF OnReconnectTimer, serverVars
    <2>2. NodeTypes' /\ ServerTypes' /\ PollsServed'
        BY <1>0, NodeStays
    <2>3. WalletTypes' /\ Turns' /\ OneTalk' /\ ~broken'
        BY <1>0, <2>1 DEF WalletTypes, Turns, OneTalk, Talk, Inv
    <2>4. QED
        BY <2>2, <2>3 DEF Inv
<1>2. CASE ~late
    <2>1. Sends(sent, link, net, FALSE) /\ sent' = sent /\ ~timer'
        BY <1>0, <1>2 DEF OnReconnectTimer
    <2>2. /\ link \in LinkType /\ net \in [Conns -> MessageType] /\ wallet' \in WalletType
          /\ sent \in Requests
        BY <1>0 DEF Inv, WalletTypes
    <2>3. QED
        BY <1>0, <2>1, <2>2, SendsKeeps
<1>3. QED
    BY <1>1, <1>2

\* A set of payments has a least one.
LEMMA LeastPayment ==
    ASSUME NEW S, S # {}, S \subseteq Payments
    PROVE  \E p \in S : \A q \in S : p <= q
<1>1. S \subseteq Nat
    BY SyncAssumption DEF SyncAssumption
<1>2. PICK p \in S : \A q \in S : ~(<<q, p>> \in OpToRel(<, Nat))
    BY <1>1, NatLessThanWellFounded, WFMin
<1>3. ASSUME NEW q \in S PROVE p <= q
    <2>1. p \in Nat /\ q \in Nat
        BY <1>1
    <2>2. OpToRel(<, Nat) = {x \in Nat \X Nat : x[1] < x[2]}
        BY DEF OpToRel
    <2>3. q < p => <<q, p>> \in {x \in Nat \X Nat : x[1] < x[2]}
        BY <2>1
    <2>4. ~(q < p)
        BY <1>2, <2>2, <2>3, Zenon
    <2>5. QED
        BY <2>1, <2>4
<1>4. QED
    BY <1>3

\* advance_sync asks for something that exists, and its cursor is a payment.
LEMMA NextRequestType ==
    ASSUME NEW w \in WalletType, NEW s, NEW r, r = NextRequest(w, s)
    PROVE  r \in Requests \cup {None} /\ [w EXCEPT !.next = Cursor(w, r)] \in WalletType
<1>1. Unsent(w) \subseteq Payments
    BY DEF Unsent, WalletType
<1>2. Unsent(w) # {} => SendSendTransaction(w) \in [kind : {"send"}, arg : Payments]
    BY <1>1, LeastPayment DEF SendSendTransaction, NextFromSendingQueue, Request
<1>3. r \in {SendGetBlocks, SendSyncPool, None} \/ (Unsent(w) # {} /\ r = SendSendTransaction(w))
    BY DEF NextRequest
<1>4. r \in Requests \cup {None}
    BY <1>2, <1>3 DEF SendGetBlocks, SendSyncPool, Request, Requests
<1>5. r.kind = "send" /\ r # None => r.arg \in Nat
    <2>1. SendGetBlocks.kind = "blocks" /\ SendSyncPool.kind = "pool"
        BY DEF SendGetBlocks, SendSyncPool, Request
    <2>2. Payments \subseteq Nat
        BY SyncAssumption DEF SyncAssumption
    <2>3. QED
        BY <1>2, <1>3, <2>1, <2>2
<1>6. Cursor(w, r) \in Nat
    BY <1>5 DEF Cursor, WalletType
<1>7. QED
    BY <1>4, <1>6 DEF WalletType

\* What an answer does to the wallet.
LEMMA AppliedType ==
    ASSUME NEW w \in WalletType, NEW a \in Replies
    PROVE  Applied(w, a) \in WalletType
<1>1. a.status.tip \in Nat /\ a.status.version \in Nat
    BY DEF Replies, Statuses
<1>2. BlocksCame(w, a) \in WalletType
    BY <1>1 DEF BlocksCame, WalletType
<1>3. PoolCame(w, a) \in WalletType
    BY <1>1 DEF PoolCame, WalletType
<1>4. PaymentCame(w, a) \in WalletType
    BY DEF PaymentCame, WalletType
<1>5. QED
    BY <1>2, <1>3, <1>4 DEF Applied

\* An answer ends the request at hand, and no timer runs while there is one.
LEMMA OnClientResponseKeeps ==
    ASSUME Inv, OnClientResponse
    PROVE  Inv'
<1> DEFINE c == link.conn
           a == net[c].ans
           l == [link EXCEPT !.ready = TRUE]
           n == [net EXCEPT ![c].ans = None]
<1>1. /\ c \in Conns /\ net \in [Conns -> MessageType] /\ link \in LinkType /\ wallet \in WalletType
      /\ net[c] \in MessageType
    BY DEF OnClientResponse, Inv, WalletTypes, LinkType
<1>2. a \in Replies /\ c # None /\ ~link.ready
    BY <1>1 DEF OnClientResponse, MessageType
<1>3. sent # None /\ ~timer /\ ~reconnect /\ net[c].req = None /\ \A q \in polls : q.conn # c
    BY <1>2, NotNone DEF Inv, Turns, OneTalk, Talk
<1>4. l \in LinkType /\ l.conn = c /\ l.ready
    BY <1>1 DEF LinkType
<1>5. n \in [Conns -> MessageType] /\ n[c].ans = None /\ n[c].req = None
    BY <1>1, <1>3 DEF MessageType
<1>6. UNCHANGED <<nodeVars, serverVars>>
    BY DEF OnClientResponse
<1>7. NodeTypes' /\ ServerTypes' /\ PollsServed' /\ polls' = polls
    BY <1>6, NodeStays DEF serverVars
<1>8. CASE a.result = "error"
    <2>1. /\ sent' = None /\ link' = l /\ net' = n
          /\ UNCHANGED <<wallet, reconnect, broken>>
        BY <1>8 DEF OnClientResponse
    <2> HIDE DEF l, n
    <2>2. WalletTypes' /\ Turns' /\ OneTalk' /\ ~broken'
        BY <1>1, <1>2, <1>3, <1>4, <1>5, <1>7, <2>1 DEF WalletTypes, Turns, OneTalk, Talk, Inv
    <2>3. QED
        BY <1>7, <2>2 DEF Inv
<1>9. CASE a.result # "error"
    <2>1. PICK w, s : w = Applied(wallet, a) /\ AdvanceSync(w, s, l, n)
        BY <1>9 DEF OnClientResponse
    <2>2. PICK r : r = NextRequest(w, s)
        OBVIOUS
    <2>3. w \in WalletType
        BY <1>1, <1>2, <2>1, AppliedType
    <2>4. r \in Requests \cup {None} /\ wallet' \in WalletType
        BY <2>1, <2>2, <2>3, NextRequestType DEF AdvanceSync
    <2> HIDE DEF l, n, a
    <2>5. CASE r = None
        <3>1. sent' = None /\ link' = l /\ net' = n /\ UNCHANGED <<reconnect, broken>>
            BY <2>1, <2>2, <2>5 DEF AdvanceSync
        <3>2. WalletTypes' /\ Turns' /\ OneTalk' /\ ~broken'
            BY <1>2, <1>3, <1>4, <1>5, <1>7, <2>4, <3>1 DEF WalletTypes, Turns, OneTalk, Talk, Inv
        <3>3. QED
            BY <1>7, <3>2 DEF Inv
    <2>6. CASE r # None
        <3>1. SetRequest(r, l, n, FALSE) /\ ~timer'
            BY <1>3, <2>1, <2>2, <2>6 DEF AdvanceSync
        <3>2. Sends(r, l, n, reconnect) /\ sent' = r /\ r \in Requests
            BY <2>4, <2>6, <3>1 DEF SetRequest
        <3>3. QED
            BY <1>3, <1>4, <1>5, <1>6, <2>4, <3>1, <3>2, SendsKeeps
    <2>7. QED
        BY <2>5, <2>6
<1>10. QED
    BY <1>8, <1>9

\* The clock and a new payment touch nothing of the conversation.
LEMMA WalletQuiet ==
    ASSUME Inv, UNCHANGED <<nodeVars, serverVars, net, link, sent, reconnect, timer, broken>>,
           wallet' \in WalletType
    PROVE  Inv'
<1>1. NodeTypes' /\ ServerTypes' /\ PollsServed' /\ polls' = polls
    BY NodeStays DEF serverVars
<1>2. WalletTypes' /\ Turns' /\ OneTalk' /\ ~broken'
    BY <1>1 DEF WalletTypes, Turns, OneTalk, Talk, Inv
<1>3. QED
    BY <1>1, <1>2 DEF Inv

-----------------------------------------------------------------------------
\* The node.

\* A step of the node leaves the wallet's turns as they are.
LEMMA NodeStep ==
    ASSUME Inv, UNCHANGED <<agentVars, syncVars>>, NodeTypes', ServerTypes', PollsServed',
           net' \in [Conns -> MessageType], Talk(net', polls', link, sent), ~broken'
    PROVE  Inv'
<1>1. UNCHANGED <<link, sent, reconnect, wallet, timer>>
    BY DEF agentVars, syncVars
<1>2. WalletTypes' /\ Turns'
    BY <1>1 DEF Inv, WalletTypes, Turns
<1>3. OneTalk'
    BY <1>1 DEF OneTalk
<1>4. QED
    BY <1>2, <1>3 DEF Inv

\* A handler answers the request it takes.
LEMMA ReplyTalks ==
    ASSUME Inv, NEW c \in Conns, Takes(c), NEW result \in {"ok", "kept", "dropped", "error"},
           NEW st \in Statuses, NEW n, n = Replied(Taken(c), c, Answer(net[c].req, result, st))
    PROVE  n \in [Conns -> MessageType] /\ Talk(n, polls, link, sent)
<1> DEFINE a == Answer(net[c].req, result, st)
<1>1. net \in [Conns -> MessageType] /\ net[c].req \in Requests /\ net[c].req # None
    BY DEF Inv, WalletTypes, MessageType, Takes
<1>2. a \in Replies /\ a.to = net[c].req
    BY <1>1 DEF Answer, Replies
<1> HIDE DEF a
<1>3. /\ Taken(c) \in [Conns -> MessageType] /\ Taken(c)[c].req = None /\ Taken(c)[c].ans = net[c].ans
      /\ \A d \in Conns \ {c} : Taken(c)[d] = net[d]
    BY <1>1 DEF Taken, MessageType
<1>4. n = IF Taken(c)[c].alive THEN [Taken(c) EXCEPT ![c].ans = a] ELSE Taken(c)
    BY DEF Replied, a
<1>5. /\ n \in [Conns -> MessageType] /\ n[c].req = None /\ n[c].ans \in {net[c].ans, a}
      /\ \A d \in Conns \ {c} : n[d] = net[d]
    BY <1>2, <1>3, <1>4 DEF MessageType
<1>6. link.conn # None => link.conn \in Conns
    BY DEF Inv, WalletTypes, LinkType
<1>7. Talk(n, polls, link, sent)
    <2>1. CASE link.conn = c
        BY <1>1, <1>2, <1>5, <2>1 DEF Inv, OneTalk, Talk
    <2>2. CASE link.conn # c
        BY <1>5, <1>6, <2>2 DEF Inv, OneTalk, Talk
    <2>3. QED
        BY <2>1, <2>2
<1>8. QED
    BY <1>5, <1>7

\* advance_long_poll answers each poll that is due on the connection it came
\* on, where nothing else is under way.
LEMMA AdvanceLongPollKeeps ==
    ASSUME Inv, NEW n \in [Conns -> MessageType], Talk(n, polls, link, sent),
           NEW s \in Statuses, AdvanceLongPoll(s, n)
    PROVE  /\ ServerTypes' /\ PollsServed' /\ net' \in [Conns -> MessageType]
           /\ Talk(net', polls', link, sent) /\ ~broken'
<1> DEFINE due == LongPolls(s)
           picked(d) == CHOOSE q \in due : q.conn = d
           told(d) == Answer(Request("status", picked(d).status), "ok", s)
<1>1. due \subseteq polls
    BY DEF LongPolls
<1>2. /\ polls' = polls \ due
      /\ served' = [d \in DOMAIN served |-> served[d] /\ \A q \in due : q.conn # d]
      /\ broken' = \E q \in due : q.conn \notin DOMAIN served \/ ~served[q.conn]
      /\ net' = [d \in Conns |-> IF \E q \in due : q.conn = d /\ n[d].alive
                                 THEN [n[d] EXCEPT !.ans = told(d)] ELSE n[d]]
    BY DEF AdvanceLongPoll
<1> HIDE DEF due
<1>3. \A d : (\E q \in due : q.conn = d) => picked(d) \in due /\ picked(d).conn = d
    OBVIOUS
<1>4. \A q \in polls : q.conn \in DOMAIN served /\ served[q.conn] /\ q.status \in Statuses
    BY DEF Inv, PollsServed, ServerTypes
<1>5. \A q, r \in polls : q.conn = r.conn => q = r
    BY DEF Inv, PollsServed
<1> HIDE DEF picked
<1>6. ~broken'
    BY <1>1, <1>2, <1>4
<1>7. ServerTypes'
    BY <1>2 DEF Inv, ServerTypes
<1>8. PollsServed'
    <2>1. \A q \in polls' : q.conn \in DOMAIN served'
        BY <1>2, <1>4
    <2>2. ASSUME NEW q \in polls' PROVE served'[q.conn]
        <3>1. \A r \in due : r.conn # q.conn
            BY <1>1, <1>2, <1>5
        <3>2. QED
            BY <1>2, <1>4, <3>1
    <2>3. QED
        BY <1>2, <1>5, <2>1, <2>2 DEF PollsServed
<1>9. \A d : (\E q \in due : q.conn = d) =>
        told(d) \in Replies /\ told(d).to = Request("status", picked(d).status)
    BY <1>1, <1>3, <1>4, NotNone DEF Answer, Replies
<1> HIDE DEF told
<1>10. ASSUME NEW d \in Conns PROVE net'[d] \in MessageType
    <2>1. n[d] \in MessageType
        OBVIOUS
    <2>2. QED
        BY <1>2, <1>9, <2>1 DEF MessageType
<1>11. net' \in [Conns -> MessageType]
    BY <1>2, <1>10
<1>12. ASSUME link.conn # None PROVE Talk(net', polls', link, sent)
    <2> DEFINE c == link.conn
    <2>1. c \in Conns /\ n[c] \in MessageType
        BY <1>12 DEF Inv, WalletTypes, LinkType
    <2>2. CASE \E q \in due : q.conn = c /\ n[c].alive
        <3>1. picked(c) \in polls /\ picked(c).conn = c /\ picked(c) \in due
            BY <1>1, <1>3, <2>2
        <3>2. /\ n[c].req = None /\ Request("status", picked(c).status) = sent
            BY <1>12, <3>1 DEF Talk
        <3>3. net'[c] = [n[c] EXCEPT !.ans = told(c)]
            BY <1>2, <2>1, <2>2
        <3>4. net'[c].req = None /\ net'[c].ans.to = sent
            BY <1>9, <2>1, <2>2, <3>2, <3>3 DEF MessageType
        <3>5. \A q \in polls' : q.conn # c
            BY <1>2, <1>5, <3>1
        <3>6. QED
            BY <3>4, <3>5 DEF Talk
    <2>3. CASE ~ \E q \in due : q.conn = c /\ n[c].alive
        <3>1. net'[c] = n[c]
            BY <1>2, <2>1, <2>3
        <3>2. QED
            BY <1>2, <3>1 DEF Talk
    <2>4. QED
        BY <2>2, <2>3
<1>13. link.conn = None => Talk(net', polls', link, sent)
    BY DEF Talk
<1>14. QED
    BY <1>6, <1>7, <1>8, <1>11, <1>12, <1>13

\* The node's status has its type.
LEMMA StatusType ==
    ASSUME Inv
    PROVE  Status \in Statuses
BY DEF Inv, NodeTypes, Status, Statuses

\* A handler that answers and changes nothing else.
LEMMA AnswerKeeps ==
    ASSUME Inv, NEW c \in Conns, Takes(c), NEW result \in {"ok", "kept", "dropped", "error"},
           net' = Replied(Taken(c), c, Answer(net[c].req, result, Status)),
           UNCHANGED <<nodeVars, serverVars, agentVars, syncVars, broken>>
    PROVE  Inv'
<1>1. net' \in [Conns -> MessageType] /\ Talk(net', polls, link, sent)
    BY ReplyTalks, StatusType
<1>2. NodeTypes' /\ ServerTypes' /\ PollsServed' /\ polls' = polls /\ ~broken'
    BY NodeStays DEF serverVars, Inv
<1>3. QED
    BY <1>1, <1>2, NodeStep

\* A wallet that knows it all is kept waiting: its request becomes the poll.
LEMMA OnGetStatusKeeps ==
    ASSUME Inv, NEW c \in Conns, OnGetStatus(c)
    PROVE  Inv'
<1>0. Takes(c) /\ UNCHANGED <<nodeVars, agentVars, syncVars, broken>>
    BY DEF OnGetStatus
<1>1. CASE net[c].req.arg = Status
    <2> DEFINE q == [conn |-> c, status |-> Status]
    <2>1. /\ polls' = polls \cup {q} /\ served' = [served EXCEPT ![c] = TRUE] /\ net' = Taken(c)
          /\ net[c].req.kind = "status" /\ c \in DOMAIN served /\ ~served[c]
        BY <1>1 DEF OnGetStatus, Takes
    <2>2. net \in [Conns -> MessageType] /\ net[c].req \in Requests /\ net[c].req # None
        BY <1>0 DEF Inv, WalletTypes, MessageType, Takes
    <2>3. net[c].req = Request("status", Status)
        BY <1>1, <2>1, <2>2 DEF Requests, Request
    <2>4. q \in [conn : Conns, status : Statuses] /\ q.conn = c /\ q.status = Status
        BY StatusType
    <2> HIDE DEF q
    <2>5. /\ net' \in [Conns -> MessageType] /\ net'[c].req = None /\ net'[c].ans = net[c].ans
          /\ \A d \in Conns \ {c} : net'[d] = net[d]
        BY <2>1, <2>2 DEF Taken, MessageType
    <2>6. NodeTypes' /\ ~broken'
        BY <1>0 DEF Inv, NodeTypes, nodeVars
    <2>7. ServerTypes'
        BY <2>1, <2>4 DEF Inv, ServerTypes
    <2>8. \A r \in polls : r.conn # c
        BY <2>1 DEF Inv, PollsServed
    <2>9. PollsServed'
        BY <2>1, <2>4, <2>8 DEF Inv, PollsServed
    <2>10. link.conn # None => link.conn \in Conns
        BY DEF Inv, WalletTypes, LinkType
    <2>11. Talk(net', polls', link, sent)
        <3>1. CASE link.conn = c
            BY <2>1, <2>2, <2>3, <2>4, <2>5, <2>8, <3>1 DEF Inv, OneTalk, Talk
        <3>2. CASE link.conn # c
            BY <2>1, <2>4, <2>5, <2>10, <3>2 DEF Inv, OneTalk, Talk
        <3>3. QED
            BY <3>1, <3>2
    <2>12. QED
        BY <1>0, <2>5, <2>6, <2>7, <2>9, <2>11, NodeStep
<1>2. CASE net[c].req.arg # Status
    <2>1. /\ net' = Replied(Taken(c), c, Answer(net[c].req, "ok", Status))
          /\ UNCHANGED serverVars
        BY <1>2 DEF OnGetStatus, serverVars
    <2>2. QED
        BY <1>0, <2>1, AnswerKeeps
<1>3. QED
    BY <1>1, <1>2

\* A payment comes: what the pool did not have changes the status, which tells
\* the polls of other connections.
LEMMA HandleSendTransactionKeeps ==
    ASSUME Inv, NEW c \in Conns, HandleSendTransaction(c)
    PROVE  Inv'
<1> DEFINE r(result) == Replied(Taken(c), c, Answer(net[c].req, result, Status))
<1>0. /\ Takes(c) /\ UNCHANGED <<tip, running, agentVars, syncVars, faults>>
      /\ \/ /\ version' = version + 1
            /\ AdvanceLongPoll([tip |-> tip, version |-> version + 1], r("ok"))
         \/ net' = r("ok") /\ UNCHANGED <<version, serverVars, broken>>
         \/ net' = r("kept") /\ UNCHANGED <<version, serverVars, broken>>
         \/ net' = r("dropped") /\ UNCHANGED <<version, serverVars, broken>>
    BY DEF HandleSendTransaction
<1>1. CASE /\ version' = version + 1
           /\ AdvanceLongPoll([tip |-> tip, version |-> version + 1], r("ok"))
    <2>1. r("ok") \in [Conns -> MessageType] /\ Talk(r("ok"), polls, link, sent)
        BY <1>0, ReplyTalks, StatusType
    <2>2. [tip |-> tip, version |-> version + 1] \in Statuses /\ NodeTypes'
        BY <1>0, <1>1 DEF Inv, NodeTypes, Statuses
    <2> HIDE DEF r
    <2>3. /\ ServerTypes' /\ PollsServed' /\ net' \in [Conns -> MessageType]
          /\ Talk(net', polls', link, sent) /\ ~broken'
        BY <1>1, <2>1, <2>2, AdvanceLongPollKeeps
    <2>4. QED
        BY <1>0, <2>2, <2>3, NodeStep
<1>2. CASE \E result \in {"ok", "kept", "dropped"} :
              net' = r(result) /\ UNCHANGED <<version, serverVars, broken>>
    <2>1. net' \in [Conns -> MessageType] /\ Talk(net', polls, link, sent)
        BY <1>0, <1>2, ReplyTalks, StatusType
    <2>2. NodeTypes' /\ ServerTypes' /\ PollsServed' /\ polls' = polls /\ ~broken'
        BY <1>0, <1>2 DEF Inv, NodeTypes, ServerTypes, PollsServed, serverVars
    <2>3. QED
        BY <1>0, <2>1, <2>2, NodeStep
<1>3. QED
    BY <1>0, <1>1, <1>2

\* A connection is accepted: no poll is of it yet.
LEMMA AcceptKeeps ==
    ASSUME Inv, NEW c \in Conns, Accept(c)
    PROVE  Inv'
<1>1. /\ served' = [d \in DOMAIN served \cup {c} |-> IF d = c THEN FALSE ELSE served[d]]
      /\ c \notin DOMAIN served /\ UNCHANGED <<nodeVars, polls, net, agentVars, syncVars, broken>>
    BY DEF Accept
<1>2. NodeTypes' /\ ServerTypes' /\ PollsServed' /\ ~broken'
    BY <1>1 DEF Inv, NodeTypes, nodeVars, ServerTypes, PollsServed
<1>3. net' \in [Conns -> MessageType] /\ Talk(net', polls', link, sent)
    BY <1>1 DEF Inv, WalletTypes, OneTalk
<1>4. QED
    BY <1>1, <1>2, <1>3, NodeStep

\* A client is forgotten together with its long poll.
LEMMA ForgetKeeps ==
    ASSUME Inv, NEW c \in Conns, Forget(c)
    PROVE  Inv'
<1>1. /\ served' = [d \in DOMAIN served \ {c} |-> served[d]]
      /\ polls' = {q \in polls : q.conn # c}
      /\ net' = [net EXCEPT ![c] = IF link.conn = c THEN [@ EXCEPT !.req = None] ELSE Quiet]
      /\ UNCHANGED <<nodeVars, agentVars, syncVars, broken>>
    BY DEF Forget
<1>2. NodeTypes' /\ ServerTypes' /\ PollsServed' /\ ~broken'
    BY <1>1 DEF Inv, NodeTypes, nodeVars, ServerTypes, PollsServed
<1>3. net \in [Conns -> MessageType]
    BY DEF Inv, WalletTypes
<1>4. /\ net' \in [Conns -> MessageType] /\ \A d \in Conns \ {c} : net'[d] = net[d]
      /\ link.conn = c => net'[c].req = None /\ net'[c].ans = net[c].ans
    BY <1>1, <1>3 DEF MessageType, Quiet
<1>5. link.conn # None => link.conn \in Conns
    BY DEF Inv, WalletTypes, LinkType
<1>6. Talk(net', polls', link, sent)
    BY <1>1, <1>4, <1>5 DEF Inv, OneTalk, Talk
<1>7. QED
    BY <1>1, <1>2, <1>4, <1>6, NodeStep

\* The node's status changes by itself.
LEMMA StatusChanges ==
    ASSUME Inv, NodeTypes', NEW s \in Statuses, AdvanceLongPoll(s, net),
           UNCHANGED <<agentVars, syncVars>>
    PROVE  Inv'
<1>1. net \in [Conns -> MessageType] /\ Talk(net, polls, link, sent)
    BY DEF Inv, WalletTypes, OneTalk
<1>2. /\ ServerTypes' /\ PollsServed' /\ net' \in [Conns -> MessageType]
      /\ Talk(net', polls', link, sent) /\ ~broken'
    BY <1>1, AdvanceLongPollKeeps
<1>3. QED
    BY <1>2, NodeStep

\* A connection is cut; what has arrived stays.
LEMMA CutKeeps ==
    ASSUME Inv, NEW c \in Conns, Cut(c)
    PROVE  Inv'
<1>1. /\ net' = [net EXCEPT ![c].alive = FALSE]
      /\ UNCHANGED <<nodeVars, serverVars, agentVars, syncVars, broken>>
    BY DEF Cut
<1>2. NodeTypes' /\ ServerTypes' /\ PollsServed' /\ polls' = polls /\ ~broken'
    BY <1>1, NodeStays DEF serverVars, Inv
<1>3. net \in [Conns -> MessageType] /\ (link.conn # None => link.conn \in Conns)
    BY DEF Inv, WalletTypes, LinkType
<1>4. /\ net' \in [Conns -> MessageType]
      /\ \A d \in Conns : net'[d].req = net[d].req /\ net'[d].ans = net[d].ans
    BY <1>1, <1>3 DEF MessageType
<1>5. Talk(net', polls', link, sent)
    BY <1>2, <1>3, <1>4 DEF Inv, OneTalk, Talk
<1>6. QED
    BY <1>1, <1>2, <1>4, <1>5, NodeStep

\* The node stops: its end of every connection and every poll is gone.
LEMMA StopKeeps ==
    ASSUME Inv, Stop
    PROVE  Inv'
<1>1. /\ running' = FALSE /\ version' = 2 /\ tip' \in {tip, tip - 1} \ {0}
      /\ polls' = {} /\ served' = [d \in {} |-> FALSE]
      /\ net' = [c \in Conns |-> IF link.conn = c THEN [net[c] EXCEPT !.alive = FALSE, !.req = None] ELSE Quiet]
      /\ UNCHANGED <<agentVars, syncVars, broken>>
    BY DEF Stop
<1>2. NodeTypes' /\ ServerTypes' /\ PollsServed' /\ ~broken'
    <2>1. NodeTypes'
        <3>1. tip \in Nat \ {0} /\ tip' \in {tip, tip - 1} \ {0}
            BY <1>1 DEF Inv, NodeTypes
        <3>2. tip' \in Nat \ {0}
            BY <3>1
        <3>3. running' \in BOOLEAN /\ version' \in Nat
            BY <1>1
        <3>4. QED
            BY <3>2, <3>3 DEF NodeTypes
    <2>2. ServerTypes' /\ PollsServed'
        BY <1>1 DEF ServerTypes, PollsServed
    <2>3. ~broken'
        BY <1>1 DEF Inv
    <2>4. QED
        BY <2>1, <2>2, <2>3
<1>3. net \in [Conns -> MessageType] /\ (link.conn # None => link.conn \in Conns)
    BY DEF Inv, WalletTypes, LinkType
<1>4. /\ net' \in [Conns -> MessageType]
      /\ \A c \in Conns : link.conn = c => net'[c].req = None /\ net'[c].ans = net[c].ans
    BY <1>1, <1>3 DEF MessageType, Quiet
<1>5. Talk(net', polls', link, sent)
    BY <1>1, <1>3, <1>4 DEF Inv, OneTalk, Talk
<1>6. QED
    BY <1>1, <1>2, <1>4, <1>5, NodeStep

-----------------------------------------------------------------------------
\* Every step keeps the invariant.
LEMMA InvStep ==
    ASSUME Inv, [Next]_vars
    PROVE  Inv'
<1>1. CASE WalletEvents
    BY <1>1, OnClientDisconnectKeeps, ReconnectKeeps, SendGetStatusKeeps, OnClientResponseKeeps
       DEF WalletEvents
<1>2. ASSUME NEW c \in Conns, ServerEvents(c) PROVE Inv'
    <2>1. CASE OnWalletSync(c)
        BY <2>1, AnswerKeeps DEF OnWalletSync
    <2>2. CASE OnSyncMempool(c)
        BY <2>2, AnswerKeeps DEF OnSyncMempool
    <2>3. QED
        BY <1>2, <2>1, <2>2, AcceptKeeps, ForgetKeeps, OnGetStatusKeeps, HandleSendTransactionKeeps
           DEF ServerEvents
<1>3. CASE NewBlock
    <2>1. NodeTypes' /\ [tip |-> tip + 1, version |-> 2] \in Statuses
        BY <1>3 DEF NewBlock, Inv, NodeTypes, Statuses
    <2>2. QED
        BY <1>3, <2>1, StatusChanges DEF NewBlock
<1>4. CASE NewTransaction
    <2>1. NodeTypes' /\ [tip |-> tip, version |-> version + 1] \in Statuses
        BY <1>4 DEF NewTransaction, Inv, NodeTypes, Statuses
    <2>2. QED
        BY <1>4, <2>1, StatusChanges DEF NewTransaction
<1>5. CASE Start
    <2>1. NodeTypes' /\ ServerTypes' /\ PollsServed' /\ ~broken' /\ polls' = polls /\ net' = net
        BY <1>5 DEF Start, Inv, NodeTypes, ServerTypes, PollsServed, serverVars
    <2>2. net' \in [Conns -> MessageType] /\ Talk(net', polls', link, sent)
        BY <2>1 DEF Inv, WalletTypes, OneTalk
    <2>3. QED
        BY <1>5, <2>1, <2>2, NodeStep DEF Start
<1>6. ASSUME NEW p \in Payments, AddPayment(p) PROVE Inv'
    <2>1. wallet' \in WalletType
        BY <1>6 DEF AddPayment, Inv, WalletTypes, WalletType
    <2>2. QED
        BY <1>6, <2>1, WalletQuiet DEF AddPayment, agentVars
<1>7. CASE Ages
    <2>1. wallet' \in WalletType
        BY <1>7 DEF Ages, Inv, WalletTypes, syncVars
    <2>2. QED
        BY <1>7, <2>1, WalletQuiet DEF Ages, syncVars
<1>8. ASSUME NEW c \in Conns, Fails(c) PROVE Inv'
    BY <1>8, AnswerKeeps DEF Fails
<1>9. CASE UNCHANGED vars
    <2>1. wallet' \in WalletType
        BY <1>9 DEF vars, Inv, WalletTypes, syncVars
    <2>2. QED
        BY <1>9, <2>1, WalletQuiet DEF vars, agentVars, syncVars
<1>10. QED
    BY <1>1, <1>2, <1>3, <1>4, <1>5, <1>6, <1>7, <1>8, <1>9, CutKeeps, StopKeeps DEF Next, Rest

\* The inductive invariant holds in every state.
THEOREM Invariance == Spec => []Inv
BY InvInit, InvStep, PTL DEF Spec

\* NoInvariantFails for any number of connections, payments, changes of the
\* node and faults: set_request is never called with a request at hand, and
\* neither end writes out of turn (Agent.cpp, Server.cpp).
THEOREM NoInvariantFailsAlways == Spec => []NoInvariantFails
<1>1. Inv => NoInvariantFails
    BY DEF Inv, NoInvariantFails
<1>2. QED
    BY <1>1, Invariance, PTL

\* OwnAnswers for the same: on_client_response need not compare the answer
\* with the request at hand, since a connection carries one at a time.
THEOREM OwnAnswersAlways == Spec => []OwnAnswers
<1>1. Inv => OwnAnswers
    BY DEF Inv, OneTalk, Talk, OwnAnswers
<1>2. QED
    BY <1>1, Invariance, PTL
=============================================================================
