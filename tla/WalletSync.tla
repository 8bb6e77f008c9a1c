------------------------------ MODULE WalletSync ------------------------------
(***************************************************************************)
(* How the wallet follows its node: WalletSync with its timer and its one  *)
(* request at a time, the http::Agent under it, which connects, resends    *)
(* after a lost connection and gives up after a time-out, and at the other *)
(* end http::Server with the node's long poll.                             *)
(*                                                                         *)
(* A message arrives whole or not at all: what a side has read of it is    *)
(* dropped with the connection.  Data a side has received may still be     *)
(* read after the connection is cut.  The node's tip is a number that      *)
(* grows with each change of its chain; one answer brings the wallet to    *)
(* it.  Payments are numbered in the order of their hashes.                *)
(***************************************************************************)
EXTENDS Integers, FiniteSets

CONSTANTS
    Conns,      \* connections, each one used again when both ends forgot it
    Payments,   \* hashes of payments, positive numbers
    MaxTip,     \* bound on the changes of the node's chain
    MaxVersion, \* bound on the pool version at which transactions arrive
    MaxFaults,  \* bound on cuts, restarts of the node and failing answers
    None

\* The status of a node, and the messages of the two ends.
Statuses == [tip : Nat, version : Nat]
Requests ==
    [kind : {"blocks", "pool"}, arg : {0}] \cup [kind : {"send"}, arg : Payments]
        \cup [kind : {"status"}, arg : Statuses]
Replies == [to : Requests, result : {"ok", "kept", "dropped", "error"}, status : Statuses]

ASSUME SyncAssumption ==
    /\ Payments \subseteq Nat \ {0} /\ Conns # {}
    /\ None \notin Conns \cup Requests \cup Replies
    /\ MaxTip \in Nat /\ MaxVersion \in Nat /\ MaxFaults \in Nat

VARIABLES
    tip, version, \* the node's chain and m_tx_pool_version
    running,      \* the node is up
    got,          \* payments in the node's pool
    refused,      \* for the properties: payments not taken since the chain changed
    polls,        \* m_long_poll_http_clients: connection and original_get_status
    served,       \* Server: a client per connection, TRUE while it waits for an answer
    net,          \* per connection, the messages in flight and whether it is alive
    link,         \* Connection: the connection in use, waiting_write_response
    sent,         \* Agent: sent_request
    reconnect,    \* reconnect_timer is running
    late,         \* request_start is more than REQUEST_TIMEOUT ago
    wallet,       \* tip, pool version, payments not in a block, next_send_hash
    last,         \* m_last_node_status
    asking,       \* m_sync_request is set
    timer,        \* m_status_timer is running
    broken,       \* an invariant() of the code has thrown
    faults

nodeVars == <<tip, version, running, got, refused>>
serverVars == <<polls, served>>
agentVars == <<link, sent, reconnect, late>>
syncVars == <<wallet, last, asking, timer>>
vars == <<nodeVars, serverVars, net, agentVars, syncVars, broken, faults>>

Quiet == [req |-> None, ans |-> None, alive |-> FALSE]
Closed == [conn |-> None, ready |-> FALSE]
Status == [tip |-> tip, version |-> version]
Request(kind, arg) == [kind |-> kind, arg |-> arg]

Init ==
    \* The constructor of WalletSync calls advance_sync.
    LET c == CHOOSE d \in Conns : TRUE
        r == Request("blocks", 0)
    IN  /\ tip = 1 /\ version = 2 /\ running = TRUE /\ got = {} /\ refused = {}
        /\ polls = {} /\ served = [d \in {} |-> FALSE]
        /\ net = [d \in Conns |-> IF d = c THEN [req |-> r, ans |-> None, alive |-> TRUE] ELSE Quiet]
        /\ link = [conn |-> c, ready |-> FALSE] /\ sent = r
        /\ reconnect = FALSE /\ late = FALSE
        /\ wallet = [tip |-> 0, version |-> 1, queue |-> {}, next |-> 0]
        /\ last = [tip |-> -1, version |-> 0]
        /\ asking = TRUE /\ timer = FALSE
        /\ broken = FALSE /\ faults = 0

-----------------------------------------------------------------------------
\* The agent.  An event finds the connection as l and the messages as n.
Free == {c \in Conns : c \notin DOMAIN served /\ c # link.conn}
Fresh == CHOOSE c \in Free : TRUE
Fault == faults < MaxFaults /\ faults' = faults + 1

\* Connection::write: it must be the turn of this side to write.
Writes(r, l, n, armed) ==
    /\ net' = IF n[l.conn].alive THEN [n EXCEPT ![l.conn].req = r] ELSE n
    /\ link' = [l EXCEPT !.ready = FALSE]
    /\ broken' = ~l.ready /\ reconnect' = armed
    /\ UNCHANGED faults

\* connect: the request waits in the socket for the connection, which a node
\* that is down refuses, or the name of the node is not found.
Connects(r, n, armed) ==
    \/ /\ Free # {}
       /\ net' = [n EXCEPT ![Fresh] = [req |-> IF running THEN r ELSE None, ans |-> None, alive |-> running]]
       /\ link' = [conn |-> Fresh, ready |-> FALSE]
       /\ reconnect' = armed
       /\ UNCHANGED <<broken, faults>>
    \/ /\ Fault
       /\ link' = Closed /\ net' = n /\ reconnect' = TRUE
       /\ UNCHANGED broken

Sends(r, l, n, armed) ==
    IF l.conn = None THEN Connects(r, n, armed) ELSE Writes(r, l, n, armed)

\* set_request; the request before this one is over unless `busy'.
SetRequest(r, l, n, busy) ==
    /\ sent' = r /\ late' = FALSE
    /\ IF busy THEN broken' = TRUE /\ net' = n /\ link' = l /\ UNCHANGED <<reconnect, faults>>
               ELSE Sends(r, l, n, reconnect)

\* Mutant of OnClientDisconnect: the request is forgotten.
OnClientDisconnectOnly ==
    /\ link.conn # None /\ ~net[link.conn].alive
    /\ net' = [net EXCEPT ![link.conn] = IF link.conn \in DOMAIN served THEN [@ EXCEPT !.ans = None] ELSE Quiet]
    /\ link' = Closed
    /\ UNCHANGED <<nodeVars, serverVars, sent, reconnect, late, syncVars, broken, faults>>

\* on_disconnect, clear and on_client_disconnect.
OnClientDisconnect ==
    /\ link.conn # None /\ ~net[link.conn].alive
    /\ net' = [net EXCEPT ![link.conn] = IF link.conn \in DOMAIN served THEN [@ EXCEPT !.ans = None] ELSE Quiet]
    /\ link' = Closed
    /\ reconnect' = (reconnect \/ sent # None)
    /\ UNCHANGED <<nodeVars, serverVars, sent, late, syncVars, broken, faults>>

\* Mutant of OnReconnectTimer: the request that timed out is not over.
OnReconnectTimerKeeps ==
    /\ reconnect
    /\ IF late
       THEN /\ reconnect' = FALSE /\ timer' = TRUE
            /\ UNCHANGED <<net, link, sent, broken, faults>>
       ELSE /\ Sends(sent, link, net, FALSE)
            /\ UNCHANGED <<sent, timer>>
    /\ UNCHANGED <<nodeVars, serverVars, late, wallet, last, asking>>

\* on_reconnect_timer: too late, the error handler starts the status timer and
\* leaves m_sync_request as it is.
OnReconnectTimer ==
    /\ reconnect
    /\ IF late
       THEN /\ sent' = None /\ reconnect' = FALSE /\ timer' = TRUE
            /\ UNCHANGED <<net, link, broken, faults>>
       ELSE /\ Sends(sent, link, net, FALSE)
            /\ UNCHANGED <<sent, timer>>
    /\ UNCHANGED <<nodeVars, serverVars, late, wallet, last, asking>>

\* The clock: a request, a long poll most of all, becomes old.
Ages ==
    /\ sent # None /\ ~late
    /\ late' = TRUE
    /\ UNCHANGED <<nodeVars, serverVars, net, link, sent, reconnect, syncVars, broken, faults>>

-----------------------------------------------------------------------------
\* WalletSync.

\* send_get_status, when the status timer fires.
SendGetStatus ==
    /\ timer /\ timer' = FALSE /\ asking' = TRUE
    /\ SetRequest(Request("status", [tip |-> wallet.tip, version |-> wallet.version]),
                  link, net, sent # None)
    /\ UNCHANGED <<nodeVars, serverVars, wallet, last>>

\* get_next_from_sending_queue
Unsent(w) == {p \in w.queue : p > w.next}
NextFromSendingQueue(w) == CHOOSE p \in Unsent(w) : \A q \in Unsent(w) : p <= q

\* The request of advance_sync for the wallet w and the node's status s, and
\* None when there is nothing to ask: blocks, then payments, then the pool.
SendGetBlocks == Request("blocks", 0)
SendSyncPool == Request("pool", 0)
SendSendTransaction(w) == Request("send", NextFromSendingQueue(w))
NextRequest(w, s) ==
    CASE s.tip # w.tip -> SendGetBlocks
      [] s.tip = w.tip /\ Unsent(w) # {} -> SendSendTransaction(w)
      [] s.tip = w.tip /\ Unsent(w) = {} /\ s.version # w.version -> SendSyncPool
      [] OTHER -> None

\* Mutant of Cursor: new blocks do not start the payments again.
CursorStays(w, r) ==
    CASE r = None -> w.next
      [] r # None /\ r.kind = "send" -> r.arg
      [] OTHER -> w.next

\* next_send_hash after advance_sync.
Cursor(w, r) ==
    CASE r = None -> w.next
      [] r # None /\ r.kind = "blocks" -> 0
      [] r # None /\ r.kind = "send" -> r.arg
      [] OTHER -> w.next

\* advance_sync at the end of the handler of an answer, after the request is
\* reset and with the turn to write.
AdvanceSync(w, s, l, n) ==
    LET r == NextRequest(w, s)
    IN  /\ wallet' = [w EXCEPT !.next = Cursor(w, r)]
        /\ last' = s
        /\ asking' = (r # None)
        /\ timer' = (timer \/ r = None)
        /\ IF r = None
           THEN sent' = None /\ link' = l /\ net' = n /\ UNCHANGED <<late, reconnect, broken, faults>>
           ELSE SetRequest(r, l, n, FALSE)

\* The handlers of an answer with status 200.
BlocksCame(w, a) ==
    IF w.tip = a.status.tip THEN w ELSE [w EXCEPT !.tip = a.status.tip, !.version = 1]
PoolCame(w, a) == [w EXCEPT !.version = a.status.version]
PaymentCame(w, a) ==
    IF a.result = "dropped" THEN [w EXCEPT !.queue = @ \ {a.to.arg}] ELSE w
Applied(w, a) ==
    CASE a.to.kind = "blocks" -> BlocksCame(w, a)
      [] a.to.kind = "pool" -> PoolCame(w, a)
      [] a.to.kind = "send" -> PaymentCame(w, a)
      [] OTHER -> w

\* on_client_response: read_next gives the turn to write.  Another answer than
\* 200 starts the status timer.
OnClientResponse ==
    /\ link.conn # None /\ ~link.ready /\ net[link.conn].ans # None
    /\ LET a == net[link.conn].ans
           l == [link EXCEPT !.ready = TRUE]
           n == [net EXCEPT ![link.conn].ans = None]
       IN  IF a.result = "error"
           THEN /\ sent' = None /\ link' = l /\ net' = n
                /\ asking' = FALSE /\ timer' = TRUE
                /\ UNCHANGED <<wallet, last, late, reconnect, broken, faults>>
           ELSE AdvanceSync(Applied(wallet, a), IF a.to.kind = "send" THEN last ELSE a.status, l, n)
    /\ UNCHANGED <<nodeVars, serverVars>>

\* add_to_payment_queue
AddPayment(p) ==
    /\ p \notin wallet.queue
    /\ wallet' = [wallet EXCEPT !.queue = @ \cup {p}]
    /\ UNCHANGED <<nodeVars, serverVars, net, agentVars, last, asking, timer, broken, faults>>

-----------------------------------------------------------------------------
\* The node and its http::Server.
Answer(r, result, s) == [to |-> r, result |-> result, status |-> s]

\* Messages with the answer a to connection c.
Replied(n, c, a) == IF n[c].alive THEN [n EXCEPT ![c].ans = a] ELSE n

\* accept_all
Accept(c) ==
    /\ running /\ net[c].alive /\ c \notin DOMAIN served
    /\ served' = [d \in DOMAIN served \cup {c} |-> IF d = c THEN FALSE ELSE served[d]]
    /\ UNCHANGED <<nodeVars, polls, net, agentVars, syncVars, broken, faults>>

\* advance_long_poll when the status is s, from the messages n.
LongPolls(s) == {q \in polls : q.status # s}
AdvanceLongPoll(s, n) ==
    LET due == LongPolls(s)
    IN  /\ polls' = polls \ due
        /\ served' = [d \in DOMAIN served |-> served[d] /\ \A q \in due : q.conn # d]
        /\ broken' = \E q \in due : q.conn \notin DOMAIN served \/ ~served[q.conn]
        /\ net' = [d \in Conns |->
                    IF \E q \in due : q.conn = d /\ n[d].alive
                    THEN [n[d] EXCEPT !.ans = Answer(Request("status", (CHOOSE q \in due : q.conn = d).status), "ok", s)]
                    ELSE n[d]]

\* on_client_handler takes a request of a client that waits for no answer.
Takes(c) == c \in DOMAIN served /\ ~served[c] /\ net[c].req # None
Taken(c) == [net EXCEPT ![c].req = None]

\* on_get_status3: a wallet that knows it all waits for a change.
OnGetStatus(c) ==
    /\ Takes(c) /\ net[c].req.kind = "status"
    /\ IF net[c].req.arg = Status
       THEN /\ polls' = polls \cup {[conn |-> c, status |-> Status]}
            /\ served' = [served EXCEPT ![c] = TRUE]
            /\ net' = Taken(c)
       ELSE /\ net' = Replied(Taken(c), c, Answer(net[c].req, "ok", Status))
            /\ UNCHANGED <<polls, served>>
    /\ UNCHANGED <<nodeVars, agentVars, syncVars, broken, faults>>

OnWalletSync(c) ==
    /\ Takes(c) /\ net[c].req.kind = "blocks"
    /\ net' = Replied(Taken(c), c, Answer(net[c].req, "ok", Status))
    /\ UNCHANGED <<nodeVars, serverVars, agentVars, syncVars, broken, faults>>

OnSyncMempool(c) ==
    /\ Takes(c) /\ net[c].req.kind = "pool"
    /\ net' = Replied(Taken(c), c, Answer(net[c].req, "ok", Status))
    /\ UNCHANGED <<nodeVars, serverVars, agentVars, syncVars, broken, faults>>

\* handle_send_transaction3: the payment is new in the pool, or known.  It may
\* be refused too: for its fee, which the node answers like a broadcast, for its
\* format or a conflict, after which the wallet keeps it (process_payment_
\* queue_send_error), or for a conflict deep in the chain, and it is dropped.
HandleSendTransaction(c) ==
    /\ Takes(c) /\ net[c].req.kind = "send"
    /\ LET p == net[c].req.arg
           r(result) == Replied(Taken(c), c, Answer(net[c].req, result, Status))
       IN  \/ /\ p \notin got
              /\ got' = got \cup {p} /\ version' = version + 1
              /\ AdvanceLongPoll([tip |-> tip, version |-> version + 1], r("ok"))
              /\ UNCHANGED refused
           \/ /\ p \in got
              /\ net' = r("ok") /\ UNCHANGED <<got, refused, version, serverVars, broken>>
           \/ /\ p \notin got
              /\ net' \in {r("kept"), r("dropped")}
              /\ refused' = refused \cup {p}
              /\ UNCHANGED <<got, version, serverVars, broken>>
    /\ UNCHANGED <<tip, running, agentVars, syncVars, faults>>

\* A handler throws.
Fails(c) ==
    /\ Takes(c) /\ Fault
    /\ net' = Replied(Taken(c), c, Answer(net[c].req, "error", Status))
    /\ UNCHANGED <<nodeVars, serverVars, agentVars, syncVars, broken>>

\* Mutant of Forget: the long poll stays.
ForgetKeepsPolls(c) ==
    /\ c \in DOMAIN served /\ (~net[c].alive \/ link.conn # c)
    /\ served' = [d \in DOMAIN served \ {c} |-> served[d]]
    /\ net' = [net EXCEPT ![c] = IF link.conn = c THEN [@ EXCEPT !.req = None] ELSE Quiet]
    /\ UNCHANGED <<nodeVars, polls, agentVars, syncVars, broken, faults>>

\* on_client_disconnected and on_api_http_disconnect
Forget(c) ==
    /\ c \in DOMAIN served /\ (~net[c].alive \/ link.conn # c)
    /\ served' = [d \in DOMAIN served \ {c} |-> served[d]]
    /\ polls' = {q \in polls : q.conn # c}
    /\ net' = [net EXCEPT ![c] = IF link.conn = c THEN [@ EXCEPT !.req = None] ELSE Quiet]
    /\ UNCHANGED <<nodeVars, agentVars, syncVars, broken, faults>>

\* The chain changes, and the pool version starts again.
NewBlock ==
    /\ running /\ tip < MaxTip
    /\ tip' = tip + 1 /\ version' = 2 /\ refused' = {}
    /\ AdvanceLongPoll([tip |-> tip + 1, version |-> 2], net)
    /\ UNCHANGED <<running, got, agentVars, syncVars, faults>>

\* A transaction of somebody else comes into the pool.
NewTransaction ==
    /\ running /\ version < MaxVersion
    /\ version' = version + 1
    /\ AdvanceLongPoll([tip |-> tip, version |-> version + 1], net)
    /\ UNCHANGED <<tip, running, got, refused, agentVars, syncVars, faults>>

\* A connection is cut.
Cut(c) ==
    /\ net[c].alive /\ Fault
    /\ net' = [net EXCEPT ![c].alive = FALSE]
    /\ UNCHANGED <<nodeVars, serverVars, agentVars, syncVars, broken>>

\* The node stops, with its clients and its pool, and its last block may not
\* be committed.
Stop ==
    /\ running /\ Fault
    /\ running' = FALSE /\ version' = 2 /\ got' = {} /\ refused' = {}
    /\ tip' \in {tip, tip - 1} \ {0}
    /\ polls' = {} /\ served' = [d \in {} |-> FALSE]
    /\ net' = [c \in Conns |-> IF link.conn = c THEN [net[c] EXCEPT !.alive = FALSE, !.req = None] ELSE Quiet]
    /\ UNCHANGED <<agentVars, syncVars, broken>>

Start ==
    /\ ~running /\ running' = TRUE
    /\ UNCHANGED <<tip, version, got, refused, serverVars, net, agentVars, syncVars, broken, faults>>

\* All is told, and the wallet waits for the node's next change.
Rest == polls # {} /\ UNCHANGED vars

WalletEvents == OnClientDisconnect \/ OnReconnectTimer \/ SendGetStatus \/ OnClientResponse
ServerEvents(c) ==
    \/ Accept(c) \/ Forget(c) \/ OnGetStatus(c)
    \/ OnWalletSync(c) \/ OnSyncMempool(c) \/ HandleSendTransaction(c)

Next ==
    \/ ~broken /\ WalletEvents
    \/ ~broken /\ \E c \in Conns : ServerEvents(c)
    \/ ~broken /\ (NewBlock \/ Start)
    \/ ~broken /\ \E p \in Payments : AddPayment(p)
    \/ ~broken /\ \E c \in Conns : Fails(c) \/ Cut(c)
    \/ ~broken /\ (Ages \/ NewTransaction \/ Stop)
    \/ Rest

Spec == Init /\ [][Next]_vars

\* Both processes run an event loop, so that a timer that is due and data that
\* has come are handled; somebody starts the node again, and blocks are mined.
FairSpec ==
    /\ Spec
    /\ WF_vars(~broken /\ WalletEvents)
    /\ \A c \in Conns : WF_vars(~broken /\ ServerEvents(c))
    /\ WF_vars(~broken /\ Start) /\ WF_vars(~broken /\ NewBlock)

-----------------------------------------------------------------------------
\* No invariant() of the two ends fails: the agent is never given a request
\* while it has one, whatever order the two timers, an answer and a lost
\* connection come in, and neither end writes out of turn, a long poll that is
\* answered after its client was lost included (Agent.cpp set_request, write,
\* Server.cpp write; an exception there ends the process).
NoInvariantFails == ~broken

\* What arrives on the connection in use answers the request at hand, not one
\* that timed out or was sent again (Agent.cpp on_client_response, which does
\* not compare them).
OwnAnswers ==
    link.conn # None /\ net[link.conn].ans # None => net[link.conn].ans.to = sent

\* Once the node's chain, the connections and the node itself stand still, the
\* wallet comes to the node's tip and to its pool, and stays there
\* (WalletSync.cpp advance_sync).
Follows == <>[](wallet.tip = tip /\ wallet.version = version)

\* Nothing is wrong any more.
Sound == faults = MaxFaults /\ running /\ link.conn # None /\ net[link.conn].alive

\* A payment in the queue comes before the node again after the next block: it
\* is in the node's pool, or the node has refused it since, although a lost one
\* is not sent again before that block and the pool does not outlive the node
\* (WalletSync.cpp send_send_transaction, next_send_hash).
PaymentsReachNode ==
    \A p \in Payments :
        (Sound /\ p \in wallet.queue /\ wallet.tip < MaxTip)
            ~> (tip = MaxTip /\ (p \in got \cup refused \/ p \notin wallet.queue))
=============================================================================
