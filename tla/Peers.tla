------------------------------- MODULE Peers --------------------------------
(***************************************************************************)
(* PeerDB, P2P and P2PClientBasic: which addresses the node knows, how it  *)
(* keeps its outgoing connections at their number, and what of the lists   *)
(* survives a restart.                                                     *)
(*                                                                         *)
(* next_connection_attempt is kept as the time that is left until it, so   *)
(* that the clock needs no bound.  The order of addresses that are due,    *)
(* by time, last_seen and a random number, is left open.  No code calls    *)
(* set_peer_banned, so ban_until is 0 and unban does nothing.              *)
(*                                                                         *)
(* connect_all_nodelay is a loop of several steps; no event is handled     *)
(* before it ends.                                                         *)
(***************************************************************************)
EXTENDS Integers, FiniteSets

CONSTANTS
    Addrs,            \* network addresses
    NoAddr,           \* no address
    Seeds,            \* config.seed_nodes
    Priority,         \* config.priority_nodes
    Exclusives,       \* the values of config.exclusive_nodes looked at
    Slots,            \* p2p_default_connections_count places for connections
    WhiteLimit,       \* p2p_local_white_list_limit
    GrayLimit,        \* p2p_local_gray_list_limit
    Reconnect,        \* RECONNECT_PERIOD
    PriorityReconnect,\* PRIORITY_RECONNECT_PERIOD
    Ban,              \* BAN_PERIOD
    MaxFailed         \* failed attempts in a row before they are delayed

ASSUME PeerAssumption ==
    /\ NoAddr \notin Addrs /\ Seeds \subseteq Addrs /\ Priority \subseteq Addrs
    /\ Exclusives \subseteq SUBSET Addrs
    /\ IsFiniteSet(Slots) /\ Slots # {} /\ IsFiniteSet(Addrs)
    /\ WhiteLimit \in Nat /\ GrayLimit \in Nat /\ MaxFailed \in Nat
    /\ Reconnect \in Nat /\ PriorityReconnect \in Nat /\ Ban \in Nat

VARIABLES
    white, gray,  \* whitelist and graylist: address to the time left
    exclusive,    \* exclusivelist, the same
    disk,         \* both lists in the database, in the open transaction
    saved,        \* both lists as of the last commit
    conn,         \* clients[false]: per place its address and state
    failed,       \* failed_connection_attempts_counter, up to MaxFailed + 1
    timer,        \* reconnect_timer runs
    loop,         \* connect_all_nodelay runs; its immediate_attempts, else -1
    justSeen      \* on_first_message_after_handshake is called for it next

lists == <<white, gray, disk>>
vars == <<white, gray, exclusive, disk, saved, conn, failed, timer, loop, justSeen>>

Free == [addr |-> NoAddr, state |-> "free"]
FreeSlots == {s \in Slots : conn[s] = Free}
Connected == {conn[s].addr : s \in Slots} \ {NoAddr}

\* insert and erase of the lists.
Put(list, a, wait) == [x \in DOMAIN list \cup {a} |-> IF x = a THEN wait ELSE list[x]]
Without(list, S) == [x \in DOMAIN list \ S |-> list[x]]
Later(list) == [x \in DOMAIN list |-> IF list[x] = 0 THEN 0 ELSE list[x] - 1]
AllDue(S) == [x \in S |-> 0]
Period(a) == IF a \in Priority THEN PriorityReconnect ELSE Reconnect

\* The constructor reads the lists; seeds that are not in the white one are
\* added to it, though not to the database.
Opens(db) ==
    /\ white' = [x \in DOMAIN db.white \cup Seeds |-> IF x \in DOMAIN db.white THEN db.white[x] ELSE 0]
    /\ gray' = db.gray
    /\ disk' = db

Init ==
    /\ white = AllDue(Seeds) /\ gray = AllDue({})
    /\ disk = [white |-> AllDue({}), gray |-> AllDue({})] /\ saved = disk
    /\ exclusive \in {AllDue(E) : E \in Exclusives}
    /\ conn = [s \in Slots |-> Free]
    /\ failed = 0 /\ timer = FALSE /\ loop = 0 /\ justSeen = NoAddr

-----------------------------------------------------------------------------
\* connect_all, called at the end of the handlers that follow: too many
\* failed attempts wait for the timer.
ConnectAll(fails) ==
    /\ failed' = fails
    /\ IF fails > MaxFailed THEN timer' = TRUE /\ UNCHANGED loop
                            ELSE loop' = 0 /\ UNCHANGED timer

\* get_peer_to_connect: addresses that are due, not connected, and no seed if
\* two seeds are connected.
Candidates(list) ==
    {a \in DOMAIN list : /\ list[a] = 0 /\ a \notin Connected
                         /\ a \in Seeds => Cardinality(Connected \cap Seeds) < 2}
ExclusiveCandidates == {a \in DOMAIN exclusive : exclusive[a] = 0 /\ a \notin Connected}

\* connect_one, and the end of the loop after as many immediate failures as
\* there may be connections.
ConnectOne(a) ==
    /\ failed' = (IF failed > MaxFailed THEN failed ELSE failed + 1)
    /\ \/ \E s \in FreeSlots :
             /\ conn' = [conn EXCEPT ![s] = [addr |-> a, state |-> "connecting"]]
             /\ UNCHANGED <<timer, loop>>
       \/ /\ UNCHANGED conn
          /\ IF loop + 1 >= Cardinality(Slots)
             THEN timer' = TRUE /\ loop' = -1
             ELSE loop' = loop + 1 /\ UNCHANGED timer

Looping == loop >= 0 /\ FreeSlots # {}

ConnectExclusive ==
    /\ Looping /\ DOMAIN exclusive # {}
    /\ \E a \in ExclusiveCandidates :
          exclusive' = Put(exclusive, a, PriorityReconnect) /\ ConnectOne(a)
    /\ UNCHANGED <<lists, saved, justSeen>>

\* Mutant of ConnectWhite: the new time is not written to the database.
ConnectWhiteOnly ==
    /\ Looping /\ DOMAIN exclusive = {}
    /\ \E a \in Candidates(white) :
          /\ white' = Put(white, a, Period(a))
          /\ ConnectOne(a)
    /\ UNCHANGED <<gray, disk, exclusive, saved, justSeen>>

ConnectWhite ==
    /\ Looping /\ DOMAIN exclusive = {}
    /\ \E a \in Candidates(white) :
          /\ white' = Put(white, a, Period(a))
          /\ disk' = [disk EXCEPT !.white = Put(@, a, Period(a))]
          /\ ConnectOne(a)
    /\ UNCHANGED <<gray, exclusive, saved, justSeen>>

\* The gray list is used if no white address is due, or by chance.
ConnectGray ==
    /\ Looping /\ DOMAIN exclusive = {}
    /\ \E a \in Candidates(gray) :
          /\ gray' = Put(gray, a, Period(a))
          /\ disk' = [disk EXCEPT !.gray = Put(@, a, Period(a))]
          /\ ConnectOne(a)
    /\ UNCHANGED <<white, exclusive, saved, justSeen>>

NoPeers ==
    /\ Looping
    /\ IF DOMAIN exclusive = {} THEN Candidates(gray) = {} ELSE ExclusiveCandidates = {}

\* Mutant of NoPeerToConnect: the timer is not started.
NoPeerSilently ==
    /\ NoPeers
    /\ loop' = -1
    /\ UNCHANGED <<lists, exclusive, saved, conn, failed, timer, justSeen>>

\* Nobody to connect to, for the white list is left out by chance too: try
\* again later.
NoPeerToConnect ==
    /\ NoPeers
    /\ timer' = TRUE /\ loop' = -1
    /\ UNCHANGED <<lists, exclusive, saved, conn, failed, justSeen>>

LoopEnds ==
    /\ loop >= 0 /\ FreeSlots = {}
    /\ loop' = -1
    /\ UNCHANGED <<lists, exclusive, saved, conn, failed, timer, justSeen>>

-----------------------------------------------------------------------------
Idle == loop = -1 /\ justSeen = NoAddr

OnReconnectTimer ==
    /\ Idle /\ timer
    /\ timer' = FALSE /\ loop' = 0
    /\ UNCHANGED <<lists, exclusive, saved, conn, failed, justSeen>>

\* trim: the lists are cut to their limits; the addresses that go are the
\* ones not seen for longest.
Trims(w, g, dw, dg) ==
    \E W \in SUBSET DOMAIN w, G \in SUBSET DOMAIN g :
        /\ Cardinality(W) = (IF Cardinality(DOMAIN w) > WhiteLimit
                             THEN Cardinality(DOMAIN w) - WhiteLimit ELSE 0)
        /\ Cardinality(G) = (IF Cardinality(DOMAIN g) > GrayLimit
                             THEN Cardinality(DOMAIN g) - GrayLimit ELSE 0)
        /\ white' = Without(w, W) /\ gray' = Without(g, G)
        /\ disk' = [white |-> Without(dw, W), gray |-> Without(dg, G)]

\* add_incoming_peer_impl of each address: what is known stays as it is.
AddPeers(S) ==
    LET new == S \ (DOMAIN white \cup DOMAIN gray)
        with(list) == [x \in DOMAIN list \cup new |-> IF x \in new THEN 0 ELSE list[x]]
    IN  Trims(white, with(gray), disk.white, with(disk.gray))

\* set_peer_just_seen: the address goes to the white list and may be
\* connected at once, unless it is a seed.
SetPeerJustSeen(a) ==
    LET wait == IF a \in DOMAIN white \cap Seeds THEN white[a] ELSE 0
    IN  /\ gray' = Without(gray, {a})
        /\ white' = Put(white, a, wait)
        /\ disk' = [white |-> Put(disk.white, a, wait), gray |-> Without(disk.gray, {a})]

\* delay_connection_attempt: only white addresses are delayed.
Delay(a) ==
    LET wait == IF a \in Priority THEN PriorityReconnect ELSE Ban
    IN  /\ a \in DOMAIN white
        /\ white' = Put(white, a, wait)
        /\ disk' = [disk EXCEPT !.white = Put(@, a, wait)]
        /\ UNCHANGED gray

\* A client answers the handshake: its addresses are taken over, and
\* peers_updated resets the count of failures.
OnHandshake(s, S) ==
    /\ Idle /\ conn[s].state = "connecting"
    /\ conn' = [conn EXCEPT ![s].state = "handshaken"]
    /\ AddPeers(S)
    /\ ConnectAll(0)
    /\ UNCHANGED <<exclusive, saved, justSeen>>

\* The first message after it makes the address white.  Its handler may
\* disconnect the client, with or without a delay, and the address is made
\* white all the same, after the loop of connect_all.
OnFirstMessage(s) ==
    /\ Idle /\ conn[s].state = "handshaken"
    /\ \/ /\ conn' = [conn EXCEPT ![s].state = "active"]
          /\ SetPeerJustSeen(conn[s].addr)
          /\ UNCHANGED <<failed, timer, loop, justSeen>>
       \/ /\ conn' = [conn EXCEPT ![s] = Free]
          /\ UNCHANGED lists \/ Delay(conn[s].addr)
          /\ ConnectAll(failed)
          /\ justSeen' = conn[s].addr
    /\ UNCHANGED <<exclusive, saved>>

FirstMessageEnds ==
    /\ loop = -1 /\ justSeen # NoAddr
    /\ SetPeerJustSeen(justSeen)
    /\ justSeen' = NoAddr
    /\ UNCHANGED <<exclusive, saved, conn, failed, timer, loop>>

\* The answer to the handshake is of another network, or of the node itself:
\* disconnect is called with a reason, which nobody looks at.
OnBadHandshake(s) ==
    /\ Idle /\ conn[s].state = "connecting"
    /\ conn' = [conn EXCEPT ![s] = Free]
    /\ ConnectAll(failed)
    /\ UNCHANGED <<lists, exclusive, saved, justSeen>>

\* A connection fails, times out or is closed; the downloader, which has the
\* client since its handshake, delays the next attempt if it gave it up.
OnDisconnect(s) ==
    /\ Idle /\ conn[s] # Free
    /\ conn' = [conn EXCEPT ![s] = Free]
    /\ UNCHANGED lists \/ (conn[s].state \in {"handshaken", "active"} /\ Delay(conn[s].addr))
    /\ ConnectAll(failed)
    /\ UNCHANGED <<exclusive, saved, justSeen>>

\* An incoming client's handshake, and its first message after that.
OnIncomingHandshake(a) ==
    /\ Idle
    /\ AddPeers({a})
    /\ ConnectAll(0)
    /\ UNCHANGED <<exclusive, saved, conn, justSeen>>

OnIncomingMessage(a) ==
    /\ Idle
    /\ SetPeerJustSeen(a)
    /\ UNCHANGED <<exclusive, saved, conn, failed, timer, loop, justSeen>>

Tick ==
    /\ Idle
    /\ white' = Later(white) /\ gray' = Later(gray) /\ exclusive' = Later(exclusive)
    /\ disk' = [white |-> Later(disk.white), gray |-> Later(disk.gray)]
    /\ saved' = [white |-> Later(saved.white), gray |-> Later(saved.gray)]
    /\ UNCHANGED <<conn, failed, timer, loop, justSeen>>

Commit ==
    /\ Idle
    /\ saved' = disk
    /\ UNCHANGED <<lists, exclusive, conn, failed, timer, loop, justSeen>>

\* The process ends without a commit and starts again.
Restart ==
    /\ Opens(saved)
    /\ exclusive' = AllDue(DOMAIN exclusive)
    /\ conn' = [s \in Slots |-> Free]
    /\ failed' = 0 /\ timer' = FALSE /\ loop' = 0 /\ justSeen' = NoAddr
    /\ UNCHANGED saved

Loop ==
    ConnectExclusive \/ ConnectWhite \/ ConnectGray \/ NoPeerToConnect \/ LoopEnds

Next ==
    \/ Loop \/ FirstMessageEnds \/ OnReconnectTimer
    \/ \E s \in Slots :
          \/ OnFirstMessage(s) \/ OnBadHandshake(s) \/ OnDisconnect(s)
          \/ \E S \in SUBSET Addrs : OnHandshake(s, S)
    \/ \E a \in Addrs : OnIncomingHandshake(a) \/ OnIncomingMessage(a)
    \/ Tick \/ Commit \/ Restart

Spec == Init /\ [][Next]_vars

-----------------------------------------------------------------------------
\* A node with room for connections tries again: whatever attempts failed
\* and whichever clients left, its reconnect timer runs.
NeverAsleep == Idle /\ FreeSlots # {} => timer

\* What a commit would write is what the lists hold, each address with its
\* time, except for seeds that were never connected: a restart reads back the
\* lists of the last commit.
DiskExact ==
    /\ gray = disk.gray
    /\ DOMAIN disk.white \subseteq DOMAIN white
    /\ DOMAIN white \subseteq DOMAIN disk.white \cup Seeds
    /\ \A a \in DOMAIN disk.white : disk.white[a] = white[a]

\* P2P.hpp says of disconnect's argument "empty for no ban": a client that
\* was disconnected with a reason waits for the period of a ban, which
\* set_peer_banned would put in its list, and not only for the period that its
\* attempt to connect has put there.
BanOf(a) == IF a \in Seeds \cup Priority THEN PriorityReconnect ELSE Ban

BanKept ==
    [][\A s \in Slots : OnBadHandshake(s) =>
          \A list \in {white', gray'} :
              conn[s].addr \in DOMAIN list => list[conn[s].addr] >= BanOf(conn[s].addr)]_vars
=============================================================================
