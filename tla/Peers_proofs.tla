---------------------------- MODULE Peers_proofs ----------------------------
(***************************************************************************)
(* Proofs about Peers for any addresses, seeds, limits and number of       *)
(* connections: a node with a free place never stops trying, and the lists *)
(* in the database are the lists in memory.                                *)
(***************************************************************************)
EXTENDS Peers, FiniteSetTheorems, TLAPS

ConnType == [addr : Addrs \cup {NoAddr}, state : {"free", "connecting", "handshaken", "active"}]

\* A place that is not free holds an address.
Places ==
    /\ conn \in [Slots -> ConnType]
    /\ \A s \in Slots : IF conn[s].state = "free" THEN conn[s] = Free ELSE conn[s].addr \in Addrs

\* The loop's counter; a loop that ended with a place to fill left the timer
\* running, whether or not an address is still to be made white.
Awake ==
    /\ loop \in Nat \cup {-1}
    /\ loop = -1 /\ FreeSlots # {} => timer

\* The addresses in the lists are addresses.
Known ==
    /\ DOMAIN white \subseteq Addrs /\ DOMAIN gray \subseteq Addrs
    /\ DOMAIN exclusive \subseteq Addrs
    /\ DOMAIN saved.white \subseteq Addrs /\ DOMAIN saved.gray \subseteq Addrs
    /\ justSeen \in Addrs \cup {NoAddr}

\* The records of both tables have their two fields.
Tables ==
    /\ disk = [white |-> disk.white, gray |-> disk.gray]
    /\ saved = [white |-> saved.white, gray |-> saved.gray]

WakeInv == Places /\ Awake
ListInv == Known /\ Tables /\ DiskExact
Inv == WakeInv /\ ListInv

-----------------------------------------------------------------------------
\* connect_all after a disconnect or a handshake: the loop or the timer runs.
LEMMA ConnectAllWakes ==
    ASSUME Awake, NEW n, ConnectAll(n)
    PROVE  Awake'
BY DEF Awake, ConnectAll

\* A place is given up.
LEMMA PlaceFreed ==
    ASSUME Places, NEW s \in Slots, conn' = [conn EXCEPT ![s] = Free]
    PROVE  Places'
BY DEF Places, ConnType, Free

\* One attempt: a place is taken, or the loop counts a failure, and after the
\* last one the timer is started.
LEMMA ConnectOneKeeps ==
    ASSUME WakeInv, NEW a \in Addrs, ConnectOne(a), Looping
    PROVE  WakeInv'
<1>0. Cardinality(Slots) \in Nat
    BY PeerAssumption, FS_CardinalityType DEF PeerAssumption
<1>1. Places'
    BY DEF WakeInv, Places, ConnectOne, ConnType, Free, FreeSlots
<1>2. Awake'
    BY <1>0 DEF WakeInv, Awake, ConnectOne, Looping
<1>3. QED
    BY <1>1, <1>2 DEF WakeInv

\* A client moves on in the handshake; no place becomes free or taken.
LEMMA PlaceMoves ==
    ASSUME Places, NEW s \in Slots, conn[s].state # "free",
           NEW st \in {"handshaken", "active"}, conn' = [conn EXCEPT ![s].state = st]
    PROVE  Places' /\ FreeSlots' = FreeSlots
<1>1. /\ conn' \in [Slots -> ConnType] /\ conn'[s].state = st
      /\ \A x \in Slots \ {s} : conn'[x] = conn[x]
    BY DEF Places, ConnType
<1>2. Places'
    BY <1>1 DEF Places
<1>3. conn[s] # Free /\ conn'[s] # Free
    BY <1>1 DEF Free
<1>4. FreeSlots' = FreeSlots
    BY <1>1, <1>3 DEF FreeSlots
<1>5. QED
    BY <1>2, <1>4

-----------------------------------------------------------------------------
\* A step that leaves the lists alone.
LEMMA ListsStay ==
    ASSUME ListInv, UNCHANGED <<lists, exclusive, saved>>, justSeen' \in Addrs \cup {NoAddr}
    PROVE  ListInv'
BY DEF ListInv, Known, Tables, DiskExact, lists

\* An address gets a new time in the white list, in memory and on disk.
LEMMA WhitePut ==
    ASSUME ListInv, NEW a \in Addrs, NEW wait,
           white' = Put(white, a, wait), disk' = [disk EXCEPT !.white = Put(@, a, wait)],
           UNCHANGED <<gray, exclusive, saved>>, justSeen' \in Addrs \cup {NoAddr}
    PROVE  ListInv'
<1>1. /\ disk'.white = Put(disk.white, a, wait) /\ disk'.gray = disk.gray
      /\ disk' = [white |-> disk'.white, gray |-> disk'.gray]
    BY DEF ListInv, Tables
<1>2. Known' /\ Tables'
    BY <1>1 DEF ListInv, Known, Tables, Put
<1>3. DiskExact'
    BY <1>1 DEF ListInv, DiskExact, Put
<1>4. QED
    BY <1>2, <1>3 DEF ListInv

\* The same in the gray list.
LEMMA GrayPut ==
    ASSUME ListInv, NEW a \in Addrs, NEW wait,
           gray' = Put(gray, a, wait), disk' = [disk EXCEPT !.gray = Put(@, a, wait)],
           UNCHANGED <<white, exclusive, saved, justSeen>>
    PROVE  ListInv'
<1>1. /\ disk'.gray = Put(disk.gray, a, wait) /\ disk'.white = disk.white
      /\ disk' = [white |-> disk'.white, gray |-> disk'.gray]
    BY DEF ListInv, Tables
<1>2. Known' /\ Tables'
    BY <1>1 DEF ListInv, Known, Tables, Put
<1>3. DiskExact'
    BY <1>1 DEF ListInv, DiskExact
<1>4. QED
    BY <1>2, <1>3 DEF ListInv

\* set_peer_just_seen moves an address from the gray to the white list.
LEMMA JustSeenKeeps ==
    ASSUME ListInv, NEW a \in Addrs, SetPeerJustSeen(a),
           UNCHANGED <<exclusive, saved>>, justSeen' \in Addrs \cup {NoAddr}
    PROVE  ListInv'
<1> DEFINE wait == IF a \in DOMAIN white \cap Seeds THEN white[a] ELSE 0
<1>1. /\ gray' = Without(gray, {a}) /\ white' = Put(white, a, wait)
      /\ disk' = [white |-> Put(disk.white, a, wait), gray |-> Without(disk.gray, {a})]
    BY DEF SetPeerJustSeen
<1> HIDE DEF wait
<1>2. Known' /\ Tables'
    BY <1>1 DEF ListInv, Known, Tables, Put, Without
<1>3. DiskExact'
    BY <1>1 DEF ListInv, DiskExact, Put
<1>4. QED
    BY <1>2, <1>3 DEF ListInv

\* New addresses come to the gray list, and trim cuts both.
LEMMA AddPeersKeeps ==
    ASSUME ListInv, NEW S \in SUBSET Addrs, AddPeers(S), UNCHANGED <<exclusive, saved, justSeen>>
    PROVE  ListInv'
<1> DEFINE new == S \ (DOMAIN white \cup DOMAIN gray)
           with(list) == [x \in DOMAIN list \cup new |-> IF x \in new THEN 0 ELSE list[x]]
<1>1. PICK W \in SUBSET DOMAIN white, G \in SUBSET DOMAIN with(gray) :
        /\ white' = Without(white, W) /\ gray' = Without(with(gray), G)
        /\ disk' = [white |-> Without(disk.white, W), gray |-> Without(with(disk.gray), G)]
    BY DEF AddPeers, Trims
<1>2. Known' /\ Tables'
    BY <1>1 DEF ListInv, Known, Tables, Without
<1>3. DiskExact'
    <2>1. gray' = disk'.gray
        BY <1>1 DEF ListInv, DiskExact
    <2>2. disk'.white = Without(disk.white, W)
        BY <1>1
    <2>3. QED
        BY <1>1, <2>1, <2>2 DEF ListInv, DiskExact, Without
<1>4. QED
    BY <1>2, <1>3 DEF ListInv

-----------------------------------------------------------------------------
\* The constructor adds the seeds to an empty list.
LEMMA InvInit == Init => Inv
<1> SUFFICES ASSUME Init PROVE Inv
    OBVIOUS
<1>1. Places
    BY DEF Init, Places, ConnType, Free
<1>2. Awake
    BY DEF Init, Awake
<1>3. Known /\ Tables
    BY PeerAssumption DEF Init, Known, Tables, AllDue, PeerAssumption
<1>4. DiskExact
    BY DEF Init, DiskExact, AllDue
<1>5. QED
    BY <1>1, <1>2, <1>3, <1>4 DEF Inv, WakeInv, ListInv

\* The steps of connect_all_nodelay.
LEMMA LoopKeeps ==
    ASSUME Inv, Loop
    PROVE  Inv'
<1>0. WakeInv /\ ListInv /\ Places /\ Awake
    BY DEF Inv, WakeInv
<1>1. CASE ConnectExclusive
    <2>1. PICK a \in ExclusiveCandidates :
            exclusive' = Put(exclusive, a, PriorityReconnect) /\ ConnectOne(a)
        BY <1>1 DEF ConnectExclusive
    <2>2. Looping /\ UNCHANGED <<lists, saved, justSeen>>
        BY <1>1 DEF ConnectExclusive
    <2>3. a \in Addrs /\ a \in DOMAIN exclusive
        BY <1>0 DEF ListInv, Known, ExclusiveCandidates
    <2>4. ListInv'
        BY <1>0, <2>1, <2>2, <2>3 DEF ListInv, Known, Tables, DiskExact, lists, Put
    <2>5. QED
        BY <1>0, <2>1, <2>2, <2>3, <2>4, ConnectOneKeeps DEF Inv
<1>2. CASE ConnectWhite
    <2>1. PICK a \in Candidates(white) :
            /\ white' = Put(white, a, Period(a))
            /\ disk' = [disk EXCEPT !.white = Put(@, a, Period(a))]
            /\ ConnectOne(a)
        BY <1>2 DEF ConnectWhite
    <2>2. Looping /\ UNCHANGED <<gray, exclusive, saved, justSeen>>
        BY <1>2 DEF ConnectWhite
    <2>3. a \in Addrs
        BY <1>0 DEF ListInv, Known, Candidates
    <2>4. justSeen' \in Addrs \cup {NoAddr}
        BY <1>0, <2>2 DEF ListInv, Known
    <2>5. ListInv'
        BY <1>0, <2>1, <2>2, <2>3, <2>4, WhitePut
    <2>6. QED
        BY <1>0, <2>1, <2>2, <2>3, <2>5, ConnectOneKeeps DEF Inv
<1>3. CASE ConnectGray
    <2>1. PICK a \in Candidates(gray) :
            /\ gray' = Put(gray, a, Period(a))
            /\ disk' = [disk EXCEPT !.gray = Put(@, a, Period(a))]
            /\ ConnectOne(a)
        BY <1>3 DEF ConnectGray
    <2>2. Looping /\ UNCHANGED <<white, exclusive, saved, justSeen>>
        BY <1>3 DEF ConnectGray
    <2>3. a \in Addrs
        BY <1>0 DEF ListInv, Known, Candidates
    <2>4. ListInv'
        BY <1>0, <2>1, <2>2, <2>3, GrayPut
    <2>5. QED
        BY <1>0, <2>1, <2>2, <2>3, <2>4, ConnectOneKeeps DEF Inv
<1>4. CASE NoPeerToConnect \/ LoopEnds
    <2>1. UNCHANGED <<lists, exclusive, saved, conn, justSeen>>
        BY <1>4 DEF NoPeerToConnect, LoopEnds
    <2>2. ListInv'
        BY <1>0, <2>1, ListsStay DEF ListInv, Known
    <2>3. Places' /\ FreeSlots' = FreeSlots
        BY <1>0, <2>1 DEF Places, FreeSlots
    <2>4. Awake'
        BY <1>0, <1>4, <2>3 DEF Awake, NoPeerToConnect, LoopEnds
    <2>5. QED
        BY <2>2, <2>3, <2>4 DEF Inv, WakeInv
<1>5. QED
    BY <1>1, <1>2, <1>3, <1>4 DEF Loop

\* What happens to the lists when a client is given up.
LEMMA DropKeeps ==
    ASSUME ListInv, NEW a \in Addrs \cup {NoAddr}, UNCHANGED lists \/ Delay(a),
           UNCHANGED <<exclusive, saved>>, justSeen' \in Addrs \cup {NoAddr}
    PROVE  ListInv'
<1>1. CASE UNCHANGED lists
    BY <1>1, ListsStay
<1>2. CASE Delay(a)
    <2> DEFINE wait == IF a \in Priority THEN PriorityReconnect ELSE Ban
    <2>1. /\ a \in DOMAIN white /\ white' = Put(white, a, wait)
          /\ disk' = [disk EXCEPT !.white = Put(@, a, wait)] /\ gray' = gray
        BY <1>2 DEF Delay
    <2>2. a \in Addrs
        BY <2>1 DEF ListInv, Known
    <2> HIDE DEF wait
    <2>3. QED
        BY <2>1, <2>2, WhitePut
<1>3. QED
    BY <1>1, <1>2

\* The handlers of a client's messages and of its end.
LEMMA ClientKeeps ==
    ASSUME Inv, NEW s \in Slots,
           OnFirstMessage(s) \/ OnBadHandshake(s) \/ OnDisconnect(s)
               \/ \E S \in SUBSET Addrs : OnHandshake(s, S)
    PROVE  Inv'
<1>0. /\ WakeInv /\ ListInv /\ Places /\ Awake
      /\ conn[s].addr \in Addrs \cup {NoAddr} /\ justSeen \in Addrs \cup {NoAddr}
    BY DEF Inv, WakeInv, Places, ConnType, ListInv, Known
<1>1. ASSUME NEW S \in SUBSET Addrs, OnHandshake(s, S) PROVE Inv'
    <2>1. Places'
        BY <1>0, <1>1, PlaceMoves DEF OnHandshake
    <2>2. Awake'
        BY <1>0, <1>1, ConnectAllWakes DEF OnHandshake
    <2>3. ListInv'
        BY <1>0, <1>1, AddPeersKeeps DEF OnHandshake
    <2>4. QED
        BY <2>1, <2>2, <2>3 DEF Inv, WakeInv
<1>2. CASE OnFirstMessage(s)
    <2>0. conn[s].state = "handshaken" /\ UNCHANGED <<exclusive, saved>>
        BY <1>2 DEF OnFirstMessage
    <2>1. CASE /\ conn' = [conn EXCEPT ![s].state = "active"]
               /\ SetPeerJustSeen(conn[s].addr)
               /\ UNCHANGED <<failed, timer, loop, justSeen>>
        <3>1. Places' /\ FreeSlots' = FreeSlots
            BY <1>0, <2>0, <2>1, PlaceMoves
        <3>2. Awake'
            BY <1>0, <2>1, <3>1 DEF Awake
        <3>3. conn[s].addr \in Addrs
            BY <1>0, <2>0 DEF Inv, WakeInv, Places
        <3>4. ListInv'
            BY <1>0, <2>0, <2>1, <3>3, JustSeenKeeps
        <3>5. QED
            BY <3>1, <3>2, <3>4 DEF Inv, WakeInv
    <2>2. CASE /\ conn' = [conn EXCEPT ![s] = Free]
               /\ UNCHANGED lists \/ Delay(conn[s].addr)
               /\ ConnectAll(failed)
               /\ justSeen' = conn[s].addr
        <3>1. Places' /\ Awake'
            BY <1>0, <2>2, PlaceFreed, ConnectAllWakes
        <3>2. ListInv'
            BY <1>0, <2>0, <2>2, DropKeeps
        <3>3. QED
            BY <3>1, <3>2 DEF Inv, WakeInv
    <2>3. QED
        BY <1>2, <2>1, <2>2 DEF OnFirstMessage
<1>3. CASE OnBadHandshake(s)
    <2>1. Places' /\ Awake'
        BY <1>0, <1>3, PlaceFreed, ConnectAllWakes DEF OnBadHandshake
    <2>2. ListInv'
        BY <1>0, <1>3, ListsStay DEF OnBadHandshake
    <2>3. QED
        BY <2>1, <2>2 DEF Inv, WakeInv
<1>4. CASE OnDisconnect(s)
    <2>1. Places' /\ Awake'
        BY <1>0, <1>4, PlaceFreed, ConnectAllWakes DEF OnDisconnect
    <2>2. ListInv'
        BY <1>0, <1>4, DropKeeps DEF OnDisconnect
    <2>3. QED
        BY <2>1, <2>2 DEF Inv, WakeInv
<1>5. QED
    BY <1>1, <1>2, <1>3, <1>4

\* The other events.
LEMMA OthersKeep ==
    ASSUME Inv,
           \/ FirstMessageEnds \/ OnReconnectTimer \/ Tick \/ Commit \/ Restart
           \/ \E a \in Addrs : OnIncomingHandshake(a) \/ OnIncomingMessage(a)
    PROVE  Inv'
<1>0. /\ WakeInv /\ ListInv /\ Places /\ Awake /\ justSeen \in Addrs \cup {NoAddr}
    BY DEF Inv, WakeInv, ListInv, Known
<1>1. ASSUME UNCHANGED <<conn, timer, loop>> PROVE WakeInv'
    BY <1>0, <1>1 DEF WakeInv, Places, Awake, FreeSlots
<1>2. CASE FirstMessageEnds
    <2>1. ListInv'
        BY <1>0, <1>2, JustSeenKeeps DEF FirstMessageEnds
    <2>2. QED
        BY <1>1, <1>2, <2>1 DEF Inv, FirstMessageEnds
<1>3. CASE OnReconnectTimer
    <2>1. ListInv'
        BY <1>0, <1>3, ListsStay DEF OnReconnectTimer
    <2>2. WakeInv'
        BY <1>0, <1>3 DEF OnReconnectTimer, WakeInv, Places, Awake
    <2>3. QED
        BY <2>1, <2>2 DEF Inv
<1>4. CASE Tick
    <2>1. Known' /\ Tables'
        BY <1>0, <1>4 DEF Tick, ListInv, Known, Tables, Later
    <2>2. DiskExact'
        BY <1>0, <1>4 DEF Tick, ListInv, DiskExact, Later
    <2>3. QED
        BY <1>1, <1>4, <2>1, <2>2 DEF Inv, ListInv, Tick
<1>5. CASE Commit
    <2>1. DOMAIN disk.white \subseteq Addrs /\ DOMAIN disk.gray \subseteq Addrs
        BY <1>0 DEF ListInv, Known, DiskExact
    <2>2. ListInv'
        BY <1>0, <1>5, <2>1 DEF Commit, ListInv, Known, Tables, DiskExact, lists
    <2>3. QED
        BY <1>1, <1>5, <2>2 DEF Inv, Commit
<1>6. CASE Restart
    <2>1. /\ white' = [x \in DOMAIN saved.white \cup Seeds |->
                          IF x \in DOMAIN saved.white THEN saved.white[x] ELSE 0]
          /\ gray' = saved.gray /\ disk' = saved /\ saved' = saved
          /\ DOMAIN exclusive' = DOMAIN exclusive /\ justSeen' = NoAddr
        BY <1>6 DEF Restart, Opens, AllDue
    <2>2. Known' /\ Tables'
        BY <1>0, <2>1, PeerAssumption DEF ListInv, Known, Tables, PeerAssumption
    <2>3. DiskExact'
        BY <2>1 DEF DiskExact
    <2>4. WakeInv'
        BY <1>6 DEF Restart, WakeInv, Places, Awake, ConnType, Free
    <2>5. QED
        BY <2>2, <2>3, <2>4 DEF Inv, ListInv
<1>7. ASSUME NEW a \in Addrs, OnIncomingHandshake(a) PROVE Inv'
    <2>1. Places' /\ FreeSlots' = FreeSlots
        BY <1>0, <1>7 DEF OnIncomingHandshake, Places, FreeSlots
    <2>2. Awake'
        BY <1>0, <1>7, ConnectAllWakes DEF OnIncomingHandshake
    <2>3. {a} \in SUBSET Addrs
        OBVIOUS
    <2>4. ListInv'
        BY <1>0, <1>7, <2>3, AddPeersKeeps DEF OnIncomingHandshake
    <2>5. QED
        BY <2>1, <2>2, <2>4 DEF Inv, WakeInv
<1>8. ASSUME NEW a \in Addrs, OnIncomingMessage(a) PROVE Inv'
    <2>1. ListInv'
        BY <1>0, <1>8, JustSeenKeeps DEF OnIncomingMessage
    <2>2. QED
        BY <1>1, <1>8, <2>1 DEF Inv, OnIncomingMessage
<1>9. QED
    BY <1>2, <1>3, <1>4, <1>5, <1>6, <1>7, <1>8

\* Every step of the node.
LEMMA InvStep == Inv /\ [Next]_vars => Inv'
<1> SUFFICES ASSUME Inv, [Next]_vars PROVE Inv'
    OBVIOUS
<1>1. CASE UNCHANGED vars
    <2>1. UNCHANGED <<lists, exclusive, saved, conn, timer, loop, justSeen>>
        BY <1>1 DEF vars, lists
    <2>2. ListInv'
        BY <2>1, ListsStay DEF Inv, ListInv, Known
    <2>3. WakeInv'
        BY <2>1 DEF Inv, WakeInv, Places, Awake, FreeSlots
    <2>4. QED
        BY <2>2, <2>3 DEF Inv
<1>2. CASE Next
    BY <1>2, LoopKeeps, ClientKeeps, OthersKeep DEF Next
<1>3. QED
    BY <1>1, <1>2

\* The invariant holds in every state of the node.
LEMMA Invariance == Spec => []Inv
<1>1. QED
    BY InvInit, InvStep, PTL DEF Spec

\* With any addresses and any number of places: between two events a node
\* with a free place has its reconnect timer running, whichever attempts
\* failed and whichever handler gave a client up (P2P.cpp connect_all).
THEOREM NeverAsleepAlways == Spec => []NeverAsleep
<1>1. Inv => NeverAsleep
    BY DEF Inv, WakeInv, Awake, NeverAsleep, Idle
<1>2. QED
    BY <1>1, Invariance, PTL

\* With any lists and limits: the tables that a commit would write hold the
\* lists in memory but for seeds never connected (PeerDB.cpp update_db, del_db).
THEOREM DiskExactAlways == Spec => []DiskExact
<1>1. Inv => DiskExact
    BY DEF Inv, ListInv
<1>2. QED
    BY <1>1, Invariance, PTL
=============================================================================
