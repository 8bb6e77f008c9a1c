-------------------------- MODULE Multicore_proofs --------------------------
(***************************************************************************)
(* Proofs about the two thread pools of Multicore.cpp, for any number of   *)
(* threads.  WalletPrep: the wallet redoes the blocks of its own answer    *)
(* and no other, each once, and every block it will ask for is still on    *)
(* its way.  RingChecker, as RC: no result is lost or counted twice, and   *)
(* redo_block always gets the answer for its own block.                    *)
(***************************************************************************)
EXTENDS WalletPrep, FiniteSetTheorems, TLAPS

AnswerType == [start : Nat, blocks : Seq(Blocks)]
CallerType ==
    [pc : {"idle", "start", "loop", "wait", "join", "gone"},
     answer : AnswerType, first : Nat, next : Nat]
WorkerType ==
    [pc : {"loop", "wait", "prepare", "done"}, height : Nat,
     block : Blocks \cup {NoBlock}, counter : Nat]
EntryType == [height : Nat, block : Blocks]

\* The types; no thread's counter is ahead of the shared one.
Types ==
    /\ work \in AnswerType /\ prepared \subseteq EntryType
    /\ counter \in Nat /\ caller \in CallerType
    /\ worker \in [Workers -> WorkerType]
    /\ \A w \in Workers : worker[w].counter <= counter

\* A block b at height h is one of answer a.
OfAnswer(a, h, b) == h >= a.start /\ h < End(a) /\ b = BlockAt(a, h)

\* Before start_work there is nothing; from then on the queue is the rest of
\* the answer, and threads and prepared blocks hold blocks of it.
OwnWork ==
    IF caller.pc = "start"
    THEN work = NoWork /\ prepared = {} /\ InFlight = {}
    ELSE /\ work.start >= caller.answer.start /\ End(work) = End(caller.answer)
         /\ \A h \in Nat : h >= work.start /\ h < End(work) =>
                               BlockAt(work, h) = BlockAt(caller.answer, h)
         /\ \A p \in prepared : OfAnswer(caller.answer, p.height, p.block)
         /\ \A w \in InFlight : OfAnswer(caller.answer, worker[w].height, worker[w].block)

\* The wallet's position in its answer.
Position ==
    /\ caller.answer.start <= caller.first /\ caller.first <= caller.next
    /\ caller.pc = "start" => caller.next = caller.first

Inv == Types /\ OwnWork /\ Position /\ RedoneExact /\ NothingLost

-----------------------------------------------------------------------------
\* A fresh preparator has nothing to do and redid nothing.
LEMMA InvInit == Init => Inv
<1> SUFFICES ASSUME Init PROVE Inv
    OBVIOUS
<1> USE DEF Init, NoWork
<1>1. Types
    <2>1. work \in AnswerType /\ caller \in CallerType
        BY DEF AnswerType, CallerType
    <2>2. worker \in [Workers -> WorkerType]
        BY DEF WorkerType
    <2>3. QED
        BY <2>1, <2>2 DEF Types
<1>2. InFlight = {}
    BY DEF InFlight
<1>3. caller.answer = work /\ End(work) = 0 /\ caller.pc = "idle"
    BY DEF End
<1>4. OwnWork
    BY <1>2, <1>3 DEF OwnWork
<1>5. Position
    BY DEF Position
<1>6. RedoneExact
    <2>1. caller.first..(caller.next - 1) = {}
        OBVIOUS
    <2>2. QED
        BY <2>1 DEF RedoneExact, EntriesOf
<1>7. NothingLost
    BY <1>3 DEF NothingLost
<1>8. QED
    BY <1>1, <1>4, <1>5, <1>6, <1>7 DEF Inv

\* A new answer: nothing of it is redone, and nothing is left of the old one.
LEMMA CancelWorkKeeps ==
    ASSUME Inv, NEW a \in Answers, NEW first \in a.start..End(a), CancelWork(a, first)
    PROVE  Inv'
<1> USE DEF CancelWork
<1>0. /\ a \in AnswerType /\ a.start \in Nat /\ first \in Nat /\ a.start <= first
      /\ counter \in Nat /\ worker' = worker /\ worker \in [Workers -> WorkerType]
    BY AnswerAssumption DEF Inv, Types, AnswerAssumption, AnswerType, End
<1>1. /\ caller' \in CallerType /\ caller'.pc = "start" /\ caller'.answer = a
      /\ caller'.first = first /\ caller'.next = first
    BY <1>0 DEF CallerType
<1>2. \A w \in Workers : worker[w].counter \in Nat /\ worker[w].counter < counter'
    BY <1>0 DEF Inv, Types, WorkerType
<1>3. Types'
    <2>1. work' \in AnswerType
        BY DEF NoWork, AnswerType
    <2>2. QED
        BY <2>1, <1>0, <1>1, <1>2 DEF Types
<1>4. InFlight' = {}
    BY <1>0, <1>2 DEF InFlight
<1>5. OwnWork'
    BY <1>1, <1>4 DEF OwnWork, NoWork
<1>6. Position'
    BY <1>0, <1>1 DEF Position
<1>7. RedoneExact'
    <2>1. caller'.first..(caller'.next - 1) = {}
        BY <1>0, <1>1
    <2>2. QED
        BY <2>1 DEF RedoneExact, EntriesOf
<1>8. NothingLost'
    BY <1>1 DEF NothingLost
<1>9. QED
    BY <1>3, <1>5, <1>6, <1>7, <1>8 DEF Inv

\* A woken thread is where it was, but for its position in the loop.
LEMMA Notified ==
    ASSUME Types, worker' = HaveWorkNotified
    PROVE  /\ worker' \in [Workers -> WorkerType]
           /\ \A w \in Workers : /\ worker'[w].counter = worker[w].counter
                                 /\ worker'[w].height = worker[w].height
                                 /\ worker'[w].block = worker[w].block
                                 /\ worker'[w].pc = "prepare" <=> worker[w].pc = "prepare"
BY DEF Types, HaveWorkNotified, WorkerType

\* start_work: the whole answer is queued.
LEMMA StartWorkKeeps ==
    ASSUME Inv, StartWork
    PROVE  Inv'
<1> USE DEF StartWork, At
<1>0. /\ caller \in CallerType /\ caller.answer \in AnswerType /\ caller.pc = "start"
      /\ counter \in Nat /\ prepared = {}
    BY DEF Inv, Types, CallerType, OwnWork
<1>1. /\ caller' \in CallerType /\ caller'.pc = "loop" /\ caller'.answer = caller.answer
      /\ caller'.first = caller.first /\ caller'.next = caller.next
    BY <1>0 DEF CallerType
<1>2. /\ worker' \in [Workers -> WorkerType]
      /\ \A w \in Workers : worker'[w].counter = worker[w].counter
    BY Notified DEF Inv
<1>3. \A w \in Workers : worker'[w].counter \in Nat /\ worker'[w].counter < counter'
    BY <1>0, <1>2 DEF Inv, Types, WorkerType
<1>4. Types'
    BY <1>0, <1>1, <1>2, <1>3 DEF Types
<1>5. InFlight' = {}
    BY <1>0, <1>3 DEF InFlight
<1>6. OwnWork'
    BY <1>0, <1>1, <1>5 DEF OwnWork, AnswerType
<1>7. Position'
    BY <1>1 DEF Inv, Position
<1>8. RedoneExact'
    BY <1>1 DEF Inv, RedoneExact, EntriesOf
<1>9. NothingLost'
    <2>1. work'.start <= caller'.next
        BY <1>0, <1>1 DEF Inv, Position, CallerType, AnswerType
    <2>2. QED
        BY <2>1, <1>0, <1>1 DEF NothingLost, CallerType, AnswerType
<1>10. QED
    BY <1>4, <1>6, <1>7, <1>8, <1>9 DEF Inv

\* A step that moves no block keeps the invariant, whatever else it does to
\* the positions of the threads and of the wallet.
LEMMA NothingMoved ==
    ASSUME Inv, UNCHANGED <<work, prepared, counter, redone>>,
           caller' \in CallerType, caller'.answer = caller.answer,
           caller'.first = caller.first, caller'.next = caller.next,
           caller'.pc = "start" <=> caller.pc = "start",
           caller'.pc \in {"loop", "wait"} => caller.pc \in {"loop", "wait"},
           worker' \in [Workers -> WorkerType], InFlight' = InFlight,
           \A w \in Workers : /\ worker'[w].counter = worker[w].counter
                              /\ worker'[w].height = worker[w].height
                              /\ worker'[w].block = worker[w].block
    PROVE  Inv'
<1>1. InFlight \subseteq Workers
    BY DEF InFlight
<1>2. Types'
    BY DEF Inv, Types
<1>3. OwnWork'
    BY <1>1 DEF Inv, OwnWork
<1>4. Position'
    BY DEF Inv, Position
<1>5. RedoneExact'
    BY DEF Inv, RedoneExact
<1>6. NothingLost'
    BY <1>1 DEF Inv, NothingLost
<1>7. QED
    BY <1>2, <1>3, <1>4, <1>5, <1>6 DEF Inv

\* What a step that only moves the wallet's thread does to its record.
LEMMA CallerAt ==
    ASSUME Types, NEW pc \in {"idle", "start", "loop", "wait", "join", "gone"}, At(pc)
    PROVE  /\ caller' \in CallerType /\ caller'.pc = pc /\ caller'.answer = caller.answer
           /\ caller'.first = caller.first /\ caller'.next = caller.next
BY DEF Types, At, CallerType

\* What a step that only moves a thread does to the threads' records.
LEMMA WorkerAt ==
    ASSUME Types, NEW w \in Workers, NEW pc \in {"loop", "wait", "done"},
           worker' = [worker EXCEPT ![w].pc = pc]
    PROVE  /\ worker' \in [Workers -> WorkerType]
           /\ worker'[w].pc = pc
           /\ \A x \in Workers \ {w} : worker'[x] = worker[x]
           /\ \A x \in Workers : /\ worker'[x].counter = worker[x].counter
                                 /\ worker'[x].height = worker[x].height
                                 /\ worker'[x].block = worker[x].block
BY DEF Types, WorkerType

\* The wallet's thread returns, waits, wakes up or joins the others.
LEMMA CallerMovesKeep ==
    ASSUME Inv, SyncReturns \/ AwaitBlock \/ Join \/ (caller.pc = "wait" /\ At("loop") /\
                   UNCHANGED <<work, prepared, counter, redone, worker>>)
    PROVE  Inv'
<1>1. /\ UNCHANGED <<work, prepared, counter, redone, worker>>
      /\ \/ caller.pc = "loop" /\ At("idle")
         \/ caller.pc = "loop" /\ At("wait")
         \/ caller.pc = "join" /\ At("gone")
         \/ caller.pc = "wait" /\ At("loop")
    BY DEF SyncReturns, AwaitBlock, Needed, Join
<1>2. /\ caller' \in CallerType /\ caller'.answer = caller.answer
      /\ caller'.first = caller.first /\ caller'.next = caller.next
      /\ caller'.pc # "start" /\ caller.pc # "start"
      /\ caller'.pc \in {"loop", "wait"} => caller.pc \in {"loop", "wait"}
    BY <1>1, CallerAt DEF Inv
<1>3. worker' \in [Workers -> WorkerType] /\ InFlight' = InFlight
    BY <1>1 DEF Inv, Types, InFlight
<1>4. QED
    BY <1>1, <1>2, <1>3, NothingMoved

\* The destructor wakes the threads.
LEMMA DestroyKeeps ==
    ASSUME Inv, Destroy
    PROVE  Inv'
<1>1. /\ UNCHANGED <<work, prepared, counter, redone>> /\ At("join")
      /\ caller.pc = "idle" /\ worker' = HaveWorkNotified
    BY DEF Destroy
<1>2. /\ caller' \in CallerType /\ caller'.answer = caller.answer /\ caller'.pc = "join"
      /\ caller'.first = caller.first /\ caller'.next = caller.next
    BY <1>1, CallerAt DEF Inv
<1>3. /\ worker' \in [Workers -> WorkerType]
      /\ \A w \in Workers : /\ worker'[w].counter = worker[w].counter
                            /\ worker'[w].height = worker[w].height
                            /\ worker'[w].block = worker[w].block
                            /\ worker'[w].pc = "prepare" <=> worker[w].pc = "prepare"
    BY <1>1, Notified DEF Inv
<1>4. InFlight' = InFlight
    BY <1>1, <1>3 DEF InFlight
<1>5. QED
    BY <1>1, <1>2, <1>3, <1>4, NothingMoved

\* A thread leaves, waits, wakes up, or drops a block of an earlier answer.
LEMMA WorkerMovesKeep ==
    ASSUME Inv, NEW w \in Workers, NEW pc \in {"loop", "wait", "done"},
           worker' = [worker EXCEPT ![w].pc = pc],
           worker[w].pc # "prepare" \/ worker[w].counter # counter,
           UNCHANGED <<work, prepared, counter, caller, redone>>
    PROVE  Inv'
<1>1. /\ worker' \in [Workers -> WorkerType]
      /\ worker'[w].pc = pc
      /\ \A x \in Workers \ {w} : worker'[x] = worker[x]
      /\ \A x \in Workers : /\ worker'[x].counter = worker[x].counter
                            /\ worker'[x].height = worker[x].height
                            /\ worker'[x].block = worker[x].block
    BY WorkerAt DEF Inv
<1>2. w \notin InFlight /\ w \notin InFlight'
    BY <1>1 DEF InFlight
<1>3. InFlight' = InFlight
    BY <1>1, <1>2 DEF InFlight
<1>4. caller' \in CallerType
    BY DEF Inv, Types
<1>5. QED
    BY <1>1, <1>3, <1>4, NothingMoved

\* The wallet passes one height: what was redone below it stays as it was.
LEMMA OneMore ==
    ASSUME Inv
    PROVE  EntriesOf(caller.answer, caller.first, caller.next)
             = EntriesOf(caller.answer, caller.first, caller.next - 1)
                 \cup {Entry(caller.next, BlockAt(caller.answer, caller.next))}
<1>1. caller.first \in Nat /\ caller.next \in Nat /\ caller.first <= caller.next
    BY DEF Inv, Types, CallerType, Position
<1>2. caller.first..caller.next = (caller.first..(caller.next - 1)) \cup {caller.next}
    BY <1>1
<1>3. QED
    BY <1>2, Zenon DEF EntriesOf

\* A step of the wallet's loop to the next height: its position after it.
LEMMA NextHeight ==
    ASSUME Inv, Needed, caller' = [caller EXCEPT !.next = @ + 1],
           UNCHANGED <<work, counter, worker>>
    PROVE  /\ caller' \in CallerType /\ caller'.pc = "loop" /\ caller.pc = "loop"
           /\ caller'.answer = caller.answer /\ caller'.first = caller.first
           /\ caller.next \in Nat /\ caller'.next = caller.next + 1
           /\ Position' /\ InFlight' = InFlight
<1>1. /\ caller' \in CallerType /\ caller'.pc = "loop" /\ caller.pc = "loop"
      /\ caller'.answer = caller.answer /\ caller'.first = caller.first
      /\ caller.next \in Nat /\ caller'.next = caller.next + 1
    BY DEF Inv, Types, CallerType, Needed
<1>2. Position'
    BY <1>1 DEF Inv, Position, Types, CallerType, AnswerType
<1>3. InFlight' = InFlight
    BY DEF InFlight
<1>4. QED
    BY <1>1, <1>2, <1>3

\* A block from before the wallet is passed without being redone.
LEMMA SkipBlockKeeps ==
    ASSUME Inv, SkipBlock
    PROVE  Inv'
<1>0. /\ Needed /\ BlockAt(caller.answer, caller.next) \in Old
      /\ caller' = [caller EXCEPT !.next = @ + 1]
      /\ UNCHANGED <<work, prepared, counter, redone, worker>>
    BY DEF SkipBlock
<1>1. /\ caller' \in CallerType /\ caller'.pc = "loop" /\ caller.pc = "loop"
      /\ caller'.answer = caller.answer /\ caller'.first = caller.first
      /\ caller.next \in Nat /\ caller'.next = caller.next + 1
      /\ Position' /\ InFlight' = InFlight
    BY <1>0, NextHeight
<1>2. Types'
    BY <1>0, <1>1 DEF Inv, Types
<1>3. OwnWork'
    BY <1>0, <1>1 DEF Inv, OwnWork
<1>4. RedoneExact'
    <2>1. caller'.next - 1 = caller.next
        BY <1>1
    <2>2. Entry(caller.next, BlockAt(caller.answer, caller.next)).block \in Old
        BY <1>0 DEF Entry
    <2>3. QED
        BY <1>0, <1>1, <2>1, <2>2, OneMore DEF Inv, RedoneExact
<1>5. NothingLost'
    <2>1. End(caller.answer) \in Nat
        BY DEF Inv, Types, CallerType, AnswerType, End
    <2>2. \A h \in caller'.next..(End(caller.answer) - 1) :
              h \in caller.next..(End(caller.answer) - 1)
        BY <1>1, <2>1
    <2>3. QED
        BY <1>0, <1>1, <2>2 DEF Inv, NothingLost
<1>6. QED
    BY <1>1, <1>2, <1>3, <1>4, <1>5 DEF Inv

\* get_ready_work hands out the block of the answer at the next height.
LEMMA GetReadyWorkKeeps ==
    ASSUME Inv, GetReadyWork
    PROVE  Inv'
<1>0. /\ Needed /\ BlockAt(caller.answer, caller.next) \notin Old
      /\ caller' = [caller EXCEPT !.next = @ + 1]
      /\ UNCHANGED <<work, counter, worker>>
    BY DEF GetReadyWork
<1>p. PICK p \in prepared : /\ p.height = caller.next
                            /\ prepared' = prepared \ {p}
                            /\ redone' = redone \cup {p}
    BY DEF GetReadyWork
<1>1. /\ caller' \in CallerType /\ caller'.pc = "loop" /\ caller.pc = "loop"
      /\ caller'.answer = caller.answer /\ caller'.first = caller.first
      /\ caller.next \in Nat /\ caller'.next = caller.next + 1
      /\ Position' /\ InFlight' = InFlight
    BY <1>0, NextHeight
<1>2. Types'
    BY <1>0, <1>p, <1>1 DEF Inv, Types
<1>3. OwnWork'
    BY <1>0, <1>p, <1>1 DEF Inv, OwnWork
<1>4. RedoneExact'
    <2>1. caller'.next - 1 = caller.next
        BY <1>1
    <2>2. p.block = BlockAt(caller.answer, caller.next)
        BY <1>p, <1>1 DEF Inv, OwnWork, OfAnswer
    <2>3. p = Entry(caller.next, BlockAt(caller.answer, caller.next))
        BY <2>2, <1>p DEF Inv, Types, EntryType, Entry
    <2>4. QED
        BY <1>0, <1>p, <1>1, <2>1, <2>2, <2>3, OneMore DEF Inv, RedoneExact
<1>5. NothingLost'
    <2>1. End(caller.answer) \in Nat
        BY DEF Inv, Types, CallerType, AnswerType, End
    <2>2. \A h \in caller'.next..(End(caller.answer) - 1) :
              h \in caller.next..(End(caller.answer) - 1) /\ h # caller.next
        BY <1>1, <2>1
    <2>3. \A q \in prepared : q.height # caller.next => q \in prepared'
        BY <1>p
    <2>4. QED
        BY <1>0, <1>1, <2>2, <2>3 DEF Inv, NothingLost
<1>6. QED
    BY <1>1, <1>2, <1>3, <1>4, <1>5 DEF Inv

\* What is left of the queue when its front block is taken.
LEMMA QueueTail ==
    ASSUME work \in AnswerType, work.blocks # <<>>,
           work' = [start |-> work.start + 1, blocks |-> Tail(work.blocks)]
    PROVE  /\ work' \in AnswerType /\ work.start \in Nat /\ work'.start = work.start + 1
           /\ End(work') = End(work) /\ work.start < End(work)
           /\ Head(work.blocks) = BlockAt(work, work.start) /\ Head(work.blocks) \in Blocks
           /\ \A h \in Nat : h >= work'.start /\ h < End(work') =>
                                 BlockAt(work', h) = BlockAt(work, h)
<1> DEFINE bs == work.blocks
<1>1. /\ bs \in Seq(Blocks) /\ work.start \in Nat /\ Len(bs) \in Nat \ {0}
    BY DEF AnswerType
<1>2. /\ Tail(bs) \in Seq(Blocks) /\ Len(Tail(bs)) = Len(bs) - 1
      /\ \A i \in 1..(Len(bs) - 1) : Tail(bs)[i] = bs[i + 1]
      /\ Head(bs) = bs[1] /\ Head(bs) \in Blocks
    BY <1>1
<1>3. work'.start = work.start + 1 /\ work'.blocks = Tail(bs)
    OBVIOUS
<1>4. work' \in AnswerType
    BY <1>1, <1>2 DEF AnswerType
<1>5. End(work') = End(work) /\ work.start < End(work)
    BY <1>1, <1>2, <1>3, SMTT(30) DEF End
<1>6. Head(bs) = BlockAt(work, work.start)
    BY <1>1, <1>2 DEF BlockAt
<1>7. ASSUME NEW h \in Nat, h >= work'.start, h < End(work')
      PROVE  BlockAt(work', h) = BlockAt(work, h)
    <2>1. h - work'.start + 1 \in 1..(Len(bs) - 1) /\ (h - work'.start + 1) + 1 = h - work.start + 1
        BY <1>1, <1>2, <1>3, <1>7, SMTT(30) DEF End
    <2>2. QED
        BY <2>1, <1>2, <1>3 DEF BlockAt
<1>8. QED
    BY <1>1, <1>2, <1>3, <1>4, <1>5, <1>6, <1>7

\* A thread takes the front block: from queued it becomes in flight.
LEMMA WorkerTakesKeeps ==
    ASSUME Inv, NEW w \in Workers, WorkerTakes(w)
    PROVE  Inv'
<1>0. /\ worker[w].pc = "loop" /\ work.blocks # <<>>
      /\ worker' = [worker EXCEPT ![w] =
                       [pc |-> "prepare", height |-> work.start,
                        block |-> Head(work.blocks), counter |-> counter]]
      /\ work' = [start |-> work.start + 1, blocks |-> Tail(work.blocks)]
      /\ UNCHANGED <<prepared, counter, caller, redone>>
    BY DEF WorkerTakes
<1>1. /\ work' \in AnswerType /\ work.start \in Nat /\ work'.start = work.start + 1
      /\ End(work') = End(work) /\ work.start < End(work)
      /\ Head(work.blocks) = BlockAt(work, work.start) /\ Head(work.blocks) \in Blocks
      /\ \A h \in Nat : h >= work'.start /\ h < End(work') =>
                            BlockAt(work', h) = BlockAt(work, h)
    BY <1>0, QueueTail DEF Inv, Types
<1>2. /\ worker' \in [Workers -> WorkerType]
      /\ worker'[w].pc = "prepare" /\ worker'[w].height = work.start
      /\ worker'[w].block = Head(work.blocks) /\ worker'[w].counter = counter
      /\ \A x \in Workers \ {w} : worker'[x] = worker[x]
    BY <1>0, <1>1 DEF Inv, Types, WorkerType
<1>3. InFlight' = InFlight \cup {w} /\ w \notin InFlight /\ InFlight \subseteq Workers \ {w}
    BY <1>0, <1>2 DEF InFlight
<1>4. caller.pc # "start"
    BY <1>0 DEF Inv, OwnWork, NoWork
<1>5. Types'
    BY <1>0, <1>1, <1>2 DEF Inv, Types
<1>6. OwnWork'
    <2>1. /\ work.start >= caller.answer.start /\ End(work) = End(caller.answer)
          /\ \A h \in Nat : h >= work.start /\ h < End(work) =>
                                BlockAt(work, h) = BlockAt(caller.answer, h)
          /\ \A p \in prepared : OfAnswer(caller.answer, p.height, p.block)
          /\ \A x \in InFlight : OfAnswer(caller.answer, worker[x].height, worker[x].block)
        BY <1>4 DEF Inv, OwnWork
    <2>2. caller.answer.start \in Nat
        BY DEF Inv, Types, CallerType, AnswerType
    <2>3. OfAnswer(caller.answer, work.start, Head(work.blocks))
        BY <2>1, <1>1 DEF OfAnswer
    <2>4. \A x \in InFlight' : OfAnswer(caller.answer, worker'[x].height, worker'[x].block)
        BY <2>1, <2>3, <1>2, <1>3
    <2>5. \A h \in Nat : h >= work'.start /\ h < End(work') =>
                             BlockAt(work', h) = BlockAt(caller.answer, h)
        BY <2>1, <1>1
    <2>6. QED
        <3>1. work'.start >= caller.answer.start /\ End(work') = End(caller.answer)
            BY <2>1, <2>2, <1>1
        <3>2. caller' = caller /\ prepared' = prepared
            BY <1>0
        <3>3. QED
            BY <3>1, <3>2, <2>1, <2>4, <2>5, <1>4 DEF OwnWork
<1>7. Position'
    BY <1>0 DEF Inv, Position
<1>8. RedoneExact'
    BY <1>0 DEF Inv, RedoneExact
<1>9. NothingLost'
    <2>1. SUFFICES ASSUME caller.pc \in {"loop", "wait"},
                          NEW h \in caller.next..(End(caller.answer) - 1)
                   PROVE  \/ h >= work'.start
                          \/ \E x \in InFlight' : worker'[x].height = h
                          \/ \E p \in prepared' : p.height = h
        BY <1>0 DEF NothingLost
    <2>2. \/ h >= work.start
          \/ \E x \in InFlight : worker[x].height = h
          \/ \E p \in prepared : p.height = h
        BY <2>1 DEF Inv, NothingLost
    <2>3. CASE h = work.start
        BY <2>3, <1>2, <1>3
    <2>4. CASE h > work.start
        BY <2>4, <1>1
    <2>5. CASE \E x \in InFlight : worker[x].height = h
        BY <2>5, <1>2, <1>3
    <2>6. CASE \E p \in prepared : p.height = h
        BY <2>6, <1>0
    <2>7. h \in Int
        BY <2>1
    <2>8. QED
        BY <2>2, <2>3, <2>4, <2>5, <2>6, <2>7, <1>1
<1>10. QED
    BY <1>5, <1>6, <1>7, <1>8, <1>9 DEF Inv

\* A thread stores a block of the current answer: from in flight it becomes
\* prepared, and the wallet looks again.
LEMMA WorkerStoresKeeps ==
    ASSUME Inv, NEW w \in Workers, WorkerStores(w)
    PROVE  Inv'
<1>0. /\ worker[w].pc = "prepare"
      /\ worker' = [worker EXCEPT ![w].pc = "loop"]
      /\ UNCHANGED <<work, counter, redone>>
    BY DEF WorkerStores
<1>1. CASE worker[w].counter # counter
    <2>1. UNCHANGED <<prepared, caller>>
        BY <1>1 DEF WorkerStores
    <2>2. QED
        BY <1>0, <1>1, <2>1, WorkerMovesKeep
<1>2. CASE worker[w].counter = counter
    <2>0. /\ prepared' = Put(worker[w].height, worker[w].block)
          /\ IF caller.pc = "wait" THEN At("loop") ELSE UNCHANGED caller
        BY <1>2 DEF WorkerStores
    <2>1. w \in InFlight
        BY <1>0, <1>2 DEF InFlight
    <2>2. caller.pc # "start"
        BY <2>1 DEF Inv, OwnWork
    <2>3. /\ caller' \in CallerType /\ caller'.answer = caller.answer
          /\ caller'.first = caller.first /\ caller'.next = caller.next
          /\ caller'.pc # "start"
          /\ caller'.pc \in {"loop", "wait"} => caller.pc \in {"loop", "wait"}
        <3>1. CASE caller.pc = "wait"
            BY <2>0, <3>1, CallerAt DEF Inv
        <3>2. CASE caller.pc # "wait"
            BY <2>0, <2>2, <3>2 DEF Inv, Types
        <3>3. QED
            BY <3>1, <3>2
    <2>4. /\ worker' \in [Workers -> WorkerType]
          /\ worker'[w].pc = "loop"
          /\ \A x \in Workers \ {w} : worker'[x] = worker[x]
          /\ \A x \in Workers : worker'[x].counter = worker[x].counter
        BY <1>0, WorkerAt DEF Inv
    <2>5. InFlight' = InFlight \ {w} /\ InFlight' \subseteq Workers
        BY <1>0, <2>4 DEF InFlight
    <2>6. /\ OfAnswer(caller.answer, worker[w].height, worker[w].block)
          /\ \A p \in prepared : OfAnswer(caller.answer, p.height, p.block)
        BY <2>1, <2>2 DEF Inv, OwnWork
    <2>7. worker[w].height \in Nat /\ worker[w].block \in Blocks
        <3>1. /\ worker[w].height \in Nat /\ caller.answer.blocks \in Seq(Blocks)
              /\ caller.answer.start \in Nat
            BY DEF Inv, Types, WorkerType, CallerType, AnswerType
        <3>2. worker[w].height - caller.answer.start + 1 \in 1..Len(caller.answer.blocks)
            BY <2>6, <3>1, SMTT(30) DEF OfAnswer, End
        <3>3. QED
            BY <2>6, <3>1, <3>2 DEF OfAnswer, BlockAt
    <2> DEFINE e == Entry(worker[w].height, worker[w].block)
    <2>8. e \in EntryType /\ e.height = worker[w].height /\ e.block = worker[w].block
        BY <2>7 DEF Entry, EntryType
    <2>9. prepared' = {p \in prepared : p.height # worker[w].height} \cup {e}
        BY <2>0 DEF Put
    <2> HIDE DEF e
    <2>10. Types'
        BY <1>0, <2>3, <2>4, <2>8, <2>9 DEF Inv, Types
    <2>11. OwnWork'
        <3>1. \A p \in prepared' : OfAnswer(caller.answer, p.height, p.block)
            BY <2>6, <2>8, <2>9
        <3>2. \A x \in InFlight' : OfAnswer(caller.answer, worker'[x].height, worker'[x].block)
            BY <2>2, <2>4, <2>5 DEF Inv, OwnWork
        <3>3. QED
            BY <1>0, <2>2, <2>3, <3>1, <3>2 DEF Inv, OwnWork
    <2>12. Position'
        BY <2>3 DEF Inv, Position
    <2>13. RedoneExact'
        BY <1>0, <2>3 DEF Inv, RedoneExact
    <2>14. NothingLost'
        <3>1. SUFFICES ASSUME caller.pc \in {"loop", "wait"},
                              NEW h \in caller.next..(End(caller.answer) - 1)
                       PROVE  \/ h >= work.start
                              \/ \E x \in InFlight' : worker'[x].height = h
                              \/ \E p \in prepared' : p.height = h
            BY <1>0, <2>3 DEF NothingLost
        <3>2. \/ h >= work.start
              \/ \E x \in InFlight : worker[x].height = h
              \/ \E p \in prepared : p.height = h
            BY <3>1 DEF Inv, NothingLost
        <3>3. CASE h = worker[w].height
            BY <3>3, <2>8, <2>9
        <3>4. CASE h # worker[w].height
            BY <3>2, <3>4, <2>4, <2>5, <2>9
        <3>5. QED
            BY <3>3, <3>4
    <2>15. QED
        BY <2>10, <2>11, <2>12, <2>13, <2>14 DEF Inv
<1>3. QED
    BY <1>1, <1>2

-----------------------------------------------------------------------------
\* Every step of the wallet, of a thread and of the scheduler.
LEMMA InvStep == Inv /\ [Next]_vars => Inv'
<1> SUFFICES ASSUME Inv, [Next]_vars PROVE Inv'
    OBVIOUS
<1>1. CASE UNCHANGED vars
    <2>1. InFlight' = InFlight
        BY <1>1 DEF vars, InFlight
    <2>2. QED
        BY <1>1, <2>1 DEF vars, Inv, Types, OwnWork, Position, RedoneExact, NothingLost
<1>2. ASSUME NEW a \in Answers, NEW first \in a.start..End(a), CancelWork(a, first) PROVE Inv'
    BY <1>2, CancelWorkKeeps
<1>3. CASE StartWork
    BY <1>3, StartWorkKeeps
<1>4. CASE SkipBlock
    BY <1>4, SkipBlockKeeps
<1>5. CASE GetReadyWork
    BY <1>5, GetReadyWorkKeeps
<1>6. CASE SyncReturns \/ AwaitBlock \/ Join
    BY <1>6, CallerMovesKeep
<1>7. ASSUME NEW w \in Workers, WorkerQuits(w) PROVE Inv'
    BY <1>7, WorkerMovesKeep DEF WorkerQuits
<1>8. ASSUME NEW w \in Workers, WorkerWaits(w) PROVE Inv'
    BY <1>8, WorkerMovesKeep DEF WorkerWaits
<1>9. ASSUME NEW w \in Workers, WorkerTakes(w) PROVE Inv'
    BY <1>9, WorkerTakesKeeps
<1>10. ASSUME NEW w \in Workers, WorkerStores(w) PROVE Inv'
    BY <1>10, WorkerStoresKeeps
<1>11. CASE WakesUp
    <2>1. CASE caller.pc = "wait" /\ At("loop") /\ UNCHANGED worker
        BY <1>11, <2>1, CallerMovesKeep DEF WakesUp
    <2>2. ASSUME NEW w \in Workers, worker[w].pc = "wait",
                 worker' = [worker EXCEPT ![w].pc = "loop"], UNCHANGED caller
          PROVE  Inv'
        BY <1>11, <2>2, WorkerMovesKeep DEF WakesUp
    <2>3. QED
        BY <1>11, <2>1, <2>2 DEF WakesUp
<1>12. CASE Destroy
    BY <1>12, DestroyKeeps
<1>13. QED
    BY <1>1, <1>2, <1>3, <1>4, <1>5, <1>6, <1>7, <1>8, <1>9, <1>10, <1>11, <1>12
    DEF Next, CallerStep, WorkerStep, Gone

\* The invariant holds in every state of the preparator.
LEMMA Invariance == Spec => []Inv
<1>1. QED
    BY InvInit, InvStep, PTL DEF Spec

\* With any number of threads and any answers, the wallet redoes exactly the
\* blocks of the answer it works on, at their heights: the comparison of
\* work_counter when a result is stored keeps the others out.
THEOREM RedoneExactAlways == Spec => []RedoneExact
<1>1. Inv => RedoneExact
    BY DEF Inv
<1>2. QED
    BY <1>1, Invariance, PTL

\* Every block that get_ready_work will be asked for is queued, with a thread
\* that will store it, or prepared: no wait is for a block that is gone.
THEOREM NothingLostAlways == Spec => []NothingLost
<1>1. Inv => NothingLost
    BY DEF Inv
<1>2. QED
    BY <1>1, Invariance, PTL

-----------------------------------------------------------------------------
(***************************************************************************)
(* The ring signature checker.  Both pools have the same threads; their    *)
(* counters, callers and quit flags are their own.                         *)
(***************************************************************************)
CONSTANTS Inputs, Bodies, Resolvable, Signed, NoInput
VARIABLES args, errors, ready, total, ringWork, ringQuit, ringCaller, ringWorker

RC == INSTANCE RingChecker WITH
        work <- ringWork, quit <- ringQuit, caller <- ringCaller, worker <- ringWorker

\* WorkAssumption of RingChecker.
RingWork ==
    /\ IsFiniteSet(Workers)
    /\ Bodies \subseteq Seq(Inputs)
    /\ MaxWork \in Nat

LEMMA SameCardinality ==
    ASSUME NEW S
    PROVE  RC!Cardinality(S) = Cardinality(S)
BY DEF RC!Cardinality, Cardinality

\* The inputs of the current block that were posted so far.
Posted == {ringCaller.block[n] : n \in 1..total}

\* What the queue, the threads at work and the errors hold is of this block.
OwnOnly ==
    /\ \A i \in 1..Len(args) : args[i] \in Posted
    /\ \A w \in RC!InFlight : ringWorker[w].arg \in Posted
    /\ errors \subseteq Posted \ Signed

\* A posted input with a wrong signature is found or will be.
NoneMissed ==
    \A x \in Posted \ Signed :
        \/ x \in errors
        \/ \E i \in 1..Len(args) : args[i] = x
        \/ \E w \in RC!InFlight : ringWorker[w].arg = x

\* Where the caller is, all that it passed could be resolved; no thread's
\* local counter is ahead of the shared one.
RingPhases ==
    /\ Posted \subseteq Resolvable
    /\ ringCaller.pc \in {"collect", "wait"} => total = Len(ringCaller.block)
    /\ \A w \in Workers : ringWorker[w].work <= ringWork

RingInv == RC!TypeOK /\ RC!ResultsAddUp /\ OwnOnly /\ NoneMissed /\ RingPhases /\ RC!AnswerExact

-----------------------------------------------------------------------------
\* A fresh checker has nothing posted and nothing in flight.
LEMMA RingInvInit ==
    ASSUME RingWork, RC!Init
    PROVE  RingInv
<1>1. RC!TypeOK
    <2>1. ringCaller \in RC!CallerType
        BY DEF RC!Init, RC!CallerType
    <2>2. ringWorker \in [Workers -> RC!WorkerType]
        BY DEF RC!Init, RC!WorkerType, RingWork
    <2>3. ringCaller.block = <<>>
        BY DEF RC!Init
    <2>4. total \in 0..Len(ringCaller.block)
        BY <2>3 DEF RC!Init
    <2>5. args \in Seq(Inputs)
        BY DEF RC!Init
    <2>6. ringQuit \in BOOLEAN
        BY Zenon DEF RC!Init
    <2>7. QED
        BY <2>1, <2>2, <2>4, <2>5, <2>6 DEF RC!Init, RC!TypeOK, RingWork
<1>2. RC!InFlight = {} /\ Posted = {}
    BY DEF RC!Init, RC!InFlight, Posted
<1>3. Cardinality(RC!InFlight) = 0
    BY <1>2, FS_EmptySet
<1>4. RC!ResultsAddUp
    BY <1>3, SameCardinality DEF RC!Init, RC!ResultsAddUp
<1>5. OwnOnly /\ NoneMissed
    BY <1>2 DEF RC!Init, OwnOnly, NoneMissed
<1>6. RingPhases
    BY <1>2 DEF RC!Init, RingPhases
<1>7. RC!AnswerExact
    BY DEF RC!Init, RC!AnswerExact, RC!Valid
<1>8. QED
    BY <1>1, <1>4, <1>5, <1>6, <1>7 DEF RingInv

\* The threads at work on the current block are finitely many.
LEMMA InFlightFinite ==
    ASSUME RingWork
    PROVE  IsFiniteSet(RC!InFlight)
BY FS_Subset DEF RC!InFlight, RingWork

\* A step that posts nothing, moves no input and starts no block keeps the
\* accounting; only the caller's position and the answer are left to check.
LEMMA AccountingKept ==
    ASSUME RingWork, RingInv, UNCHANGED <<args, errors, ready, total, ringWork>>,
           ringCaller'.block = ringCaller.block, RC!InFlight' = RC!InFlight,
           \A w \in Workers : ringWorker'[w].arg = ringWorker[w].arg /\ ringWorker'[w].work = ringWorker[w].work,
           ringCaller'.pc \in {"collect", "wait"} => total = Len(ringCaller.block)
    PROVE  RC!ResultsAddUp' /\ OwnOnly' /\ NoneMissed' /\ RingPhases'
<1>1. Posted' = Posted
    BY DEF Posted
<1>2. RC!InFlight \subseteq Workers
    BY DEF RC!InFlight
<1>3. RC!ResultsAddUp'
    BY DEF RingInv, RC!ResultsAddUp
<1>4. OwnOnly'
    BY <1>1, <1>2 DEF RingInv, OwnOnly
<1>5. NoneMissed'
    BY <1>1, <1>2 DEF RingInv, NoneMissed
<1>6. RingPhases'
    BY <1>1 DEF RingInv, RingPhases
<1>7. QED
    BY <1>3, <1>4, <1>5, <1>6

\* When all results are in, nothing is queued or in flight, so every wrong
\* signature is among the errors.
LEMMA AllResultsIn ==
    ASSUME RingWork, RingInv, ringCaller.pc = "collect", ready = total
    PROVE  errors = {} <=> RC!Valid(ringCaller.block)
<1>1. Cardinality(RC!InFlight) \in Nat
    BY InFlightFinite, FS_CardinalityType
<1>2. Len(args) = 0 /\ Cardinality(RC!InFlight) = 0
    BY <1>1, SameCardinality DEF RingInv, RC!ResultsAddUp, RC!TypeOK
<1>3. RC!InFlight = {}
    BY <1>2, InFlightFinite, FS_EmptySet
<1>4. Posted = {ringCaller.block[n] : n \in 1..Len(ringCaller.block)}
    BY DEF RingInv, RingPhases, Posted
<1>5. ASSUME errors = {} PROVE RC!Valid(ringCaller.block)
    <2>1. Posted \subseteq Signed
        BY <1>2, <1>3, <1>5 DEF RingInv, NoneMissed
    <2>2. QED
        BY <2>1, <1>4 DEF RingInv, RingPhases, RC!Valid
<1>6. ASSUME RC!Valid(ringCaller.block) PROVE errors = {}
    BY <1>4, <1>6 DEF RingInv, OwnOnly, RC!Valid
<1>7. QED
    BY <1>5, <1>6

\* start_work_get_error forgets the block before: no thread is in flight for
\* the new value of work_counter.
LEMMA StartRingKeeps ==
    ASSUME RingWork, RingInv, NEW b \in Bodies, RC!StartWork(b)
    PROVE  RingInv'
<1> USE DEF RC!StartWork
<1>1. RC!TypeOK'
    <2>1. ringCaller' \in RC!CallerType
        BY DEF RingInv, RC!TypeOK, RC!CallerType, RingWork
    <2>2. total' = 0 /\ 0 \in 0..Len(ringCaller'.block)
        BY DEF RingInv, RC!TypeOK, RC!CallerType, RingWork
    <2>3. QED
        BY <2>1, <2>2 DEF RingInv, RC!TypeOK, RingWork
<1>2. RC!InFlight' = {}
    BY DEF RingInv, RC!TypeOK, RingPhases, RC!InFlight
<1>3. Cardinality(RC!InFlight)' = 0
    BY <1>2, FS_EmptySet
<1>4. Posted' = {}
    BY DEF Posted
<1>5. RC!ResultsAddUp'
    BY <1>3, SameCardinality DEF RC!ResultsAddUp
<1>6. OwnOnly' /\ NoneMissed'
    BY <1>2, <1>4 DEF OwnOnly, NoneMissed
<1>7. RingPhases'
    BY <1>4 DEF RingInv, RC!TypeOK, RingPhases, RC!CallerType, RC!WorkerType
<1>8. RC!AnswerExact'
    BY DEF RingInv, RC!TypeOK, RC!AnswerExact, RC!Calling
<1>9. QED
    BY <1>1, <1>5, <1>6, <1>7, <1>8 DEF RingInv

\* The loop of start_work_get_error adds one input to the queue.
LEMMA PostInputKeeps ==
    ASSUME RingWork, RingInv, RC!PostInput
    PROVE  RingInv'
<1> DEFINE x == ringCaller.block[total + 1]
<1> USE DEF RC!PostInput
<1>0. /\ ringCaller \in RC!CallerType
      /\ total \in Nat /\ total + 1 \in 1..Len(ringCaller.block) /\ args \in Seq(Inputs)
      /\ ringWorker \in [Workers -> RC!WorkerType]
    BY DEF RingInv, RC!TypeOK, RC!CallerType
<1>1. x \in Inputs
    BY <1>0 DEF RC!CallerType, RC!WorkerType
<1>2. RC!TypeOK'
    <2>1. ringWorker' \in [Workers -> RC!WorkerType]
        BY <1>0 DEF RC!HaveWorkNotified, RC!WorkerType
    <2>2. args' \in Seq(Inputs)
        BY <1>0, <1>1
    <2>3. QED
        BY <2>1, <2>2, <1>0 DEF RingInv, RC!TypeOK
<1>3. RC!InFlight' = RC!InFlight /\ \A w \in RC!InFlight : ringWorker'[w] = ringWorker[w]
    BY DEF RC!InFlight, RC!HaveWorkNotified
<1>4. Posted' = Posted \cup {x}
    <2>1. 1..(total + 1) = 1..total \cup {total + 1}
        BY <1>0
    <2>2. QED
        BY <2>1 DEF Posted
<1>5. /\ Len(args') = Len(args) + 1
      /\ \A i \in 1..Len(args) : args'[i] = args[i]
      /\ args'[Len(args) + 1] = x
    BY <1>0, <1>1
<1>6. RC!ResultsAddUp'
    <2>1. Cardinality(RC!InFlight) \in Nat
        BY InFlightFinite, FS_CardinalityType
    <2>2. QED
        BY <2>1, <1>0, <1>3, <1>5, SameCardinality DEF RingInv, RC!ResultsAddUp, RC!TypeOK
<1>7. OwnOnly'
    <2>1. \A i \in 1..Len(args') : args'[i] \in Posted'
        BY <1>0, <1>4, <1>5 DEF RingInv, OwnOnly
    <2>2. QED
        BY <2>1, <1>3, <1>4 DEF RingInv, OwnOnly
<1>8. NoneMissed'
    <2> SUFFICES ASSUME NEW y \in Posted' \ Signed
                 PROVE  \/ y \in errors'
                        \/ \E i \in 1..Len(args') : args'[i] = y
                        \/ \E w \in RC!InFlight' : ringWorker'[w].arg = y
        BY DEF NoneMissed
    <2>1. CASE y = x
        BY <2>1, <1>0, <1>5
    <2>2. CASE y \in Posted
        <3>1. CASE \E i \in 1..Len(args) : args[i] = y
            BY <3>1, <1>0, <1>5
        <3>2. CASE ~ \E i \in 1..Len(args) : args[i] = y
            BY <2>2, <3>2, <1>3 DEF RingInv, NoneMissed
        <3>3. QED
            BY <3>1, <3>2
    <2>3. QED
        BY <2>1, <2>2, <1>4
<1>9. RingPhases'
    BY <1>4, <1>0 DEF RingInv, RingPhases, RC!TypeOK, RC!HaveWorkNotified
<1>10. RC!AnswerExact'
    BY DEF RingInv, RC!AnswerExact, RC!Calling, RC!Valid
<1>11. QED
    BY <1>2, <1>6, <1>7, <1>8, <1>9, <1>10 DEF RingInv

\* The caller's other steps: an input that cannot be resolved is an error of
\* its block, and signatures_valid returns what AllResultsIn says.
LEMMA CallerKeeps ==
    ASSUME RingWork, RingInv, RC!PostFails \/ RC!PostEnds \/ RC!AwaitResult \/ RC!SignaturesValid \/ RC!Join
    PROVE  RingInv'
<1> USE DEF RC!PostFails, RC!PostEnds, RC!AwaitResult, RC!SignaturesValid, RC!Join, RC!At, RC!Returns
<1>1. /\ UNCHANGED <<args, errors, ready, total, ringWork, ringQuit, ringWorker>>
      /\ ringCaller \in RC!CallerType
    BY DEF RingInv, RC!TypeOK
<1>2. RC!TypeOK'
    BY <1>1 DEF RingInv, RC!TypeOK, RC!CallerType, RC!WorkerType
<1>3. ringCaller'.block = ringCaller.block /\ RC!InFlight' = RC!InFlight
    BY <1>1 DEF RC!InFlight, RC!CallerType, RC!WorkerType
<1>4. ringCaller'.pc \in {"collect", "wait"} => total = Len(ringCaller.block)
    BY <1>1 DEF RingInv, RingPhases, RC!CallerType, RC!WorkerType
<1>5. RC!ResultsAddUp' /\ OwnOnly' /\ NoneMissed' /\ RingPhases'
    BY <1>1, <1>3, <1>4, AccountingKept
<1>6. RC!AnswerExact'
    <2>1. CASE RC!PostFails
        <3>1. ~RC!Valid(ringCaller.block)
            BY <2>1, <1>1 DEF RingInv, RC!TypeOK, RC!Valid
        <3>2. QED
            BY <2>1, <3>1, <1>1 DEF RC!AnswerExact, RC!Valid
    <2>2. CASE RC!PostEnds \/ RC!AwaitResult
        BY <2>2, <1>1 DEF RC!AnswerExact, RC!Calling, RC!CallerType, RC!WorkerType
    <2>3. CASE RC!SignaturesValid
        BY <2>3, <1>1, AllResultsIn DEF RC!AnswerExact, RC!Valid, RC!CallerType, RC!WorkerType
    <2>4. CASE RC!Join
        BY <2>4, <1>1 DEF RingInv, RC!AnswerExact, RC!Calling, RC!Valid
    <2>5. QED
        BY <2>1, <2>2, <2>3, <2>4
<1>7. QED
    BY <1>2, <1>5, <1>6 DEF RingInv

\* A thread takes the first input of the queue.
LEMMA TakesRingKeeps ==
    ASSUME RingWork, RingInv, NEW w \in Workers, RC!WorkerTakes(w)
    PROVE  RingInv'
<1> USE DEF RC!WorkerTakes
<1>0. /\ args \in Seq(Inputs) /\ args # <<>> /\ ringWork \in 0..MaxWork
      /\ ringWorker \in [Workers -> RC!WorkerType]
    BY DEF RingInv, RC!TypeOK
<1>1. /\ Head(args) \in Inputs /\ Head(args) = args[1] /\ 1 \in 1..Len(args)
      /\ args' \in Seq(Inputs) /\ Len(args') = Len(args) - 1
      /\ \A i \in 1..Len(args') : args'[i] = args[i + 1] /\ i + 1 \in 1..Len(args)
    BY <1>0
<1>2. RC!TypeOK'
    BY <1>0, <1>1 DEF RingInv, RC!TypeOK, RC!CallerType, RC!WorkerType
<1>3. /\ w \notin RC!InFlight /\ RC!InFlight' = RC!InFlight \cup {w}
      /\ ringWorker'[w].arg = args[1]
      /\ \A v \in RC!InFlight : ringWorker'[v] = ringWorker[v]
    BY <1>0, <1>1 DEF RC!InFlight
<1>4. Posted' = Posted
    BY DEF Posted
<1>5. RC!ResultsAddUp'
    <2>1. /\ Cardinality(RC!InFlight) \in Nat
          /\ Cardinality(RC!InFlight') = Cardinality(RC!InFlight) + 1
        BY <1>3, InFlightFinite, FS_CardinalityType, FS_AddElement
    <2>2. QED
        BY <2>1, <1>0, <1>1, SameCardinality DEF RingInv, RC!TypeOK, RC!ResultsAddUp
<1>6. OwnOnly'
    BY <1>1, <1>3, <1>4 DEF RingInv, OwnOnly
<1>7. NoneMissed'
    <2> SUFFICES ASSUME NEW y \in Posted \ Signed, y \notin errors
                 PROVE  \/ \E i \in 1..Len(args') : args'[i] = y
                        \/ \E v \in RC!InFlight' : ringWorker'[v].arg = y
        BY <1>4 DEF NoneMissed
    <2>1. CASE \E i \in 1..Len(args) : args[i] = y
        <3>1. PICK i \in 1..Len(args) : args[i] = y
            BY <2>1
        <3>2. CASE i = 1
            BY <3>1, <3>2, <1>3
        <3>3. CASE i # 1
            <4>1. i - 1 \in 1..Len(args') /\ (i - 1) + 1 = i
                BY <3>3, <1>0, <1>1
            <4>2. args'[i - 1] = y
                BY <4>1, <3>1, <1>1
            <4>3. QED
                BY <4>1, <4>2
        <3>4. QED
            BY <3>2, <3>3
    <2>2. CASE \E v \in RC!InFlight : ringWorker[v].arg = y
        BY <2>2, <1>3
    <2>3. QED
        BY <2>1, <2>2 DEF RingInv, NoneMissed
<1>8. RingPhases'
    BY <1>0, <1>4 DEF RingInv, RingPhases
<1>9. RC!AnswerExact'
    BY DEF RingInv, RC!AnswerExact, RC!Calling, RC!Valid
<1>10. QED
    BY <1>2, <1>5, <1>6, <1>7, <1>8, <1>9 DEF RingInv

\* A thread delivers its result: it counts for the current block exactly if
\* the thread is in flight for it.
LEMMA WorkerChecksKeeps ==
    ASSUME RingWork, RingInv, NEW w \in Workers, RC!WorkerChecks(w)
    PROVE  RingInv'
<1> USE DEF RC!WorkerChecks
<1>0. /\ ringWorker \in [Workers -> RC!WorkerType]
      /\ ringCaller \in RC!CallerType
      /\ total \in Nat /\ ready \in Nat
    BY DEF RingInv, RC!TypeOK
<1>1. /\ ringCaller'.block = ringCaller.block /\ ringCaller'.answer = ringCaller.answer
      /\ RC!Calling' <=> RC!Calling
      /\ ringCaller'.pc \in {"collect", "wait"} <=> ringCaller.pc \in {"collect", "wait"}
      /\ ringCaller' \in RC!CallerType
    BY <1>0 DEF RC!At, RC!Calling, RC!CallerType, RC!WorkerType
<1>2. /\ \A v \in Workers : ringWorker'[v].arg = ringWorker[v].arg /\ ringWorker'[v].work = ringWorker[v].work
      /\ RC!InFlight' = RC!InFlight \ {w}
      /\ \A v \in RC!InFlight' : v \in RC!InFlight /\ ringWorker'[v].arg = ringWorker[v].arg
    BY <1>0 DEF RC!InFlight
<1>3. Posted' = Posted
    BY <1>1 DEF Posted
<1>4. RC!AnswerExact'
    BY <1>1 DEF RingInv, RC!AnswerExact, RC!Valid
<1>5. CASE ringWorker[w].work = ringWork
    <2>1. w \in RC!InFlight /\ ringWorker[w].arg \in Posted
        BY <1>5 DEF RingInv, RC!InFlight, OwnOnly
    <2>2. Posted \subseteq Inputs
        BY <1>0 DEF RingInv, RC!TypeOK, Posted, RC!CallerType, RC!WorkerType
    <2>3. RC!TypeOK'
        <3>1. ringWorker' \in [Workers -> RC!WorkerType]
            BY <1>0 DEF RC!WorkerType
        <3>2. errors' \subseteq Inputs
            BY <1>5, <2>1, <2>2 DEF RingInv, RC!TypeOK
        <3>3. ready' \in Nat
            BY <1>5, <1>0
        <3>4. QED
            BY <3>1, <3>2, <3>3, <1>1 DEF RingInv, RC!TypeOK
    <2>4. RC!ResultsAddUp'
        <3>1. /\ Cardinality(RC!InFlight) \in Nat /\ Cardinality(RC!InFlight') \in Nat
              /\ Cardinality(RC!InFlight') = Cardinality(RC!InFlight) - 1
            BY <2>1, <1>2, InFlightFinite, FS_CardinalityType, FS_RemoveElement
        <3>2. QED
            BY <3>1, <1>0, <1>5, SameCardinality DEF RingInv, RC!TypeOK, RC!ResultsAddUp
    <2>5. OwnOnly'
        BY <2>1, <1>2, <1>3, <1>5 DEF RingInv, OwnOnly
    <2>6. NoneMissed'
        BY <2>1, <1>2, <1>3, <1>5 DEF RingInv, NoneMissed
    <2>7. RingPhases'
        BY <1>0, <1>1, <1>2, <1>3 DEF RingInv, RingPhases
    <2>8. QED
        BY <2>3, <2>4, <2>5, <2>6, <2>7, <1>4 DEF RingInv
<1>6. CASE ringWorker[w].work # ringWork
    <2>1. RC!InFlight' = RC!InFlight
        BY <1>2, <1>6 DEF RC!InFlight
    <2>2. RC!TypeOK'
        BY <1>0, <1>1, <1>6 DEF RingInv, RC!TypeOK, RC!CallerType, RC!WorkerType
    <2>3. ringCaller'.pc \in {"collect", "wait"} => total = Len(ringCaller.block)
        BY <1>1 DEF RingInv, RingPhases
    <2>4. RC!ResultsAddUp' /\ OwnOnly' /\ NoneMissed' /\ RingPhases'
        BY <1>6, <1>1, <1>2, <2>1, <2>3, AccountingKept
    <2>5. QED
        BY <2>2, <2>4, <1>4 DEF RingInv
<1>7. QED
    BY <1>5, <1>6

\* Sleeping, waking up, leaving and the destructor touch no input.
LEMMA IdleStepsKeep ==
    ASSUME RingWork, RingInv,
           \/ \E w \in Workers : RC!WorkerQuits(w) \/ RC!WorkerWaits(w)
           \/ RC!WakesUp
           \/ RC!Destroy
    PROVE  RingInv'
<1> USE DEF RC!WorkerQuits, RC!WorkerWaits, RC!WakesUp, RC!Destroy, RC!At, RC!HaveWorkNotified
<1>0. /\ ringWorker \in [Workers -> RC!WorkerType]
      /\ ringCaller \in RC!CallerType
      /\ ringQuit \in BOOLEAN
    BY DEF RingInv, RC!TypeOK
<1>1. /\ UNCHANGED <<args, errors, ready, total, ringWork>>
      /\ ringCaller'.block = ringCaller.block /\ ringCaller'.answer = ringCaller.answer
      /\ RC!Calling' <=> RC!Calling
      /\ ringCaller'.pc \in {"collect", "wait"} => ringCaller.pc \in {"collect", "wait"}
      /\ ringQuit' \in BOOLEAN
    BY <1>0 DEF RC!Calling, RC!CallerType, RC!WorkerType
<1>2. ringCaller' \in RC!CallerType
    BY <1>0 DEF RC!CallerType
<1>3. /\ ringWorker' \in [Workers -> RC!WorkerType]
      /\ \A v \in Workers : /\ ringWorker'[v].arg = ringWorker[v].arg
                            /\ ringWorker'[v].work = ringWorker[v].work
                            /\ ringWorker'[v].pc = "check" <=> ringWorker[v].pc = "check"
    <2>1. ASSUME NEW w \in Workers, NEW pc \in {"loop", "wait", "done"},
                 ringWorker[w].pc # "check", ringWorker' = [ringWorker EXCEPT ![w].pc = pc]
          PROVE  <1>3
        BY <2>1, <1>0 DEF RC!WorkerType
    <2>2. CASE ringWorker' = RC!HaveWorkNotified
        BY <2>2, <1>0 DEF RC!WorkerType
    <2>3. CASE UNCHANGED ringWorker
        BY <2>3, <1>0
    <2>4. CASE \E w \in Workers : RC!WorkerQuits(w) \/ RC!WorkerWaits(w)
        BY <2>4, <2>1
    <2>5. CASE RC!WakesUp
        BY <2>5, <2>1, <2>3
    <2>6. CASE RC!Destroy
        BY <2>6, <2>2
    <2>7. QED
        BY <2>4, <2>5, <2>6
<1>4. RC!InFlight' = RC!InFlight
    BY <1>1, <1>3 DEF RC!InFlight
<1>5. RC!TypeOK'
    BY <1>1, <1>2, <1>3 DEF RingInv, RC!TypeOK
<1>6. ringCaller'.pc \in {"collect", "wait"} => total = Len(ringCaller.block)
    BY <1>1 DEF RingInv, RingPhases
<1>7. RC!ResultsAddUp' /\ OwnOnly' /\ NoneMissed' /\ RingPhases'
    BY <1>1, <1>3, <1>4, <1>6, AccountingKept
<1>8. RC!AnswerExact'
    BY <1>1 DEF RingInv, RC!AnswerExact, RC!Valid
<1>9. QED
    BY <1>5, <1>7, <1>8 DEF RingInv

\* Every step keeps the inductive invariant.
LEMMA RingInvStep ==
    ASSUME RingWork, RingInv, [RC!Next]_(RC!vars)
    PROVE  RingInv'
<1>1. CASE UNCHANGED RC!vars
    <2>1. /\ UNCHANGED <<args, errors, ready, total, ringWork, ringQuit, ringCaller, ringWorker>>
        BY <1>1 DEF RC!vars
    <2>2. QED
        BY <2>1 DEF RingInv, RC!TypeOK, RC!ResultsAddUp, OwnOnly, NoneMissed, RingPhases,
                    RC!AnswerExact, Posted, RC!InFlight, RC!Calling, RC!Valid
<1>2. CASE \E b \in Bodies : RC!StartWork(b)
    BY <1>2, StartRingKeeps
<1>3. CASE RC!CallerStep
    BY <1>3, PostInputKeeps, CallerKeeps DEF RC!CallerStep
<1>4. CASE \E w \in Workers : RC!WorkerStep(w)
    BY <1>4, IdleStepsKeep, TakesRingKeeps, WorkerChecksKeeps DEF RC!WorkerStep
<1>5. CASE RC!WakesUp \/ RC!Destroy
    BY <1>5, IdleStepsKeep
<1>6. QED
    BY <1>1, <1>2, <1>3, <1>4, <1>5 DEF RC!Next, RC!Gone

\* The inductive invariant of the checker, from which the next three follow.
THEOREM RingInvariance ==
    ASSUME RingWork
    PROVE  RC!Spec => []RingInv
<1>1. RC!Init => RingInv
    BY RingInvInit
<1>2. RingInv /\ [RC!Next]_(RC!vars) => RingInv'
    BY RingInvStep
<1>3. QED
    BY <1>1, <1>2, PTL DEF RC!Spec

\* Type correctness of the queue, the counters and the threads.
THEOREM RingTypeCorrect ==
    ASSUME RingWork
    PROVE  RC!Spec => []RC!TypeOK
BY RingInvariance, PTL DEF RingInv

\* No signature check of the current block is lost or counted twice.
THEOREM RingResultsAddUp ==
    ASSUME RingWork
    PROVE  RC!Spec => []RC!ResultsAddUp
BY RingInvariance, PTL DEF RingInv

\* redo_block gets TRUE exactly for a block all of whose inputs are good, for
\* every number of threads, every schedule and every history of blocks.
THEOREM RingAnswerExact ==
    ASSUME RingWork
    PROVE  RC!Spec => []RC!AnswerExact
BY RingInvariance, PTL DEF RingInv
=============================================================================
