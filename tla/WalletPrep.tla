----------------------------- MODULE WalletPrep -----------------------------
(***************************************************************************)
(* WalletPreparatorMulticore: a pool of threads derives the keys of the    *)
(* blocks of one SyncBlocks answer, while WalletState::sync_with_blockchain*)
(* takes the prepared blocks height by height.  The step from one lock of  *)
(* `mu' to its unlock (or wait) is atomic; the preparation itself runs     *)
(* without the lock.                                                       *)
(*                                                                         *)
(* sync_with_blockchain takes neither the blocks it already has nor those  *)
(* older than the wallet, and may return in the middle of an answer, so    *)
(* work and prepared blocks of one answer are left behind for the next.    *)
(***************************************************************************)
EXTENDS Integers, Sequences

CONSTANTS
    Workers,     \* the threads
    Blocks,      \* raw blocks
    Answers,     \* SyncBlocks answers: start height and blocks
    Old,         \* blocks that are older than the wallet's keys
    NoBlock,     \* what a thread holds before its first block
    MaxWork      \* bound on work_counter

\* resp.blocks.empty() returns before any work is started.
ASSUME AnswerAssumption ==
    /\ Answers \subseteq [start : Nat, blocks : Seq(Blocks) \ {<<>>}]
    /\ MaxWork \in Nat

VARIABLES
    work,      \* the rest of the answer: start height and blocks
    prepared,  \* prepared_blocks, a map: pairs of height and block
    counter,   \* work_counter
    quit,      \* set by the destructor
    caller,    \* the wallet's thread: where it is, its answer, first and next height
    redone,    \* the blocks redone in the last call, with their heights
    worker     \* the threads: where each is, its height, block and counter

vars == <<work, prepared, counter, quit, caller, redone, worker>>

At(pc) == caller' = [caller EXCEPT !.pc = pc]
NoWork == [start |-> 0, blocks |-> <<>>]

\* The height behind an answer, and its block at a height.
End(a) == a.start + Len(a.blocks)
BlockAt(a, h) == a.blocks[h - a.start + 1]
Entry(h, b) == [height |-> h, block |-> b]

Init ==
    /\ work = NoWork /\ prepared = {} /\ counter = 0 /\ quit = FALSE
    /\ caller = [pc |-> "idle", answer |-> NoWork, first |-> 0, next |-> 0]
    /\ redone = {}
    /\ worker = [w \in Workers |->
                    [pc |-> "loop", height |-> 0, block |-> NoBlock, counter |-> 0]]

\* notify_all: the waiting threads run their loop again.
HaveWorkNotified ==
    [w \in Workers |->
        IF worker[w].pc = "wait" THEN [worker[w] EXCEPT !.pc = "loop"] ELSE worker[w]]

-----------------------------------------------------------------------------
\* sync_with_blockchain has popped its chain below `first', which is in the
\* answer or just behind it, and forgets the last answer's work.
CancelWork(a, first) ==
    /\ caller.pc = "idle" /\ counter + 1 < MaxWork
    /\ work' = NoWork /\ prepared' = {}
    /\ counter' = counter + 1
    /\ caller' = [pc |-> "start", answer |-> a, first |-> first, next |-> first]
    /\ redone' = {}
    /\ UNCHANGED <<quit, worker>>

\* Mutant of StartWork: the threads that wait are not notified.
StartWorkSilently ==
    /\ caller.pc = "start"
    /\ work' = caller.answer
    /\ counter' = counter + 1
    /\ At("loop")
    /\ UNCHANGED <<prepared, quit, redone, worker>>

StartWork ==
    /\ caller.pc = "start"
    /\ work' = caller.answer
    /\ counter' = counter + 1
    /\ worker' = HaveWorkNotified
    /\ At("loop")
    /\ UNCHANGED <<prepared, quit, redone>>

\* The loop of sync_with_blockchain is over, or the next block's previous
\* hash is not the wallet's tip.
SyncReturns ==
    /\ caller.pc = "loop"
    /\ At("idle")
    /\ UNCHANGED <<work, prepared, counter, quit, redone, worker>>

Needed == caller.pc = "loop" /\ caller.next < End(caller.answer)

\* A block from before the wallet's oldest key is not looked at.
SkipBlock ==
    /\ Needed /\ BlockAt(caller.answer, caller.next) \in Old
    /\ caller' = [caller EXCEPT !.next = @ + 1]
    /\ UNCHANGED <<work, prepared, counter, quit, redone, worker>>

\* get_ready_work: wait while the block is not there.
AwaitBlock ==
    /\ Needed /\ BlockAt(caller.answer, caller.next) \notin Old
    /\ \A p \in prepared : p.height # caller.next
    /\ At("wait")
    /\ UNCHANGED <<work, prepared, counter, quit, redone, worker>>

\* get_ready_work returns the block, and redo_block and push_chain follow.
GetReadyWork ==
    /\ Needed /\ BlockAt(caller.answer, caller.next) \notin Old
    /\ \E p \in prepared :
          /\ p.height = caller.next
          /\ prepared' = prepared \ {p}
          /\ redone' = redone \cup {p}
    /\ caller' = [caller EXCEPT !.next = @ + 1]
    /\ UNCHANGED <<work, counter, quit, worker>>

-----------------------------------------------------------------------------
\* thread_run: leave, wait for work, or take the front block.
WorkerQuits(w) ==
    /\ worker[w].pc = "loop" /\ quit
    /\ worker' = [worker EXCEPT ![w].pc = "done"]
    /\ UNCHANGED <<work, prepared, counter, quit, caller, redone>>

WorkerWaits(w) ==
    /\ worker[w].pc = "loop" /\ ~quit /\ work.blocks = <<>>
    /\ worker' = [worker EXCEPT ![w].pc = "wait"]
    /\ UNCHANGED <<work, prepared, counter, quit, caller, redone>>

\* Mutant of WorkerTakes: local_work_counter is not set.
WorkerTakesOldCounter(w) ==
    /\ worker[w].pc = "loop" /\ ~quit /\ work.blocks # <<>>
    /\ worker' = [worker EXCEPT ![w] =
                     [pc |-> "prepare", height |-> work.start,
                      block |-> Head(work.blocks), counter |-> worker[w].counter]]
    /\ work' = [start |-> work.start + 1, blocks |-> Tail(work.blocks)]
    /\ UNCHANGED <<prepared, counter, quit, caller, redone>>

WorkerTakes(w) ==
    /\ worker[w].pc = "loop" /\ ~quit /\ work.blocks # <<>>
    /\ worker' = [worker EXCEPT ![w] =
                     [pc |-> "prepare", height |-> work.start,
                      block |-> Head(work.blocks), counter |-> counter]]
    /\ work' = [start |-> work.start + 1, blocks |-> Tail(work.blocks)]
    /\ UNCHANGED <<prepared, counter, quit, caller, redone>>

\* prepared_blocks[height] = result.
Put(h, b) == {p \in prepared : p.height # h} \cup {Entry(h, b)}

\* Mutant of WorkerStores: results of an earlier answer are stored as well.
WorkerStoresAny(w) ==
    /\ worker[w].pc = "prepare"
    /\ worker' = [worker EXCEPT ![w].pc = "loop"]
    /\ prepared' = Put(worker[w].height, worker[w].block)
    /\ IF caller.pc = "wait" THEN At("loop") ELSE UNCHANGED caller
    /\ UNCHANGED <<work, counter, quit, redone>>

\* The result is kept only if no other answer was started meanwhile.
WorkerStores(w) ==
    /\ worker[w].pc = "prepare"
    /\ worker' = [worker EXCEPT ![w].pc = "loop"]
    /\ \/ /\ worker[w].counter = counter
          /\ prepared' = Put(worker[w].height, worker[w].block)
          /\ IF caller.pc = "wait" THEN At("loop") ELSE UNCHANGED caller
       \/ /\ worker[w].counter # counter
          /\ UNCHANGED <<prepared, caller>>
    /\ UNCHANGED <<work, counter, quit, redone>>

\* A condition variable may wake up without a notification.
WakesUp ==
    /\ \/ \E w \in Workers :
             /\ worker[w].pc = "wait"
             /\ worker' = [worker EXCEPT ![w].pc = "loop"]
             /\ UNCHANGED caller
       \/ caller.pc = "wait" /\ At("loop") /\ UNCHANGED worker
    /\ UNCHANGED <<work, prepared, counter, quit, redone>>

\* The destructor: tell the threads to leave, then join them.
Destroy ==
    /\ caller.pc = "idle"
    /\ quit' = TRUE
    /\ worker' = HaveWorkNotified
    /\ At("join")
    /\ UNCHANGED <<work, prepared, counter, redone>>

Join ==
    /\ caller.pc = "join" /\ \A w \in Workers : worker[w].pc = "done"
    /\ At("gone")
    /\ UNCHANGED <<work, prepared, counter, quit, redone, worker>>

Gone == caller.pc = "gone" /\ UNCHANGED vars

CallerStep ==
    StartWork \/ SkipBlock \/ AwaitBlock \/ GetReadyWork \/ SyncReturns \/ Join

WorkerStep(w) ==
    WorkerQuits(w) \/ WorkerWaits(w) \/ WorkerTakes(w) \/ WorkerStores(w)

Next ==
    \/ \E a \in Answers : \E first \in a.start..End(a) : CancelWork(a, first)
    \/ CallerStep
    \/ \E w \in Workers : WorkerStep(w)
    \/ WakesUp
    \/ Destroy
    \/ Gone

Spec == Init /\ [][Next]_vars

\* Every thread that can run runs: the system's scheduler is fair.
FairSpec == Spec /\ WF_vars(CallerStep) /\ \A w \in Workers : WF_vars(WorkerStep(w))

-----------------------------------------------------------------------------
\* The threads that prepare a block of the current answer.
InFlight == {w \in Workers : worker[w].pc = "prepare" /\ worker[w].counter = counter}

\* The entries of the current answer from one height up to another.
EntriesOf(a, from, to) == {Entry(h, BlockAt(a, h)) : h \in from..to}

\* The wallet redoes exactly the blocks of the answer it is working on, each
\* once and each at its own height, whatever blocks of other answers threads
\* still prepare or left prepared.
RedoneExact ==
    redone = {e \in EntriesOf(caller.answer, caller.first, caller.next - 1) : e.block \notin Old}

\* get_ready_work has something to wait for: every block from the next one
\* on is queued, with a thread, or prepared.
NothingLost ==
    caller.pc \in {"loop", "wait"} =>
        \A h \in caller.next..(End(caller.answer) - 1) :
            \/ h >= work.start
            \/ \E w \in InFlight : worker[w].height = h
            \/ \E p \in prepared : p.height = h

\* get_ready_work returns: sync_with_blockchain does not wait for ever.
SyncFinishes == caller.pc # "idle" ~> caller.pc \in {"idle", "gone"}
=============================================================================
