---------------------------- MODULE RingChecker -----------------------------
(***************************************************************************)
(* RingCheckerMulticore: redo_block's thread posts the ring signatures of  *)
(* a block to a queue, a pool of threads checks them, and signatures_valid *)
(* waits for all results.  The step from one lock of `mu' to its unlock    *)
(* (or wait) is atomic; check_ring_signature runs without the lock.        *)
(*                                                                         *)
(* start_work_get_error may return in the middle of a block and leave its  *)
(* queue to the threads; work_counter tells late results from current ones.*)
(* cancel_work has no caller and is left out.                              *)
(***************************************************************************)
EXTENDS Integers, Sequences, FiniteSets

CONSTANTS
    Workers,     \* the threads
    Inputs,      \* the key inputs of all blocks
    Bodies,      \* the blocks, each a sequence of inputs
    Resolvable,  \* inputs that are unspent, with known and unlocked ring outputs
    Signed,      \* inputs whose check_ring_signature succeeds
    NoInput,     \* what a thread holds before its first input
    MaxWork      \* bound on the calls of start_work_get_error

ASSUME WorkAssumption ==
    /\ IsFiniteSet(Workers)
    /\ Bodies \subseteq Seq(Inputs)
    /\ MaxWork \in Nat

VARIABLES
    args,     \* inputs waiting for a thread
    errors,   \* inputs whose signature was found wrong
    ready,    \* ready_counter
    total,    \* total_counter, which only the calling thread uses
    work,     \* work_counter
    quit,     \* set by the destructor
    caller,   \* the calling thread: where it is, its block, the last answer
    worker    \* the threads: where each is, its input and local_work_counter

vars == <<args, errors, ready, total, work, quit, caller, worker>>

At(pc) == caller' = [caller EXCEPT !.pc = pc]
Returns(answer) == caller' = [caller EXCEPT !.pc = "idle", !.answer = answer]

Init ==
    /\ args = <<>> /\ errors = {} /\ ready = 0 /\ total = 0 /\ work = 0
    /\ quit = FALSE
    /\ caller = [pc |-> "idle", block |-> <<>>, answer |-> TRUE]
    /\ worker = [w \in Workers |-> [pc |-> "loop", arg |-> NoInput, work |-> 0]]

\* notify_all: the waiting threads run their loop again.
HaveWorkNotified ==
    [w \in Workers |->
        IF worker[w].pc = "wait" THEN [worker[w] EXCEPT !.pc = "loop"] ELSE worker[w]]

-----------------------------------------------------------------------------
\* Mutant of StartWork: the results of the block before are not told apart.
StartWorkSameCounter(block) ==
    /\ caller.pc = "idle"
    /\ args' = <<>> /\ errors' = {} /\ ready' = 0 /\ total' = 0
    /\ caller' = [caller EXCEPT !.pc = "post", !.block = block]
    /\ UNCHANGED <<work, quit, worker>>

\* start_work_get_error: forget the block before.
StartWork(block) ==
    /\ caller.pc = "idle" /\ work < MaxWork
    /\ args' = <<>> /\ errors' = {} /\ ready' = 0 /\ total' = 0
    /\ work' = work + 1
    /\ caller' = [caller EXCEPT !.pc = "post", !.block = block]
    /\ UNCHANGED <<quit, worker>>

\* Its loop: the next input can be resolved and goes to the queue.
PostInput ==
    /\ caller.pc = "post" /\ total < Len(caller.block)
    /\ caller.block[total + 1] \in Resolvable
    /\ total' = total + 1
    /\ args' = Append(args, caller.block[total + 1])
    /\ worker' = HaveWorkNotified
    /\ UNCHANGED <<errors, ready, work, quit, caller>>

\* The next input cannot be resolved: an error is returned at once.
PostFails ==
    /\ caller.pc = "post" /\ total < Len(caller.block)
    /\ caller.block[total + 1] \notin Resolvable
    /\ Returns(FALSE)
    /\ UNCHANGED <<args, errors, ready, total, work, quit, worker>>

PostEnds ==
    /\ caller.pc = "post" /\ total = Len(caller.block)
    /\ At("collect")
    /\ UNCHANGED <<args, errors, ready, total, work, quit, worker>>

\* signatures_valid: wait while a result is missing.
AwaitResult ==
    /\ caller.pc = "collect" /\ ready # total
    /\ At("wait")
    /\ UNCHANGED <<args, errors, ready, total, work, quit, worker>>

SignaturesValid ==
    /\ caller.pc = "collect" /\ ready = total
    /\ Returns(errors = {})
    /\ UNCHANGED <<args, errors, ready, total, work, quit, worker>>

-----------------------------------------------------------------------------
\* thread_run: leave, wait for work, or take an input.
WorkerQuits(w) ==
    /\ worker[w].pc = "loop" /\ quit
    /\ worker' = [worker EXCEPT ![w].pc = "done"]
    /\ UNCHANGED <<args, errors, ready, total, work, quit, caller>>

WorkerWaits(w) ==
    /\ worker[w].pc = "loop" /\ ~quit /\ args = <<>>
    /\ worker' = [worker EXCEPT ![w].pc = "wait"]
    /\ UNCHANGED <<args, errors, ready, total, work, quit, caller>>

WorkerTakes(w) ==
    /\ worker[w].pc = "loop" /\ ~quit /\ args # <<>>
    /\ worker' = [worker EXCEPT ![w] = [pc |-> "check", arg |-> Head(args), work |-> work]]
    /\ args' = Tail(args)
    /\ UNCHANGED <<errors, ready, total, work, quit, caller>>

\* Mutant of WorkerChecks: nobody is notified.
WorkerChecksSilently(w) ==
    /\ worker[w].pc = "check"
    /\ worker' = [worker EXCEPT ![w].pc = "loop"]
    /\ \/ /\ worker[w].work = work
          /\ ready' = ready + 1
          /\ errors' = errors \cup ({worker[w].arg} \ Signed)
       \/ /\ worker[w].work # work
          /\ UNCHANGED <<ready, errors>>
    /\ UNCHANGED <<args, total, work, quit, caller>>

\* The result counts only if no other block was started meanwhile.
WorkerChecks(w) ==
    /\ worker[w].pc = "check"
    /\ worker' = [worker EXCEPT ![w].pc = "loop"]
    /\ \/ /\ worker[w].work = work
          /\ ready' = ready + 1
          /\ errors' = errors \cup ({worker[w].arg} \ Signed)
          /\ IF caller.pc = "wait" THEN At("collect") ELSE UNCHANGED caller
       \/ /\ worker[w].work # work
          /\ UNCHANGED <<ready, errors, caller>>
    /\ UNCHANGED <<args, total, work, quit>>

\* A condition variable may wake up without a notification.
WakesUp ==
    /\ \/ \E w \in Workers :
             /\ worker[w].pc = "wait"
             /\ worker' = [worker EXCEPT ![w].pc = "loop"]
             /\ UNCHANGED caller
       \/ caller.pc = "wait" /\ At("collect") /\ UNCHANGED worker
    /\ UNCHANGED <<args, errors, ready, total, work, quit>>

-----------------------------------------------------------------------------
\* Mutant of Destroy: the waiting threads are not notified.
DestroySilently ==
    /\ caller.pc = "idle"
    /\ quit' = TRUE
    /\ At("join")
    /\ UNCHANGED <<args, errors, ready, total, work, worker>>

\* The destructor: tell the threads to leave, then join them.
Destroy ==
    /\ caller.pc = "idle"
    /\ quit' = TRUE
    /\ worker' = HaveWorkNotified
    /\ At("join")
    /\ UNCHANGED <<args, errors, ready, total, work>>

Join ==
    /\ caller.pc = "join" /\ \A w \in Workers : worker[w].pc = "done"
    /\ At("gone")
    /\ UNCHANGED <<args, errors, ready, total, work, quit, worker>>

Gone == caller.pc = "gone" /\ UNCHANGED vars

CallerStep ==
    PostInput \/ PostFails \/ PostEnds \/ AwaitResult \/ SignaturesValid \/ Join

WorkerStep(w) ==
    WorkerQuits(w) \/ WorkerWaits(w) \/ WorkerTakes(w) \/ WorkerChecks(w)

Next ==
    \/ \E b \in Bodies : StartWork(b)
    \/ CallerStep
    \/ \E w \in Workers : WorkerStep(w)
    \/ WakesUp
    \/ Destroy
    \/ Gone

Spec == Init /\ [][Next]_vars

\* Every thread that can run runs: the system's scheduler is fair.
FairSpec == Spec /\ WF_vars(CallerStep) /\ \A w \in Workers : WF_vars(WorkerStep(w))

-----------------------------------------------------------------------------
Calling == caller.pc \in {"post", "collect", "wait"}

\* The types of the counters, the queue and the threads' states.
CallerType ==
    [pc : {"idle", "post", "collect", "wait", "join", "gone"},
     block : Seq(Inputs), answer : BOOLEAN]

WorkerType ==
    [pc : {"loop", "wait", "check", "done"},
     arg : Inputs \cup {NoInput}, work : 0..MaxWork]

\* Type correctness; total_counter does not run past the block.
TypeOK ==
    /\ args \in Seq(Inputs) /\ errors \subseteq Inputs
    /\ ready \in Nat /\ total \in 0..Len(caller.block) /\ work \in 0..MaxWork
    /\ quit \in BOOLEAN
    /\ caller \in CallerType
    /\ worker \in [Workers -> WorkerType]

\* The threads that check an input of the current block.
InFlight == {w \in Workers : worker[w].pc = "check" /\ worker[w].work = work}

\* No signature of the current block is lost or counted twice: each posted
\* input is in the queue, with a thread, or in ready_counter.
ResultsAddUp == total = ready + Len(args) + Cardinality(InFlight)

\* redo_block gets the right answer: TRUE exactly if every input of this
\* block can be resolved and is signed, whatever results of earlier, given
\* up blocks the threads still deliver.
Valid(block) == \A n \in 1..Len(block) : block[n] \in Resolvable \cap Signed

AnswerExact == ~Calling => (caller.answer <=> Valid(caller.block))

\* redo_block is not left waiting: start_work_get_error and signatures_valid
\* return.
CallReturns == Calling ~> ~Calling

\* The destructor returns: no thread sleeps through `quit'.
DestructorReturns == quit ~> caller.pc = "gone"
=============================================================================
