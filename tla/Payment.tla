------------------------------ MODULE Payment -------------------------------
(***************************************************************************)
(* handle_create_transaction3, UnspentSelector and TransactionBuilder: the *)
(* wallet chooses which of its outputs pay for a transaction, asks the     *)
(* node for random outputs of the same amounts, and hides each of its own  *)
(* among them in a ring.                                                   *)
(*                                                                         *)
(* The choice is a search that is begun again and again: with fewer        *)
(* optimizations while the transaction is too large, with a higher fee     *)
(* while it pays too little for its size, and once more from all outputs   *)
(* if the first ones of the wallet did not do.  Each `step' below is one   *)
(* turn of a loop of select_optimal_outputs.                               *)
(*                                                                         *)
(* Outputs are numbered in the order of the unspent index.  Which of the   *)
(* outputs of one amount is taken does not matter and is left to CHOOSE.   *)
(***************************************************************************)
EXTENDS Integers, Sequences, FiniteSets, FiniteSetsExt, SequencesExt

CONSTANTS
    Outputs, Amount, Gi,  \* the wallet's outputs, their amounts and global indices
    Requests,     \* transfers by address, outputs offered, those ready to be
                  \* spent, anonymity, optimizations and the percentage of the median
    ChangeAddr,   \* change_address
    Addrs,        \* all addresses that are paid, the change address among them
    NodeCount,    \* outputs the node has of each amount
    Mixable,      \* those of them that may be mixed in
    MinCount,     \* min_count of api_add_unspent
    DustLimit,    \* is_dust: smaller amounts, and the ones that are not round
    NoRequest,
    DustThreshold, DustSplit,  \* default_dust_threshold and the 1000 of decompose_amount
    MinimumFee, FeePerByte,
    Median,       \* 120 percent of the effective median size
    HeaderSize, OutputSize, InputSize, MixSize,  \* get_maximum_tx_size
    ExpectedChange,               \* the 8 change outputs that are reckoned with
    StackThreshold, StackStep,    \* STACK_OPTIMIZATION_THRESHOLD and the 10 outputs of a stack
    TwoThreshold,                 \* TWO_THRESHOLD
    MaxDigit      \* bound: no amount has a digit above

ASSUME PaymentAssumption ==
    /\ Outputs \subseteq Nat /\ Amount \in [Outputs -> Nat \ {0}] /\ Gi \in [Outputs -> Nat]
    /\ \A o, p \in Outputs : o # p /\ Amount[o] = Amount[p] => Gi[o] # Gi[p]
    /\ ChangeAddr \in Addrs
    /\ StackStep > 0 /\ StackThreshold >= StackStep /\ TwoThreshold >= 2
    /\ DustThreshold > 0 /\ DustSplit > 0
    /\ \A r \in Requests : r.ready \subseteq r.offered /\ r.offered \subseteq Outputs

VARIABLES
    pc,        \* the step of the handler
    request,   \* the request at hand
    pass,      \* 1 with the first outputs of the wallet, 2 with all
    coins,     \* have_coins and dust_coins
    picked,    \* m_optimization_unspents, and m_used_unspents in the end
    used,      \* m_used_total
    fee, optimizations,  \* of the outer loop
    left,      \* optimization_count
    digit,     \* digit of optimize_amounts
    samples,   \* ra_response.outputs
    todo,      \* inputs that are still to be asked for, or mixed
    rings,     \* m_input_descs
    outs       \* the amounts of all transfers, at last m_output_descs

selection == <<coins, picked, used>>
loops == <<fee, optimizations, left, digit>>
vars == <<pc, request, pass, selection, loops, samples, todo, rings, outs>>

-----------------------------------------------------------------------------
Sum(S) == MapThenSumSet(LAMBDA o : Amount[o], S)
Total(s) == FoldLeft(LAMBDA x, y : x + y, 0, s)

\* is_dust: PRETTY_AMOUNTS are the numbers of one digit followed by zeros.
Round(a) == \E d \in 1..9, k \in 0..MaxDigit : a = d * 10^k
IsDust(a) == ~Round(a) \/ a < DustLimit
Have(S) == {o \in S : ~IsDust(Amount[o])}
Dust(S) == {o \in S : IsDust(Amount[o])}
Stack(S, a) == {o \in S : Amount[o] = a}
Amounts(S) == {Amount[o] : o \in S}

DigitOf(a) == CHOOSE k \in 0..MaxDigit : a >= 10^k /\ a < 10^(k + 1)
\* max_digit of create_have_coins, which does not change in a pass.
TopDigit == Max({0} \cup {DigitOf(a) : a \in Amounts(Have(coins \cup picked))})

\* decompose_amount: the digits of an amount, the low ones together as dust.
DustParts(dust) == SelectSeq(<<dust % DustSplit, dust - (dust % DustSplit)>>, LAMBDA x : x # 0)

DecomposeAmount(amount) ==
    LET chunk(k) == ((amount \div 10^k) % 10) * 10^k
        Digit(acc, k) ==
            IF acc.dust + chunk(k) <= DustThreshold
            THEN [acc EXCEPT !.dust = @ + chunk(k)]
            ELSE [dust |-> acc.dust, handled |-> TRUE,
                  out |-> (IF acc.handled THEN acc.out ELSE acc.out \o DustParts(acc.dust))
                          \o SelectSeq(<<chunk(k)>>, LAMBDA x : x # 0)]
        all == FoldLeft(Digit, [dust |-> 0, handled |-> FALSE, out |-> <<>>],
                        [k \in 1..MaxDigit + 1 |-> k - 1])
    IN  IF all.handled THEN all.out ELSE all.out \o DustParts(all.dust)

\* The outputs of all transfers; their order is shuffled in sign.
OutputsFor(transfers) ==
    LET to == SetToSeq(Addrs)
    IN  FlattenSeq([i \in 1..Len(to) |-> DecomposeAmount(transfers[to[i]])])

SumTransfers(r) == MapThenSumSet(LAMBDA a : r.transfers[a], Addrs)
TxSize(inputs, outputs, anonymity) ==
    HeaderSize + outputs * OutputSize + inputs * (InputSize + anonymity * MixSize)

-----------------------------------------------------------------------------
\* api_add_unspent with a maximal amount: outputs in order until there are
\* enough of them and, dust aside, enough money.
FirstUnspents(r) ==
    LET upTo(o) == {p \in r.offered : p <= o}
        Enough(o) == /\ Sum(Have(upTo(o))) >= 2 * SumTransfers(r)
                     /\ Cardinality(upTo(o)) >= MinCount
        ends == {o \in r.offered : Enough(o)}
    IN  IF ends = {} THEN r.offered ELSE upTo(Min(ends))

\* create_have_coins: what is not confirmed or still locked is left out.
CreateHaveCoins(r, offered) == offered \cap r.ready

\* total_amount of the inner select_optimal_outputs, and what it lacks.
Needed == SumTransfers(request) + fee
Missing == Needed - used
Goto(step) == pc' = step

Begin(r, n, offered) ==
    /\ request' = r /\ pass' = n
    /\ coins' = CreateHaveCoins(r, offered) /\ picked' = {} /\ used' = 0
    /\ fee' = MinimumFee /\ optimizations' = r.optimizations /\ left' = r.optimizations
    /\ digit' = 0
    /\ Goto("largedust")

CreateTransaction(r) ==
    /\ pc = "idle"
    /\ Begin(r, 1, FirstUnspents(r))
    /\ outs' = OutputsFor(r.transfers)
    /\ UNCHANGED <<samples, todo, rings>>

\* An output goes over to m_optimization_unspents.
TakeAll(S) ==
    /\ coins' = coins \ S /\ picked' = picked \cup S
    /\ used' = used + Sum(S)
TakeOne(a, S) == TakeAll({CHOOSE o \in Stack(S, a) : TRUE})

\* Mutants of UnoptimizeAmounts: the outputs are not put back, or their sum
\* stays in m_used_total.
UnoptimizeForgets == coins' = coins /\ picked' = {} /\ used' = used - Sum(picked)
UnoptimizeKeepsTotal == coins' = coins \cup picked /\ picked' = {} /\ used' = used

UnoptimizeAmounts == coins' = coins \cup picked /\ picked' = {} /\ used' = used - Sum(picked)

Searching == UNCHANGED <<request, pass, fee, optimizations, samples, todo, rings, outs>>

-----------------------------------------------------------------------------
\* With anonymity 0 dust is used first: the smallest that is enough.
DustEnough == {a \in Amounts(Dust(coins)) : a >= Missing}
LargeDust ==
    /\ pc = "largedust"
    /\ IF request.anonymity = 0 /\ used < Needed /\ DustEnough # {}
       THEN TakeOne(Min(DustEnough), Dust(coins))
       ELSE UNCHANGED selection
    /\ Goto("dust")
    /\ UNCHANGED <<left, digit>> /\ Searching

\* Then the largest, one for each optimization that is left.
OptimizeDust ==
    /\ pc = "dust"
    /\ IF request.anonymity = 0 /\ used < Needed /\ Dust(coins) # {} /\ left >= 1
       THEN /\ TakeOne(Max(Amounts(Dust(coins))), Dust(coins))
            /\ left' = left - 1 /\ UNCHANGED pc
       ELSE Goto("stack") /\ UNCHANGED <<selection, left>>
    /\ UNCHANGED digit /\ Searching

\* Some outputs of the amount of which there are most, if there are many.
Size(a) == Cardinality(Stack(coins, a))
Highest == {a \in Amounts(Have(coins)) :
                Size(a) > StackThreshold /\ \A b \in Amounts(Have(coins)) : Size(b) <= Size(a)}
OptimizeStack ==
    /\ pc = "stack"
    /\ IF left >= StackStep /\ Highest # {}
       THEN /\ TakeAll(CHOOSE S \in kSubset(StackStep, Stack(coins, Min(Highest))) : TRUE)
            /\ left' = left - StackStep /\ UNCHANGED <<pc, digit>>
       ELSE Goto("digits") /\ digit' = 0 /\ UNCHANGED <<selection, left>>
    /\ Searching

-----------------------------------------------------------------------------
\* optimize_amounts.  The values of the digit of which there are outputs, and
\* what is to be added so that the digit of the rest becomes zero.
Values == {v \in 1..9 : Stack(coins, v * 10^digit) \ Dust(coins) # {}}
Count(v) == Size(v * 10^digit)
Complement == 10 - (((Missing + 10^digit - 1) \div 10^digit) % 10)

Pairs == {p \in Values \X Values :
             /\ (p[1] + p[2] + Complement) % 10 = 0
             /\ Count(p[1]) >= TwoThreshold \/ Count(p[2]) >= TwoThreshold}
Weight(p) == Count(p[1]) + Count(p[2])
\* The first of the heaviest pairs.
BestPairs == {p \in Pairs : \A q \in Pairs : Weight(q) < Weight(p) \/
                                (Weight(q) = Weight(p) /\ p[1] <= q[1])}

Exact == Values \cap {10 - Complement}
Above == {v \in Values : v > 10 - Complement}
MostAbove == {v \in Above : \A w \in Above : Count(w) < Count(v) \/ (Count(w) = Count(v) /\ v <= w)}
BestSingle == IF Exact # {} THEN Exact ELSE MostAbove

\* Two outputs of a pair; of the same value, two of its stack.
TakePair(p) ==
    LET o == CHOOSE x \in Stack(coins, p[1] * 10^digit) : TRUE
        q == CHOOSE x \in Stack(coins, p[2] * 10^digit) \ {o} : TRUE
    IN  TakeAll({o, q})

\* No optimization far beyond the requested sum.
DigitsEnd == digit > TopDigit \/ (used >= Needed /\ 10^digit > used)

OptimizeDigit ==
    /\ pc \in {"digits", "finaldigits"} /\ ~DigitsEnd
    /\ digit' = digit + 1
    /\ IF BestPairs # {} THEN \E p \in BestPairs : TakePair(p)
       ELSE IF Complement # 10 /\ BestSingle # {}
       THEN \E v \in BestSingle : TakeOne(v * 10^digit, coins)
       ELSE UNCHANGED selection
    /\ UNCHANGED <<pc, left>> /\ Searching

OptimizeEnds ==
    /\ pc \in {"digits", "finaldigits"} /\ DigitsEnd
    /\ Goto(IF pc = "finaldigits" \/ used >= Needed THEN "check" ELSE "single")
    /\ UNCHANGED <<selection, left, digit>> /\ Searching

\* The smallest output that is enough, or all begins again without
\* optimizations.
Sufficient == {a \in Amounts(Have(coins)) : a >= Missing}
LargeCoin ==
    /\ pc = "single"
    /\ IF Sufficient # {} THEN TakeOne(Min(Sufficient), coins) /\ Goto("check")
                          ELSE UnoptimizeAmounts /\ Goto("fill")
    /\ UNCHANGED <<left, digit>> /\ Searching

\* The largest outputs until it is enough; dust only with anonymity 0.
Fillers == IF request.anonymity = 0 THEN coins ELSE Have(coins)

FillLargest ==
    /\ pc = "fill" /\ used < Needed /\ Fillers # {}
    /\ TakeOne(Max(Amounts(Fillers)), Fillers)
    /\ UNCHANGED <<pc, left, digit>> /\ Searching

FillEnds ==
    /\ pc = "fill" /\ used >= Needed
    /\ Goto("finaldigits") /\ digit' = 0
    /\ UNCHANGED <<selection, left>> /\ Searching

-----------------------------------------------------------------------------
\* select_optimal_outputs failed: once more with all outputs, or an error.
Failed == \/ pc = "fill" /\ used < Needed /\ Fillers = {}
          \/ pc = "toolarge"
SecondPass ==
    /\ Failed /\ pass = 1
    /\ Begin(request, 2, request.offered)
    /\ UNCHANGED <<samples, todo, rings, outs>>
Refuse ==
    /\ Failed /\ pass = 2
    /\ Goto(IF pc = "fill" THEN "poor" ELSE "unfit")
    /\ UNCHANGED <<selection, left, digit>> /\ Searching

\* The outer loop of select_optimal_outputs.
ChangeDust == (used - Needed) % DustThreshold
Estimate == TxSize(Cardinality(picked), Len(outs) + ExpectedChange, request.anonymity)
OptimizationMedian == (Median * request.percent) \div 100
Again ==
    /\ UnoptimizeAmounts
    /\ Goto("largedust")
    /\ UNCHANGED <<request, pass, digit, samples, todo, rings, outs>>

Unoptimize ==
    /\ pc = "check" /\ Estimate > OptimizationMedian /\ optimizations > 0
    /\ LET half == optimizations \div 2
       IN  optimizations' = IF half < StackStep THEN 0 ELSE half
    /\ left' = optimizations' /\ UNCHANGED fee
    /\ Again

Settled == pc = "check" /\ ~(Estimate > OptimizationMedian /\ optimizations > 0)
Fits == Settled /\ Estimate <= Median
DoesNotFit ==
    /\ Settled /\ Estimate > Median
    /\ Goto("toolarge")
    /\ UNCHANGED <<selection, left, digit>> /\ Searching

\* Mutant of RaisedFee: rounded down.
RaisedFeeDown(size_fee) == ((size_fee - ChangeDust) \div DustThreshold) * DustThreshold

RaisedFee(size_fee) ==
    ((size_fee - ChangeDust + DustThreshold - 1) \div DustThreshold) * DustThreshold

RaiseFee ==
    /\ Fits /\ fee + ChangeDust < FeePerByte * Estimate
    /\ fee' = RaisedFee(FeePerByte * Estimate)
    /\ left' = optimizations /\ UNCHANGED optimizations
    /\ Again

\* The change is an output of its own or goes with a transfer to its address.
Change == used - Needed - ChangeDust
Select ==
    /\ Fits /\ fee + ChangeDust >= FeePerByte * Estimate
    /\ outs' = OutputsFor([request.transfers EXCEPT ![ChangeAddr] = @ + Change])
    /\ samples' = [a \in Amounts(picked) |-> <<>>]
    /\ todo' = picked
    /\ Goto("ask")
    /\ UNCHANGED <<request, pass, selection, loops, rings>>

-----------------------------------------------------------------------------
\* get_random_outputs of the node: all if it has not more than asked for,
\* otherwise random ones, perhaps fewer.
RandomOutputs(a, outs_count) ==
    IF NodeCount[a] <= outs_count THEN {SetToSortSeq(Mixable[a], <)}
    ELSE UNION {{s \in [1..n -> Mixable[a]] : IsInjective(s)} : n \in 0..outs_count}

\* on_get_random_outputs3: it is asked for each output, and what it finds for
\* outputs of the same amount comes in one list.
NodeAnswers ==
    /\ pc = "ask" /\ todo # {}
    /\ LET a == Amount[Min(todo)]
       IN  \E s \in RandomOutputs(a, request.anonymity + 1) :
              samples' = [samples EXCEPT ![a] = @ \o s]
    /\ todo' = todo \ {Min(todo)}
    /\ UNCHANGED <<pc, request, pass, selection, loops, rings, outs>>

AnswerComplete ==
    /\ pc = "ask" /\ todo = {}
    /\ todo' = picked
    /\ Goto("mix")
    /\ UNCHANGED <<request, pass, selection, loops, samples, rings, outs>>

\* The node, or the connection to it, fails.
NodeFails ==
    /\ pc = "ask"
    /\ Goto("nodefailed")
    /\ UNCHANGED <<request, pass, selection, loops, samples, todo, rings, outs>>

\* absolute_output_offsets_to_relative
Relative(s) == [i \in 1..Len(s) |-> IF i = 1 THEN s[1] ELSE s[i] - s[i - 1]]

\* Mutant of Ring: the largest of the random outputs goes, not the nearest.
RingDropsLargest(gi, mix) ==
    Relative(SortSeq(<<gi>> \o SetToSeq(ToSet(mix) \ {Max(ToSet(mix))}), <))

\* The ring of add_mixed_inputs and add_input: without duplicates, the real
\* output in the place of the one nearest to it.
Ring(gi, mix) ==
    LET distance(x) == IF x < gi THEN gi - x ELSE x - gi
        nearest == CHOOSE x \in ToSet(mix) :
                       \A y \in ToSet(mix) : distance(x) < distance(y) \/
                                             (distance(x) = distance(y) /\ x <= y)
    IN  Relative(SortSeq(<<gi>> \o SetToSeq(ToSet(mix) \ {nearest}), <))

\* add_mixed_inputs takes anonymity + 1 outputs from the end of the list.
Mix ==
    /\ pc = "mix" /\ todo # {}
    /\ LET o == Min(todo)
           list == samples[Amount[o]]
           n == Len(list) - request.anonymity - 1
       IN  IF n < 0
           THEN Goto("noanonymity") /\ UNCHANGED <<samples, todo, rings>>
           ELSE /\ rings' = Append(rings,
                                     [output |-> o,
                                      offsets |-> Ring(Gi[o], SubSeq(list, n + 1, Len(list)))])
                /\ samples' = [samples EXCEPT ![Amount[o]] = SubSeq(list, 1, n)]
                /\ todo' = todo \ {o}
                /\ UNCHANGED pc
    /\ UNCHANGED <<request, pass, selection, loops, outs>>

\* sign, which changes the order of inputs and outputs only.
Sign ==
    /\ pc = "mix" /\ todo = {}
    /\ Goto("done")
    /\ UNCHANGED <<request, pass, selection, loops, samples, todo, rings, outs>>

\* The answer goes to the client, and the handler's variables go away.
Replying == pc \in {"done", "poor", "unfit", "noanonymity", "nodefailed"}
Reply ==
    /\ Replying
    /\ pc' = "idle" /\ request' = NoRequest /\ pass' = 0
    /\ coins' = {} /\ picked' = {} /\ used' = 0
    /\ fee' = 0 /\ optimizations' = 0 /\ left' = 0 /\ digit' = 0
    /\ samples' = <<>> /\ todo' = {} /\ rings' = <<>> /\ outs' = <<>>

Init ==
    /\ pc = "idle" /\ request = NoRequest /\ pass = 0
    /\ coins = {} /\ picked = {} /\ used = 0
    /\ fee = 0 /\ optimizations = 0 /\ left = 0 /\ digit = 0
    /\ samples = <<>> /\ todo = {} /\ rings = <<>> /\ outs = <<>>

Handler ==
    \/ LargeDust \/ OptimizeDust \/ OptimizeStack \/ OptimizeDigit \/ OptimizeEnds
    \/ LargeCoin \/ FillLargest \/ FillEnds \/ SecondPass \/ Refuse
    \/ Unoptimize \/ DoesNotFit \/ RaiseFee \/ Select
    \/ AnswerComplete \/ Mix \/ Sign \/ Reply

Next == (\E r \in Requests : CreateTransaction(r)) \/ Handler \/ NodeAnswers \/ NodeFails

Spec == Init /\ [][Next]_vars

\* The handler runs on; the node answers or the connection fails.
FairSpec == Spec /\ WF_vars(Handler) /\ WF_vars(NodeAnswers \/ NodeFails)

-----------------------------------------------------------------------------
Signed == pc = "done"

\* What a signed transaction takes in is what its recipients and the change
\* address get and a fee, from outputs of the wallet that are ready and each
\* used once; and the fee is enough for its inputs, the outputs of the
\* transfers and ExpectedChange outputs of change, whatever was given up, put
\* back and reckoned again on the way.  A change of more outputs is not paid
\* for: the 8 of the code is no bound (TransactionBuilder.cpp
\* select_optimal_outputs, unoptimize_amounts).
PaidInFull ==
    Signed =>
        LET inputs == {rings[i].output : i \in 1..Len(rings)}
            paid == Sum(inputs) - Total(outs)
        IN  /\ inputs \subseteq request.ready /\ Cardinality(inputs) = Len(rings)
            /\ Total(outs) >= SumTransfers(request)
            /\ (Total(outs) - SumTransfers(request)) % DustThreshold = 0
            /\ paid >= MinimumFee
            /\ paid >= FeePerByte * TxSize(Len(rings), Len(OutputsFor(request.transfers)) + ExpectedChange,
                                           request.anonymity)

\* NOT_ENOUGH_FUNDS is said only if all outputs that are ready, dust with
\* anonymity 0 only, are not enough for the transfers and the fee: no output
\* gets lost between the stacks and the selection (WalletNode.cpp
\* handle_create_transaction3, the second call of select_optimal_outputs).
RefusedRightly ==
    pc = "poor" =>
        LET spendable == IF request.anonymity = 0 THEN request.ready ELSE Have(request.ready)
        IN  Sum(spendable) < Needed

\* Every ring has the anonymity that was asked for: anonymity + 1 different
\* outputs, the real one among them, although the random outputs for inputs
\* of one amount come in one list with duplicates, and the node may find fewer
\* (TransactionBuilder.cpp add_mixed_inputs, add_input).
Absolute(s) == {Total(SubSeq(s, 1, i)) : i \in 1..Len(s)}
RingExact ==
    Signed => \A i \in 1..Len(rings) :
                 LET members == Absolute(rings[i].offsets)
                 IN  /\ Gi[rings[i].output] \in members
                     /\ Cardinality(members) = request.anonymity + 1
                     /\ Len(rings[i].offsets) = request.anonymity + 1

\* create_transaction comes to an end: the search, which raises the fee and
\* gives up optimizations, does not begin again for ever.
SearchEnds == pc # "idle" ~> pc = "idle"
=============================================================================
