----------------------------- MODULE MCPayment ------------------------------
(***************************************************************************)
(* An instance of Payment for TLC: ten units are what a million is in the  *)
(* code.  The wallet has 10 three times, 20 twice, 70 and 300, and as dust *)
(* 4, 25 and 113; one of the 20 is still locked.  It offers any run of     *)
(* these.  The node has few outputs of each amount.  One output of change  *)
(* is reckoned with; a change out of the 300 has two.                      *)
(***************************************************************************)
EXTENDS Payment

MCAmount == [o \in 1..10 |-> <<10, 4, 20, 10, 25, 70, 20, 10, 113, 300>>[o]]
MCGi == [o \in 1..10 |-> <<0, 0, 1, 2, 0, 1, 2, 3, 0, 0>>[o]]
MCNodeCount == [a \in {4, 10, 20, 25, 70, 113, 300} |->
                   CASE a = 10 -> 4 [] a = 20 -> 3 [] a = 70 -> 3 [] OTHER -> 1]
MCMixable == [a \in {4, 10, 20, 25, 70, 113, 300} |-> 0..(MCNodeCount[a] - 1)]

MCTransfers == {[friend |-> x, me |-> y] : x \in {15, 40, 101}, y \in {0, 7}}
MCOffered == {a..b : a, b \in 1..10} \ {{}}
MCRequests ==
    {[transfers |-> t, offered |-> S, ready |-> S \ {3}, anonymity |-> n,
      optimizations |-> k, percent |-> p] :
        t \in MCTransfers, S \in MCOffered, n \in {0, 1}, k \in {1, 5}, p \in {50, 80}}
=============================================================================
