---------------------------- MODULE MCChainState ----------------------------
(***************************************************************************)
(* An instance of ChainState for TLC: four branches with transactions.     *)
(* pay spends the genesis output with a ring of one and is in three        *)
(* branches; again spends the same key image, in b3 after pay and in d2    *)
(* beside it; mix has a ring of two whose second member is an output of    *)
(* b1, so it is invalid on the branches of a1.                             *)
(***************************************************************************)
EXTENDS ChainState

CONSTANTS g, a1, a2, a3, b1, b2, b3, c2, d2

MCBlocks == {g, a1, a2, a3, b1, b2, b3, c2, d2}

MCPath ==
    [b \in MCBlocks |->
        CASE b = g  -> <<g>>         [] b = a1 -> <<g, a1>>
          [] b = a2 -> <<g, a1, a2>> [] b = a3 -> <<g, a1, a2, a3>>
          [] b = b1 -> <<g, b1>>     [] b = b2 -> <<g, b1, b2>>
          [] b = c2 -> <<g, b1, c2>> [] b = b3 -> <<g, b1, b2, b3>>
          [] b = d2 -> <<g, a1, d2>>]

MCDifficulty == [b \in MCBlocks |-> IF b = c2 THEN {1, 3} ELSE {1}]
MCStamp == [b \in MCBlocks |-> 0]

\* So many outputs of amounts 1 and 2.
Outs(one, two) == [a \in Amounts |-> IF a = 1 THEN one ELSE two]

\* A base transaction is named by its block; it pays 1 and, in a1, also 2.
Base(h, outs) == [ins |-> <<>>, outs |-> outs, unlock |-> h]

\* An input of amount 1.
In(key, ring, signed) == [key |-> key, amount |-> 1, ring |-> ring, signed |-> signed]

MCTx ==
    [t \in MCBlocks \cup {"pay", "again", "mix"} |->
        CASE t = g -> Base(0, Outs(1, 0))
          [] t = a1 -> Base(2, Outs(1, 1))
          [] t = b1 -> Base(2, Outs(1, 0))
          [] t \in {a2, b2, c2, d2} -> Base(3, Outs(0, 1))
          [] t \in {a3, b3} -> Base(4, Outs(1, 0))
          [] t = "pay" -> [ins |-> <<In("k1", <<0>>, <<<<g, 1, 1>>>>)>>,
                           outs |-> Outs(1, 1), unlock |-> 0]
          [] t = "again" -> [ins |-> <<In("k1", <<0>>, <<<<g, 1, 1>>>>)>>,
                             outs |-> Outs(1, 0), unlock |-> 0]
          [] t = "mix" -> [ins |-> <<In("k2", <<0, 1>>, <<<<g, 1, 1>>, <<b1, 1, 1>>>>)>>,
                           outs |-> Outs(2, 0), unlock |-> 0]]

MCBody ==
    [b \in MCBlocks |->
        CASE b \in {a2, b2} -> <<b, "pay">>
          [] b = a3 -> <<b, "mix">>
          [] b = b3 -> <<b, "again">>
          [] b = c2 -> <<b, "mix">>
          [] b = d2 -> <<b, "pay", "again">>
          [] OTHER -> <<b>>]
=============================================================================
