------------------------------ MODULE MCWallet ------------------------------
(***************************************************************************)
(* Two branches over the genesis block.  All outputs of t1 and t2 have one *)
(* key image: t2 pays 3, locked until height 2, and t1 pays 2 at once, to  *)
(* y and twice to x.  Transaction t3 spends that key image and gets change *)
(* back.  On one branch t3 spends what is still locked and t1 comes too    *)
(* late; on the other both are found at height 1, one of the equal amounts *)
(* stands for the key image, and the larger takes its place when it is     *)
(* unlocked.                                                               *)
(***************************************************************************)
EXTENDS Wallet

CONSTANTS k1, k2

MCBlocks == {"g", "a1", "a2", "a3", "b1", "b2"}
MCParent == [b \in MCBlocks |->
    CASE b = "a2" -> "a1" [] b = "a3" -> "a2" [] b = "b2" -> "b1" [] OTHER -> "g"]
MCHeight == [b \in MCBlocks |->
    CASE b = "g" -> 0 [] b \in {"a1", "b1"} -> 1 [] b \in {"a2", "b2"} -> 2 [] OTHER -> 3]
MCTxsOf == [b \in MCBlocks |->
    CASE b = "a1" -> <<"t2">> [] b = "a2" -> <<"t3">> [] b = "a3" -> <<"t1">>
      [] b = "b1" -> <<"t2", "t1">> [] OTHER -> <<>>]
MCTxs == {"t1", "t2", "t3"}
MCIns == [t \in MCTxs |-> IF t = "t3" THEN {k1} ELSE {}]
MCOutputs == 1..5
MCAmount == <<1, 2, 2, 2, 3>>
MCAddr == <<"x", "y", "x", "x", "x">>
MCAddrRank == [x |-> 1, y |-> 2]
MCKi == <<k2, k1, k1, k1, k1>>
MCUnlock == <<0, 0, 0, 0, 2>>
MCOutsOf == [t \in MCTxs |-> CASE t = "t1" -> <<2, 3, 4>> [] t = "t2" -> <<5>> [] OTHER -> <<1>>]
MCAnswers == {<<"g">>, <<"g", "a1">>, <<"a1", "a2", "a3">>, <<"g", "b1", "b2">>, <<"b1">>, <<"g", "a1", "a2">>}
=============================================================================
