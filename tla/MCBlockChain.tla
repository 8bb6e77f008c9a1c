---------------------------- MODULE MCBlockChain ----------------------------
(***************************************************************************)
(* Instances of BlockChain for TLC: a tree of eight blocks with forks at   *)
(* the genesis block and above it.  Letters name branches, digits heights. *)
(***************************************************************************)
EXTENDS BlockChain

CONSTANTS g, a1, a2, a3, b1, b2, b3, c2

MCBlocks == {g, a1, a2, a3, b1, b2, b3, c2}

MCPath ==
    [b \in MCBlocks |->
        CASE b = g  -> <<g>>         [] b = a1 -> <<g, a1>>
          [] b = a2 -> <<g, a1, a2>> [] b = a3 -> <<g, a1, a2, a3>>
          [] b = b1 -> <<g, b1>>     [] b = b2 -> <<g, b1, b2>>
          [] b = c2 -> <<g, b1, c2>> [] b = b3 -> <<g, b1, b2, b3>>]

\* b1 is heavy, b2 cannot be redone, and b2's difficulty depends on the tip when it arrives.
MCDifficulty ==
    [b \in MCBlocks |-> IF b = b1 THEN {2} ELSE IF b = b2 THEN {1, 3} ELSE {1}]

MCRedoable == MCBlocks \ {b2}
MCImportChains == {<<g, a1, a2>>, <<g, b1, b2>>}
=============================================================================
