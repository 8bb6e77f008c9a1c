---------------------------- MODULE MCWalletPrep ----------------------------
(***************************************************************************)
(* An instance of WalletPrep for TLC: two threads and answers that overlap *)
(* in heights with other blocks at them, one with a block older than the   *)
(* wallet.                                                                 *)
(***************************************************************************)
EXTENDS WalletPrep

CONSTANTS old, a1, a2, b1, b2

MCBlocks == {old, a1, a2, b1, b2}
MCAnswers ==
    {[start |-> 0, blocks |-> <<old, a1, a2>>],
     [start |-> 1, blocks |-> <<b1, b2>>]}
=============================================================================
