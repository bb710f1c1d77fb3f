---------------------------- MODULE MCBackground ----------------------------
(* Background with three writes over two slots, both tasks of a pair, and    *)
(* two trades on one account.                                                *)
EXTENDS Background, TLC

=============================================================================
