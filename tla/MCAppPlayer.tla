------------------------------ MODULE MCAppPlayer ------------------------------
(* Small instances of AppPlayer.                                           *)
EXTENDS AppPlayer, TLC

TwoTurns == [rotate |-> 2]
=============================================================================
