------------------------------ MODULE MCAppChat ------------------------------
(* Small instances of AppChat.                                             *)
EXTENDS AppChat

(* The second provider has no Off; the third is not set up.                *)
ThreeModels == [flash |-> <<"Off", "Low">>, mini |-> <<"Low">>, haiku |-> <<"Off">>]
=============================================================================
