------------------------------ MODULE MCAppItems ------------------------------
(* Small instances of AppItems.                                            *)
EXTENDS AppItems
=============================================================================
