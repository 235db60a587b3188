----------------------------- MODULE MCPhoneRemote -----------------------------
(* Small instances of PhoneRemote.                                         *)
EXTENDS PhoneRemote, TLC
=============================================================================
