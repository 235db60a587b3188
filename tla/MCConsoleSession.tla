---------------------------- MODULE MCConsoleSession ----------------------------
(* Small instances of ConsoleSession: hosts and ids as model values.       *)
EXTENDS ConsoleSession, TLC

OnePort == {5200}
TwoPorts == {5200, 5201}
OnlyInvite == {"invite"}
InviteTeardown == {"invite", "teardown"}
AllButRevoke == {"invite", "teardown", "forget"}
AllVerbs == {"invite", "teardown", "forget", "revoke"}
Interchangeable ==
  Permutations(Names) \cup Permutations(Ids) \cup Permutations(Terminals) \cup Permutations(Hellos)
=============================================================================
