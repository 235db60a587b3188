------------------------------ MODULE MCChatRuns ------------------------------
(* Small instances of ChatRuns.                                            *)
EXTENDS ChatRuns

Says(items, again) == [items |-> items, again |-> again]

(* An answer after some thinking, or a tool.                               *)
OneTool == {Says(<<"thinking">>, FALSE), Says(<<"tool">>, TRUE)}
=============================================================================
