------------------------------ MODULE NotesText ------------------------------
(***************************************************************************)
(* The text of a note, and of a clash between two texts                    *)
(* (media/notes_store.py).                                                 *)
(*                                                                         *)
(* A line of text is a number, new for every edit; the lines of a clash    *)
(* block that git would write are the three marks.                         *)
(***************************************************************************)
EXTENDS Integers, Sequences, FiniteSets, SequencesExt

Opens == -1
Splits == -2
Closes == -3
Marks == {Opens, Splits, Closes}

(* A note has a title; nothing else does.                                  *)
NoNote == [title |-> 0, body |-> <<>>, pin |-> "unpin"]

(* An empty file is a note without a title or a text.                      *)
Untitled == -1
Blank == [NoNote EXCEPT !.title = Untitled]
Exists(note) == note.title # 0
Unread == [rev |-> 0, note |-> NoNote]

(* Both sides of a clash, as git writes them.                               *)
Block(mine, theirs) == <<Opens>> \o mine \o <<Splits>> \o theirs \o <<Closes>>

(* settle, line by line.  Only a mark that opens is looked for outside a   *)
(* block, only one that splits in its first side and one that closes in    *)
(* its second.                                                             *)
SettleLine(block, line, keep) ==
  IF block.part = "out" /\ line = Opens
  THEN [block EXCEPT !.part = "first", !.first = <<>>, !.second = <<>>]
  ELSE IF block.part = "out" THEN [block EXCEPT !.out = Append(@, line)]
  ELSE IF block.part = "first" /\ line = Splits THEN [block EXCEPT !.part = "second"]
  ELSE IF block.part = "first" THEN [block EXCEPT !.first = Append(@, line)]
  ELSE IF line = Closes
  THEN [block EXCEPT !.part = "out",
                     !.out = @ \o (IF keep = "second" THEN <<>> ELSE block.first)
                               \o (IF keep = "first" THEN <<>> ELSE block.second)]
  ELSE [block EXCEPT !.second = Append(@, line)]

Settled(body, keep) ==
  LET block[i \in 0..Len(body)] ==
        IF i = 0 THEN [part |-> "out", out |-> <<>>, first |-> <<>>, second |-> <<>>]
        ELSE SettleLine(block[i - 1], body[i], keep)
  IN  block[Len(body)]

KeepsOneWhenOpen(body, keep) == Settled(body, keep).out
Settle(body, keep) ==
  LET block == Settled(body, keep)
  IN  IF block.part = "out" THEN block.out ELSE block.out \o block.first \o block.second

Conflicted(body) == Contains(body, Opens)
=============================================================================
