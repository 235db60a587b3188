----------------------------- MODULE MCNotesStore -----------------------------
(* Small instances of NotesStore.                                          *)
EXTENDS NotesStore, TLC

Symmetry == Permutations(Writers)
=============================================================================
