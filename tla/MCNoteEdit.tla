------------------------------ MODULE MCNoteEdit ------------------------------
(* Two or three server processes that write one note.                       *)
EXTENDS NoteEdit, TLC

CONSTANTS w1, w2, w3

WriterSymmetry == Permutations(Writers)
=============================================================================
