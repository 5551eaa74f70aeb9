--------------------------- MODULE MCNoteWriteLock ---------------------------
(* Three writers of one note; the writers are interchangeable.              *)
EXTENDS NoteWriteLock, TLC

CONSTANTS w1, w2, w3

WriterSymmetry == Permutations(Writers)
=============================================================================
