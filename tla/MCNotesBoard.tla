---------------------------- MODULE MCNotesBoard ----------------------------
(* NotesBoard for TLC: request threads and clients are interchangeable.    *)
EXTENDS NotesBoard, TLC

Symmetry == Permutations(Workers) \cup Permutations(Clients)

=============================================================================
