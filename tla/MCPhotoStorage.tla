--------------------------- MODULE MCPhotoStorage ---------------------------
(* Small instances of PhotoStorage for TLC. *)
EXTENDS PhotoStorage, TLC

CONSTANTS p1, p2, p3, d1

\* All the photos are for one round, or one of them only for the course.
OneRound == [p \in Photo |-> d1]
OneLoose == [p \in Photo |-> IF p = p3 THEN NoRound ELSE d1]

Requests == Permutations(Request)
=============================================================================
