----------------------------- MODULE MCUserStorage -----------------------------
(* Small instances of UserStorage for TLC. *)
EXTENDS UserStorage

CONSTANTS d1, d2, p1, p2, p3

OnePageEach == [p \in Pages |-> IF p = p2 THEN d2 ELSE d1]
=============================================================================
