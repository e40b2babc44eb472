--------------------------- MODULE MCCompletionIndex ---------------------------
(* A small instance of CompletionIndex for TLC. *)
EXTENDS CompletionIndex

CONSTANTS c1, c2

MCTwo == {c1, c2}
=============================================================================
