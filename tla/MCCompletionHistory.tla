------------------------ MODULE MCCompletionHistory ------------------------
(* Small instances of CompletionHistory for TLC. *)
EXTENDS CompletionHistory, TLC

CONSTANTS t1, a, b, k1, k2, s1, s2, old

OneKey == [sl \in Slots |-> k1]
SelfPrefix == {<<k, k>> : k \in ContentKeys}

(* "old" is an id a former edition of the guide stored; the rest is rendered. *)
CurrentRoster == [sl \in Slots |-> Steps \ {old}]

(* The two sections are alike. *)
Alike == Permutations(Slots)
=============================================================================
