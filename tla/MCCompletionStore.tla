------------------------- MODULE MCCompletionStore -------------------------
(* Small instances of CompletionStore for TLC. *)
EXTENDS CompletionStore, TLC

CONSTANTS t1, t2, a, b, k1, k2, s1, s2

(* One guide: every section under one content key. *)
OneKey == [sl \in Slots |-> k1]
(* Section b belongs to another content key, such as a block-editor preview. *)
KeyPerSlot == [sl \in Slots |-> IF sl = b THEN k2 ELSE k1]
FullRoster == [sl \in Slots |-> Steps]
SelfPrefix == {<<k, k>> : k \in ContentKeys}

Symmetric == Permutations(Tabs) \cup Permutations(Steps)
=============================================================================
