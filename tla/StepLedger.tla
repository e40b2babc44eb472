------------------------------ MODULE StepLedger ------------------------------
(***************************************************************************)
(* What the completion store promises the reader of a guide, in one tab:   *)
(* the steps a section shows as completed, or will show once its read of   *)
(* the stored ones has ended, change by commands only.  Rendering, reading *)
(* and reloading change nothing, whatever they meet, but for one gap that  *)
(* has its own action, Relapse, and for the time a guide reset takes.      *)
(***************************************************************************)
CONSTANTS
  Sections,
  Steps,
  Rendered     \* Rendered[sl]: the steps a section has today

VARIABLES
  shown,       \* per section: the completed steps it shows, or will after its read
  withheld,    \* per section: what was reset during its read, for the read to leave out
  deaf,        \* sections whose read no longer notes what is reset
  clearing     \* sections whose guide is being reset

ledger == <<shown, withheld, deaf, clearing>>

Init ==
  /\ shown \in [Sections -> SUBSET Steps]
  /\ withheld = [sl \in Sections |-> {}]
  /\ deaf = {} /\ clearing = {}

Shows(sl, steps) == shown' = [shown EXCEPT ![sl] = steps]

Complete(sl, ids) ==
  /\ Shows(sl, shown[sl] \cup ids)
  /\ UNCHANGED <<withheld, deaf, clearing>>

(* All of ids go, unless the read brings some of them back unheard.         *)
Reset(sl, ids) ==
  /\ \E gone \in SUBSET ids :
       /\ sl \notin deaf => gone = ids
       /\ Shows(sl, shown[sl] \ gone)
  /\ \E kept \in SUBSET (shown[sl] \cap ids) :
       withheld' = [withheld EXCEPT ![sl] = @ \cup kept]
  /\ UNCHANGED <<deaf, clearing>>

(* Steps of an earlier edition of the guide are dropped.                    *)
Reconcile(sl) ==
  /\ \E gone \in SUBSET (Steps \ Rendered[sl]) : Shows(sl, shown[sl] \ gone)
  /\ UNCHANGED <<withheld, deaf, clearing>>

(* A read ends: what it brings was counted as shown.                        *)
EndRead(sl) ==
  /\ withheld' = [withheld EXCEPT ![sl] = {}]
  /\ deaf' = deaf \ {sl}
  /\ UNCHANGED <<shown, clearing>>

(* The end of an older read makes the read under way forget the resets it   *)
(* has noted: they are undone.                                              *)
Relapse(sl) ==
  /\ Shows(sl, shown[sl] \cup withheld[sl])
  /\ withheld' = [withheld EXCEPT ![sl] = {}]
  /\ deaf' = deaf \cup {sl}
  /\ UNCHANGED clearing

(* A guide reset begins: a section that is not on the page loses its steps. *)
BeginGuideReset(sections) ==
  /\ clearing = {} /\ clearing' = sections
  /\ \E lost \in SUBSET sections :
       shown' = [sl \in Sections |-> IF sl \in lost THEN {} ELSE shown[sl]]
  /\ UNCHANGED <<withheld, deaf>>

(* It ends, or the page is left before it does: the others lose theirs, but *)
(* for what was written back since it began.  Nothing else is touched.      *)
EndGuideReset ==
  /\ clearing' = {} /\ deaf' = deaf \ clearing
  /\ withheld' = [sl \in Sections |-> IF sl \in clearing THEN {} ELSE withheld[sl]]
  /\ shown' \in [Sections -> SUBSET Steps]
  /\ \A sl \in Sections : /\ shown'[sl] \subseteq shown[sl]
                          /\ sl \notin clearing => shown'[sl] = shown[sl]

Next ==
  \/ \E sl \in Sections : Reconcile(sl) \/ EndRead(sl) \/ Relapse(sl)
  \/ \E sl \in Sections, ids \in SUBSET Steps : Complete(sl, ids) \/ Reset(sl, ids)
  \/ \E sections \in SUBSET Sections : BeginGuideReset(sections)
  \/ EndGuideReset

Spec == Init /\ [][Next]_ledger

=============================================================================
