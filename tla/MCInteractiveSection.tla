------------------------- MODULE MCInteractiveSection -------------------------
(* Small instances of InteractiveSection for TLC. *)
EXTENDS InteractiveSection

CONSTANTS i1, i2

Shape(steps, gated, objectives, shared) ==
  [steps |-> steps, gated |-> gated, objectives |-> objectives, shared |-> shared,
   manual |-> {}, skippable |-> {}, multi |-> {}, early |-> {}]

(* Plain steps before passive content, the first of them skippable. *)
Gated == [Shape(2, TRUE, FALSE, FALSE) EXCEPT !.skippable = {1}]

(* A step that can be skipped and one that only the user can do. *)
Guided == [Shape(2, FALSE, FALSE, FALSE) EXCEPT !.skippable = {1}, !.manual = {2}]

(* Objectives over plain steps. *)
Objective == Shape(2, TRUE, TRUE, FALSE)

(* A multi-step that completes early, and a plain step. *)
Eager == [Shape(2, FALSE, FALSE, FALSE) EXCEPT !.multi = {1}, !.early = {1}]

(* A multi-step that can be skipped, on a page with other users of the overlay. *)
Shared == [Shape(1, FALSE, FALSE, TRUE) EXCEPT !.multi = {1}, !.skippable = {1}]

(* Nothing but passive content. *)
Passive == Shape(0, TRUE, FALSE, FALSE)

MCShapes == {Gated, Guided, Objective, Eager, Shared, Passive}
=============================================================================
