------------------------------- MODULE StepChecker -------------------------------
(***************************************************************************)
(* The requirements of one step of a section: its state machine            *)
(* (src/requirements-manager/step-state.ts), the asynchronous checks that  *)
(* drive it (step-checker.hook.ts, check-phases.ts) and what its buttons   *)
(* and its section do to it (interactive-step.tsx).                        *)
(*                                                                         *)
(* A check holds the objectives first, then the eligibility, then the      *)
(* requirements, and awaits an answer to the first and the last; the world *)
(* may change between the moment an answer is made and the moment it is    *)
(* used, and checks overlap.  checkStep is a closure: whether it thinks    *)
(* that a check is under way, or that the step is enabled, is what was     *)
(* true when React last made it, which is when the eligibility changed     *)
(* (its dependencies leave `state` out).                                   *)
(*                                                                         *)
(* Left out: explanations, retry counters shown to the reader, lazy        *)
(* scrolling, unmounting, steps that only inform (noop), and what a step   *)
(* does when it is run.                                                    *)
(***************************************************************************)
EXTENDS Naturals

CONSTANTS
  Checks,        \* checks that may be under way at the same time
  Guides,        \* what the step may have: sets of "objectives" and "requirements"
  InSection,     \* those of Guides whose step is in a section, which may disable it
  MaxRetries     \* for each of Guides: delays.requirements.maxRetries, or none for
                 \* a step that is rendered lazily or is checked on the live tab

ASSUME GuidesAssumption == Guides \subseteq SUBSET {"objectives", "requirements"}
ASSUME InSectionAssumption == InSection \subseteq Guides
ASSUME MaxRetriesAssumption == MaxRetries \in [Guides -> Nat]

VARIABLES
  has,           \* what the step has
  met,           \* the world: which of them hold
  gate,          \* open, or closed by the previous steps or by an alignment prompt
  disabled,      \* its section runs another step, is not ready, or is disabled itself
  step,          \* fsmState
  managerDone,   \* isCompleted, for the requirements manager
  stored,        \* the completion store has the step
  seen,          \* what the checkStep closure knows of `state`
  settling,      \* the step became enabled less than 200 ms ago
  check,         \* checks under way
  fix,           \* what the closure that the automatic fix under way will call knows
  due            \* a first check, or the one 50 ms after a reset, has still to be made

world == <<has, met, gate, disabled>>
vars == <<world, step, managerDone, stored, seen, settling, check, fix, due>>

Statuses == {"idle", "checking", "blocked", "enabled", "completed"}
Reasons == {"none", "objectives", "skipped"}
NoCheck == [phase |-> "none", answer |-> "pending", tries |-> 0]
Views == {"neither", "checking", "enabled"}

TypeOK ==
  /\ has \in Guides /\ met \subseteq has
  /\ gate \in {"open", "closed", "paused"} /\ disabled \in {b \in BOOLEAN : b => has \in InSection}
  /\ step \in [status : Statuses, reason : Reasons, canFix : BOOLEAN]
  /\ managerDone \in BOOLEAN /\ stored \in BOOLEAN
  /\ settling \in BOOLEAN /\ due \in BOOLEAN
  /\ seen \in Views
  /\ check \in [Checks -> [phase : {"none", "objectives", "requirements", "waiting"},
                           answer : {"pending", "pass", "fail"}, tries : 0..MaxRetries[has]]]
  /\ fix \in Views \cup {"none"}
  /\ step.status = "completed" => step.reason # "none"
  /\ step.canFix => step.status \in {"checking", "blocked"}

Init ==
  /\ has \in Guides /\ met \in SUBSET has
  /\ gate \in {"open", "closed", "paused"} /\ disabled \in {b \in BOOLEAN : b => has \in InSection}
  /\ step = [status |-> "idle", reason |-> "none", canFix |-> FALSE]
  /\ managerDone = FALSE /\ stored = FALSE
  /\ seen = "neither" /\ settling = FALSE
  /\ check = [k \in Checks |-> NoCheck]
  /\ fix = "none" /\ due = TRUE

-----------------------------------------------------------------------------
(* stepReducer *)

StartCheck(s) == IF s.status = "completed" THEN s ELSE [s EXCEPT !.status = "checking"]
SetBlocked(s) == [s EXCEPT !.status = "blocked", !.canFix = FALSE]
(* Mutant: the fix of an earlier failure stays on offer. *)
SetEnabledFixable(s) == [s EXCEPT !.status = "enabled"]
SetEnabled(s) == [s EXCEPT !.status = "enabled", !.canFix = FALSE]
SetError(s, canFix) == [s EXCEPT !.status = "blocked", !.canFix = canFix]
SetCompleted(s, reason) == [s EXCEPT !.status = "completed", !.reason = reason, !.canFix = FALSE]
Reset == [status |-> "idle", reason |-> "none", canFix |-> FALSE]

-----------------------------------------------------------------------------
(* How a check ends: the state machine and the manager take its verdict,     *)
(* whatever has become of the step meanwhile.                                *)

Blocks == step' = SetBlocked(step) /\ managerDone' = FALSE /\ UNCHANGED <<stored, settling>>

Fails == /\ \E canFix \in BOOLEAN : step' = SetError(step, canFix)
         /\ managerDone' = FALSE /\ UNCHANGED <<stored, settling>>

Enables == step' = SetEnabled(step) /\ managerDone' = FALSE /\ settling' = TRUE /\ UNCHANGED stored

(* The effect on completionReason writes the store, but not while the step   *)
(* is disabled.                                                              *)
MeetsObjectives ==
  /\ step' = SetCompleted(step, "objectives")
  /\ managerDone' = TRUE /\ stored' = (stored \/ ~disabled) /\ settling' = TRUE

Asks(k, phase, tries) == check' = [check EXCEPT ![k] = [phase |-> phase, answer |-> "pending", tries |-> tries]]
Ends(k) == check' = [check EXCEPT ![k] = NoCheck]

(* Phases 2 to 4, with the gate as it is now; s is the step while it waits.  *)
GoesOn(k, g, s) ==
  \/ g # "open" /\ Blocks /\ Ends(k)
  \/ /\ g = "open" /\ "requirements" \in has
     /\ Asks(k, "requirements", 0)
     /\ step' = s /\ UNCHANGED <<managerDone, stored, settling>>
  \/ g = "open" /\ "requirements" \notin has /\ Enables /\ Ends(k)

(***************************************************************************)
(* checkStep, from its first line to its first await.  A closure that has  *)
(* seen a check under way returns at once, and so does one that has seen   *)
(* the step enabled when that is less than 200 ms ago.                     *)
(***************************************************************************)
(* Mutant: without the 200 ms. *)
ReturnsIfEnabled(view) == view # "neither"
Returns(view) == view = "checking" \/ (view = "enabled" /\ settling)

(* Mutant: during a prompt a check just returns, without a verdict. *)
BeginsUnlessPaused(k, g) ==
  /\ check[k] = NoCheck
  /\ \/ g = "paused" /\ step' = StartCheck(step) /\ UNCHANGED <<managerDone, stored, settling, check>>
     \/ /\ g # "paused" /\ "objectives" \in has
        /\ Asks(k, "objectives", 0)
        /\ step' = StartCheck(step) /\ UNCHANGED <<managerDone, stored, settling>>
     \/ g # "paused" /\ "objectives" \notin has /\ GoesOn(k, g, StartCheck(step))

Begins(k, g) ==
  /\ check[k] = NoCheck
  /\ \/ g = "paused" /\ Blocks /\ Ends(k)
     \/ /\ g # "paused" /\ "objectives" \in has
        /\ Asks(k, "objectives", 0)
        /\ step' = StartCheck(step) /\ UNCHANGED <<managerDone, stored, settling>>
     \/ g # "paused" /\ "objectives" \notin has /\ GoesOn(k, g, StartCheck(step))

Idles == UNCHANGED <<step, managerDone, stored, settling, check>>

-----------------------------------------------------------------------------
(* What calls checkStep.                                                     *)

View(s) == CASE s.status = "checking" -> "checking"
             [] s.status = "enabled" \/ (s.status = "completed" /\ s.reason = "objectives") -> "enabled"
             [] OTHER -> "neither"

(***************************************************************************)
(* The previous steps are completed or reset, an alignment prompt comes or *)
(* is answered.  If that changes the eligibility, React makes a new        *)
(* closure, and an effect calls it unless a check is under way.            *)
(***************************************************************************)
GateMoves(g) ==
  /\ g # gate /\ gate' = g
  /\ \/ /\ "open" \notin {g, gate}
        /\ Idles /\ UNCHANGED seen
     \/ /\ "open" \in {g, gate}
        /\ seen' = View(step)
        /\ \/ /\ step.status \in {"checking", "completed"} \/ Returns(View(step))
              /\ Idles
           \/ /\ step.status \notin {"checking", "completed"} /\ ~Returns(View(step))
              /\ \E k \in Checks : Begins(k, g)
  /\ UNCHANGED <<has, met, disabled, fix, due>>

(***************************************************************************)
(* The section starts or ends a run, or the step's turn in it comes or     *)
(* goes.  `disabled` is a dependency of the effect that stores objectives. *)
(***************************************************************************)
(* Mutant: it is not. *)
DisabledMovesOnly ==
  /\ has \in InSection /\ disabled' = ~disabled
  /\ UNCHANGED <<has, met, gate, step, managerDone, stored, seen, settling, check, fix, due>>

DisabledMoves ==
  /\ has \in InSection /\ disabled' = ~disabled
  /\ stored' = (stored \/ (disabled /\ step.reason = "objectives"))
  /\ UNCHANGED <<has, met, gate, step, managerDone, seen, settling, check, fix, due>>

(***************************************************************************)
(* A context change, by way of the manager (which is never told that a     *)
(* check is under way) or of the step's own subscription; a URL change, a  *)
(* heartbeat, the Retry button, a completed section.                       *)
(***************************************************************************)
MayRecheck ==
  \/ ~managerDone
  \/ step.status = "enabled"
  \/ gate = "open" /\ step.status \in {"idle", "blocked"}

Recheck ==
  /\ MayRecheck /\ ~Returns(seen)
  /\ \E k \in Checks : Begins(k, gate)
  /\ UNCHANGED <<world, seen, fix, due>>

DueCheck ==
  /\ due /\ due' = FALSE
  /\ \/ Returns(seen) /\ Idles
     \/ ~Returns(seen) /\ \E k \in Checks : Begins(k, gate)
  /\ UNCHANGED <<world, seen, fix>>

MayRun == gate # "closed" /\ step.status = "enabled" /\ step.reason = "none" /\ ~stored

(* A controller asks again when an action is clicked; no phase precedes it.   *)
Revalidate(k) ==
  /\ MayRun /\ ~disabled /\ "requirements" \in has
  /\ check[k] = NoCheck /\ Asks(k, "requirements", 0)
  /\ UNCHANGED <<world, step, managerDone, stored, seen, settling, fix, due>>

-----------------------------------------------------------------------------
(* The answers (checkRequirementsWithStateUpdates).                           *)

(* Objectives also fail when they take more than 3 seconds.                   *)
Answer(k) ==
  /\ check[k].phase \in {"objectives", "requirements"} /\ check[k].answer = "pending"
  /\ \/ /\ check[k].phase \in met
        /\ check' = [check EXCEPT ![k].answer = "pass"]
     \/ /\ check[k].phase \notin met \/ check[k].phase = "objectives"
        /\ check' = [check EXCEPT ![k].answer = "fail"]
  /\ UNCHANGED <<world, step, managerDone, stored, seen, settling, fix, due>>

ObjectivesAnswered(k) ==
  /\ check[k].phase = "objectives" /\ check[k].answer # "pending"
  /\ \/ check[k].answer = "pass" /\ MeetsObjectives /\ Ends(k)
     \/ check[k].answer = "fail" /\ GoesOn(k, gate, step)
  /\ UNCHANGED <<world, seen, fix, due>>

RequirementsAnswered(k) ==
  /\ check[k].phase = "requirements" /\ check[k].answer # "pending"
  /\ \/ check[k].answer = "pass" /\ Enables /\ Ends(k)
     \/ check[k].answer = "fail" /\ check[k].tries = MaxRetries[has] /\ Fails /\ Ends(k)
     \/ /\ check[k].answer = "fail" /\ check[k].tries < MaxRetries[has]
        /\ Asks(k, "waiting", check[k].tries)
        /\ UNCHANGED <<step, managerDone, stored, settling>>
  /\ UNCHANGED <<world, seen, fix, due>>

(* retryDelay has passed. *)
TryAgain(k) ==
  /\ check[k].phase = "waiting"
  /\ Asks(k, "requirements", check[k].tries + 1)
  /\ UNCHANGED <<world, step, managerDone, stored, seen, settling, fix, due>>

-----------------------------------------------------------------------------
(* What the reader and the section do.                                        *)

(* fixRequirement; nobody presses a button that appeared less than 200 ms ago. *)
StartFix ==
  /\ step.canFix /\ ~settling /\ step.reason = "none" /\ ~stored
  /\ fix = "none" /\ fix' = seen
  /\ step' = StartCheck(step)
  /\ UNCHANGED <<world, managerDone, stored, seen, settling, check, due>>

FixFails ==
  /\ fix # "none" /\ fix' = "none"
  /\ step' = SetError(step, TRUE)
  /\ UNCHANGED <<world, managerDone, stored, seen, settling, check, due>>

(* After a delay, the closure of the click is called.                         *)
FixWorks ==
  /\ fix # "none" /\ fix' = "none"
  /\ \/ Returns(fix) /\ Idles
     \/ ~Returns(fix) /\ \E k \in Checks : Begins(k, gate)
  /\ UNCHANGED <<world, seen, due>>

(* There are two buttons: one that any undone step has that is not disabled,  *)
(* and one beside the explanation of what blocks it.                          *)
Skip ==
  /\ step.reason = "none" /\ ~stored
  /\ ~disabled \/ (gate # "closed" /\ step.status \in {"checking", "blocked"})
  /\ step' = SetCompleted(step, "skipped")
  /\ managerDone' = TRUE /\ stored' = TRUE
  /\ UNCHANGED <<world, seen, settling, check, fix, due>>

ResetStep ==
  /\ step' = Reset /\ managerDone' = FALSE /\ due' = TRUE
  /\ UNCHANGED <<world, seen, settling, check, fix>>

(* "Redo", on a step that is shown as done.                                   *)
Redo == ~disabled /\ (stored \/ step.reason # "none") /\ ResetStep /\ stored' = FALSE

(* The section resets its tail in the store, then every one of its steps.     *)
SectionReset == ResetStep /\ stored' \in {stored, FALSE}

(* The step is run and its section records it; it may have been disabled      *)
(* since the run began, and a multi-step that its section runs ignores that.  *)
Done ==
  /\ MayRun /\ stored' = TRUE
  /\ UNCHANGED <<world, step, managerDone, seen, settling, check, fix, due>>

-----------------------------------------------------------------------------

WorldMoves ==
  /\ met' \in SUBSET has /\ met' # met
  /\ UNCHANGED <<has, gate, disabled, step, managerDone, stored, seen, settling, check, fix, due>>

Settles ==
  /\ settling /\ settling' = FALSE
  /\ UNCHANGED <<world, step, managerDone, stored, seen, check, fix, due>>

CheckStep(k) == Answer(k) \/ ObjectivesAnswered(k) \/ RequirementsAnswered(k) \/ TryAgain(k)
FixStep == FixFails \/ FixWorks

Next ==
  \/ \E g \in {"open", "closed", "paused"} : GateMoves(g)
  \/ DisabledMoves
  \/ Recheck \/ DueCheck \/ WorldMoves \/ Settles
  \/ \E k \in Checks : CheckStep(k) \/ Revalidate(k)
  \/ StartFix \/ FixStep \/ Skip \/ Redo \/ SectionReset \/ Done

Fairness ==
  /\ \A k \in Checks : WF_vars(CheckStep(k))
  /\ WF_vars(FixStep) /\ WF_vars(DueCheck) /\ WF_vars(Settles)

(* The premise of the liveness properties: the reader or Grafana goes on asking. *)
KeepsAsking == WF_vars(Recheck)

Spec == Init /\ [][Next]_vars
FairSpec == Spec /\ Fairness /\ KeepsAsking

-----------------------------------------------------------------------------

(***************************************************************************)
(* Whatever late answers do to the status, a step that is shown as done is *)
(* in the store until it is reset in both: at once if it was skipped, and  *)
(* if its objectives were met while it was disabled, from the moment when  *)
(* it no longer is (step-checker.hook.ts, 916-922).                        *)
(***************************************************************************)
DoneIsStored ==
  step.reason # "none" => stored \/ (disabled /\ step.reason = "objectives")

(* checkStep returns at once, and will until the eligibility changes.        *)
Blind == seen = "checking"

(***************************************************************************)
(* A step that shows a spinner has a check or a fix under way that will    *)
(* end it, unless its closure is blind.                                    *)
(***************************************************************************)
SpinnerHasCause ==
  step.status = "checking" =>
    Blind \/ (\E k \in Checks : check[k] # NoCheck) \/ fix \in {"neither", "enabled"}

Settled == gate = "open" /\ met = {"requirements"} \cap has /\ step.reason = "none"

(***************************************************************************)
(* A step whose turn has come and whose requirements hold for good comes   *)
(* to be enabled, however many stale answers arrive late, provided that    *)
(* its closure is not blind: "This ensures steps in "requirements not met" *)
(* state get rechecked when user performs actions" (step-checker.hook.ts,  *)
(* 995), which is not so without the proviso.                              *)
(***************************************************************************)
OpensUnlessBlind ==
  <>[](Settled /\ ~Blind) => []<>(step.status = "enabled")

=============================================================================
