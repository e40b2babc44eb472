---------------------------- MODULE InteractiveSection ----------------------------
(***************************************************************************)
(* One section of a guide                                                  *)
(* (src/components/interactive-tutorial/interactive-section.tsx): running  *)
(* its steps one after the other behind an overlay that keeps the user out *)
(* of the page (global-interaction-blocker.ts), its reducer                *)
(* (section-state.ts), what it persists and restores                       *)
(* (use-section-persistence.ts) and its resets.                            *)
(*                                                                         *)
(* A run is an async function of the component instance that started it.   *)
(* It outlives that instance: when the guide moves to another surface, the *)
(* next instance knows nothing of it.  Completions go to the completion    *)
(* store, which CompletionStore is about: here `kept` is the set of steps  *)
(* of the section that the store, and storage, have.                       *)
(*                                                                         *)
(* Reads of localStorage end before the browser starts the next task, and  *)
(* a change of the store is rendered, with its effects, in the task that   *)
(* made it; what a mount restores is rendered in a task of its own.        *)
(*                                                                         *)
(* The overlay is one for the whole page.  The section's multi-steps raise *)
(* it too, when they run and it is not up (interactive-multi-step.tsx),    *)
(* and so do other sections, multi-steps outside sections and the AI fix   *)
(* (AiFixOrchestrator.tsx), here one user at a time: Elsewhere.            *)
(*                                                                         *)
(* Left out: noop steps, changes of the step roster, the polling of the    *)
(* section's requirements, collapsing, scrolling, preview mode, what a     *)
(* step does to the page, a dynamic import that fails.                     *)
(***************************************************************************)
EXTENDS Naturals, FiniteSets

CONSTANTS
  Shapes,        \* the sections: their number of steps, whether passive content
                 \* trails the last one, whether they have objectives, and which
                 \* steps only the user can do, can be skipped, are multi-steps,
                 \* are multi-steps that complete before they act (completeEarly), and
                 \* whether others on the page use the overlay
  Instances,     \* instances of the component that can be around at a time, be it
                 \* only because of a run they have started
  MaxUsers,      \* bound: how many use, or may use, the overlay at a time
  Elsewhere,     \* whoever else on the page uses the overlay
  None

ASSUME ShapesAssumption ==
  \A s \in Shapes : /\ s.steps \in Nat
                    /\ s.gated \in BOOLEAN /\ s.objectives \in BOOLEAN /\ s.shared \in BOOLEAN
                    /\ s.manual \subseteq 1..s.steps
                    /\ s.skippable \subseteq 1..s.steps
                    /\ s.multi \subseteq 1..s.steps /\ s.early \subseteq s.multi
                    /\ s.steps = 0 => s.gated

ASSUME NoneAssumption ==
  None \notin Instances /\ Elsewhere \notin Instances /\ Elsewhere # None

VARIABLES
  shape,         \* this section
  kept,          \* its steps in the completion store
  ackKept,       \* sectionAcknowledgementStorage
  doneKept,      \* sectionDoneStorage
  active,        \* the guide's tab is the active one: getContentKey() is its key
  mounted,       \* the instance on the page
  acked,         \* its reducer's `acknowledged`
  restored,      \* what its mount has dispatched and React has not rendered yet
  met,           \* isCompletedByObjectives
  shown,         \* isCompleted, for the effects that have run last
  run,           \* handleDoSection of every instance
  cancelled,     \* runs whose isCancelledRef is set
  multi,         \* executeStep of every instance's multi-steps, and whether it has
                 \* yet to say that its step is complete
  elsewhere,     \* whether the other user has raised the overlay, or goes on without
  overlay        \* whose cancelCallback the overlay has: a section's run, or that of
                 \* one of its multi-steps

(* What has happened, which the code does not record. *)
VARIABLES
  earned,        \* steps done, skipped or met since they were last reset
  overtaken,     \* instances whose run was under way when something was reset
  forged,        \* steps that only such a run says are complete
  disturbed      \* users of the overlay have been under way together, or the panel
                 \* was closed under one, and one still is

section == <<kept, ackKept, doneKept>>
component == <<mounted, acked, restored, met, shown>>
runs == <<run, cancelled, multi, elsewhere, overlay>>
history == <<earned, overtaken, forged, disturbed>>
vars == <<shape, section, active, component, runs, history>>

Steps == 1..shape.steps
Idle == [at |-> "idle", step |-> 0]
Running(i) == run[i].at # "idle"
Acting(i) == run[i].at \in {"busy", "inner", "rest"}
IsRunning == mounted # None /\ Running(mounted)

(* The overlay of step s of i, or of its section, and the overlay that is not up. *)
Of(i, s) == [by |-> i, step |-> s]
Down == Of(None, 0)

(* A multi-step executes; the section's run awaits it, or its own button has run it. *)
Unrun == [at |-> "idle", owes |-> FALSE]
Executing(p) == multi[p].at # "idle"
Awaited(p) == run[p[1]].at = "inner" /\ run[p[1]].step = p[2]

(* Nobody who may use the overlay is under way. *)
Quiet ==
  /\ \A i \in Instances : ~Running(i)
  /\ \A p \in Instances \X Steps : ~Executing(p)
  /\ elsewhere = "idle"

Room ==
  Cardinality({i \in Instances : Running(i)})
    + Cardinality({p \in Instances \X Steps : Executing(p) /\ ~Awaited(p)})
    + (IF elsewhere = "idle" THEN 0 ELSE 1) < MaxUsers

Phases == {"idle", "start", "gate", "busy", "inner", "rest"}
MultiPhases == {"idle", "called", "loading", "raised", "nested"}

TypeOK ==
  /\ shape \in Shapes
  /\ kept \subseteq Steps /\ ackKept \in BOOLEAN /\ doneKept \in BOOLEAN
  /\ active \in BOOLEAN
  /\ mounted \in Instances \cup {None} /\ (mounted # None => active)
  /\ acked \in BOOLEAN /\ restored \in {"none", "null", "true"}
  /\ met \in BOOLEAN /\ shown \in BOOLEAN
  /\ run \in [Instances -> [at : Phases, step : 0..shape.steps]]
  /\ \A i \in Instances : Running(i) => run[i].step \in Steps
  /\ cancelled \subseteq Instances
  /\ multi \in [Instances \X Steps -> [at : MultiPhases, owes : BOOLEAN]]
  /\ elsewhere \in {"idle", "raised", "unseen"}
  /\ overlay \in [by : Instances \cup {Elsewhere, None}, step : 0..shape.steps]
  /\ earned \subseteq Steps
  /\ overtaken \subseteq Instances /\ forged \subseteq Steps /\ disturbed \in BOOLEAN

Init ==
  /\ shape \in Shapes
  /\ kept = {} /\ ackKept = FALSE /\ doneKept = FALSE
  /\ active = TRUE /\ mounted = None
  /\ acked = FALSE /\ restored = "none" /\ met = FALSE /\ shown = FALSE
  /\ run = [i \in Instances |-> Idle] /\ cancelled = {}
  /\ multi = [p \in Instances \X Steps |-> Unrun]
  /\ elsewhere = "idle" /\ overlay = Down
  /\ earned = {} /\ overtaken = {} /\ forged = {} /\ disturbed = FALSE

-----------------------------------------------------------------------------
(* deriveSectionState: what the section is, given its completed steps, its
   acknowledgement and its objectives. *)
Completed(k, a, m) == m \/ (Steps \subseteq k /\ (shape.gated => a))
AwaitsAck == Steps \subseteq kept /\ shape.gated /\ ~acked /\ ~met

(* computeCursor: the first step that is not complete. *)
Cursor(s) == s \in Steps \ kept /\ \A t \in Steps \ kept : s <= t

(* computeStepEligibility *)
Eligible(s) == 1..(s - 1) \subseteq kept

(* Mutant: a section that ceases to be complete stays done. *)
RenderedNeverUndone(k, a, m) ==
  LET all == IF m THEN Steps ELSE k
      now == Completed(all, a, m)
  IN /\ kept' = all /\ acked' = a /\ met' = m /\ shown' = now
     /\ doneKept' = (doneKept \/ now)

(* The mounted instance renders and its effects run: objectives complete every
   step, and a section that has become complete, or has ceased to be, says so in
   sectionDoneStorage. *)
Rendered(k, a, m) ==
  LET all == IF m THEN Steps ELSE k
      now == Completed(all, a, m)
  IN /\ kept' = all /\ acked' = a /\ met' = m /\ shown' = now
     /\ doneKept' = IF now # shown THEN now ELSE doneKept

(* The completion store of this guide takes k, whoever is there to see it. *)
Stored(k) ==
  IF mounted = None THEN kept' = k /\ UNCHANGED <<acked, met, shown, doneKept>>
  ELSE Rendered(k, acked, met)

(* markStepCompleted and markStepsCompleted file under the active tab's key. *)
Marked(marks) == IF active THEN Stored(kept \cup marks) ELSE Stored(kept)

-----------------------------------------------------------------------------
(* Mounting: sectionDoneStorage follows what the instance knows at first, which
   is not its acknowledgement; that is read, and given to a section that was
   finished without one, as before the gate existed. *)
Finished == shape.gated /\ shape.steps > 0 /\ Steps \subseteq kept
RestoredAck == ackKept \/ Finished

Mount(i) ==
  /\ active /\ mounted = None
  /\ ~Running(i) /\ \A s \in Steps : ~Executing(<<i, s>>)
  /\ mounted' = i /\ acked' = FALSE /\ met' = FALSE
  /\ restored' = IF RestoredAck THEN "true" ELSE "null"
  /\ ackKept' = RestoredAck
  /\ shown' = Completed(kept, FALSE, FALSE)
  /\ doneKept' = Completed(kept, FALSE, FALSE)
  /\ UNCHANGED <<shape, kept, active, runs, history>>

(* React renders the RESTORE. *)
RenderRestore ==
  /\ restored # "none"
  /\ restored' = "none"
  /\ Rendered(kept, restored = "true", met)
  /\ UNCHANGED <<shape, ackKept, active, mounted, runs, history>>

Gone ==
  /\ mounted' = None /\ acked' = FALSE /\ restored' = "none"
  /\ met' = FALSE /\ shown' = FALSE

(* The guide leaves the floating panel, or shows another page. *)
Unmount ==
  /\ mounted # None /\ Gone
  /\ UNCHANGED <<shape, section, active, runs, history>>

(* The docs panel is closed, be it because the guide moves elsewhere.  The AI fix goes
   with it, and stops what blocks the page, whoever has raised it. *)
PanelCloses ==
  /\ Gone
  /\ elsewhere' \in {elsewhere, "idle"} /\ overlay' = Down
  /\ UNCHANGED <<shape, section, active, run, cancelled, multi, earned, overtaken, forged>>
  /\ disturbed' = ((disturbed \/ overlay # Down) /\ ~Quiet')

(* The user goes to the tab of another guide, and comes back. *)
LeaveTab ==
  /\ active /\ active' = FALSE /\ Gone
  /\ UNCHANGED <<shape, section, runs, history>>
ReturnToTab ==
  /\ ~active /\ active' = TRUE
  /\ UNCHANGED <<shape, section, component, runs, history>>

(* The page is loaded again: every run is gone with it. *)
Reload ==
  /\ Gone /\ run' = [i \in Instances |-> Idle] /\ cancelled' = {}
  /\ multi' = [p \in Instances \X Steps |-> Unrun]
  /\ elsewhere' = "idle" /\ overlay' = Down
  /\ overtaken' = {} /\ disturbed' = FALSE
  /\ UNCHANGED <<shape, section, active, earned, forged>>

-----------------------------------------------------------------------------
(* The user, on the mounted instance. *)

(* A step's own button, its Skip, an action that was detected, its own objectives.
   What the button does may end when the section runs already, when a step before it
   has been reset, or when its component has gone; filed under another guide's key, it
   changes nothing here. *)
CompleteStep(s) ==
  /\ active /\ s \notin kept
  /\ Marked({s}) /\ earned' = earned \cup {s}
  /\ UNCHANGED <<shape, ackKept, active, mounted, restored, runs, overtaken, forged, disturbed>>

ObjectivesMet ==
  /\ mounted # None /\ shape.objectives /\ ~met
  /\ Rendered(kept, acked, TRUE) /\ earned' = Steps
  /\ UNCHANGED <<shape, ackKept, active, mounted, restored, runs, overtaken, forged, disturbed>>

(* Mutant: a reset leaves the acknowledgement in storage. *)
AckClearedOnPage == ackKept' = ackKept /\ restored' = "none"

(* CLEAR_ACK is reduced after a RESTORE that was dispatched before it. *)
AckCleared == ackKept' = FALSE /\ restored' = "none"

(* Steps are taken out of the store, under whatever runs there are. *)
Forgotten(s) ==
  /\ earned' = earned \ s /\ forged' = forged \ s
  /\ overtaken' = overtaken \cup {i \in Instances : Running(i)}

(* handleStepReset: a step and those after it.  Objectives that are met complete
   them again. *)
ResetStep(s) ==
  /\ mounted # None /\ ~IsRunning /\ s \in kept
  /\ Rendered(kept \ (s..shape.steps), FALSE, met) /\ AckCleared
  /\ IF met THEN UNCHANGED <<earned, overtaken, forged>> ELSE Forgotten(s..shape.steps)
  /\ UNCHANGED <<shape, active, mounted, runs, disturbed>>

(* handleResetSection, offered by a section that is complete or collapsed. *)
ResetSection ==
  /\ mounted # None /\ ~IsRunning /\ ~met /\ (shown \/ restored = "true")
  /\ kept' = {} /\ acked' = FALSE /\ shown' = FALSE /\ doneKept' = FALSE
  /\ AckCleared /\ Forgotten(Steps)
  /\ UNCHANGED <<shape, active, mounted, met, runs, disturbed>>

(* The guide's own reset: it is stored away, evicted and loaded again. *)
ResetGuide ==
  /\ mounted # None /\ Gone
  /\ kept' = {} /\ ackKept' = FALSE /\ doneKept' = FALSE
  /\ Forgotten(Steps)
  /\ UNCHANGED <<shape, active, runs, disturbed>>

(* handleMarkSectionComplete *)
MarkComplete ==
  /\ mounted # None /\ ~IsRunning /\ AwaitsAck
  /\ Rendered(kept, TRUE, met) /\ ackKept' = TRUE /\ restored' = "none"
  /\ UNCHANGED <<shape, active, mounted, runs, earned, overtaken, forged, disturbed>>

(* The button that runs, or resumes, the section; it resets a complete one instead. *)
DoSection ==
  /\ mounted # None /\ ~IsRunning /\ ~met /\ Room
  /\ \E s \in Steps : Cursor(s) /\ run' = [run EXCEPT ![mounted] = [at |-> "start", step |-> s]]
  /\ disturbed' = ~Quiet
  /\ UNCHANGED <<shape, section, active, component, cancelled, multi, elsewhere, overlay,
                 earned, overtaken, forged>>

(* handleSectionCancel, from the section's button or from the overlay's. *)
Cancel(i) ==
  /\ Running(i) /\ i \notin cancelled
  /\ i = mounted \/ overlay = Of(i, 0)
  /\ cancelled' = cancelled \cup {i}
  /\ UNCHANGED <<shape, section, active, component, run, multi, elsewhere, overlay, history>>

-----------------------------------------------------------------------------
(* The multi-steps' executeStep, run by the section or by the step's own button. *)

(* It is called: a step that is complete already will not be said to be so again. *)
Called(p) ==
  multi' = [multi EXCEPT ![p] = [at |-> IF p[2] \in shape.early THEN "called" ELSE "loading",
                                 owes |-> p[2] \notin kept]]

(* "Run n steps", or "Try again" after an error: of a step that is complete too, and
   while it is disabled because the section runs. *)
OwnRun(s) ==
  /\ mounted # None /\ s \in shape.multi /\ Eligible(s) /\ ~Executing(<<mounted, s>>) /\ Room
  /\ Called(<<mounted, s>>) /\ disturbed' = ~Quiet
  /\ UNCHANGED <<shape, section, active, component, run, cancelled, elsewhere, overlay,
                 earned, overtaken, forged>>

Says(p) ==
  LET marks == IF multi[p].owes THEN {p[2]} ELSE {} IN
  /\ Marked(marks) /\ earned' = earned \cup marks
  /\ UNCHANGED <<shape, ackKept, active, mounted, restored, run, cancelled, elsewhere,
                 overtaken, forged>>

(* Marked complete before it has acted. *)
MultiCompletesEarly(p) ==
  /\ multi[p].at = "called" /\ Says(p)
  /\ multi' = [multi EXCEPT ![p] = [at |-> "loading", owes |-> FALSE]]
  /\ UNCHANGED <<overlay, disturbed>>

(* Mutant: what runs in a component that has gone does not raise the overlay. *)
RaisedIfMounted(me) == IF overlay = Down /\ me.by = mounted THEN me ELSE overlay

(* startSectionBlocking leaves an overlay that is up as it is; stopSectionBlocking
   takes it down, whoever has put it up. *)
Raised(me) == IF overlay = Down THEN me ELSE overlay

(* The engine has been imported: the step acts behind an overlay of its own, unless
   there is one. *)
MultiActs(p) ==
  /\ multi[p].at = "loading"
  /\ multi' = [multi EXCEPT ![p].at = IF overlay = Down THEN "raised" ELSE "nested"]
  /\ overlay' = Raised(Of(p[1], p[2]))
  /\ UNCHANGED <<shape, section, active, component, run, cancelled, elsewhere, history>>

(* What is left of the overlay when it has ended: nothing, if it had none to begin with. *)
Left(p) == IF multi[p].at = "raised" THEN Down ELSE overlay
EndsMulti(p) == multi' = [multi EXCEPT ![p] = Unrun]

(* Run by its own button, it ends: done, or failed or cancelled. *)
MultiEnds(p) ==
  /\ multi[p].at \in {"raised", "nested"} /\ ~Awaited(p)
  /\ EndsMulti(p) /\ overlay' = Left(p)
  /\ \/ Says(p)
     \/ UNCHANGED <<shape, section, active, component, run, cancelled, elsewhere,
                    earned, overtaken, forged>>
  /\ disturbed' = (disturbed /\ ~Quiet')

MultiMoves(p) == MultiCompletesEarly(p) \/ MultiActs(p) \/ MultiEnds(p)

-----------------------------------------------------------------------------
(* Another section, a multi-step outside one, or the AI fix. *)

ElsewhereFrame == UNCHANGED <<shape, section, active, component, run, cancelled, multi,
                              earned, overtaken, forged>>

ElsewhereStarts ==
  /\ shape.shared /\ elsewhere = "idle" /\ Room
  /\ elsewhere' = IF overlay = Down THEN "raised" ELSE "unseen"
  /\ overlay' = Raised(Of(Elsewhere, 0)) /\ disturbed' = ~Quiet
  /\ ElsewhereFrame

(* It stops blocking; a nested multi-step does not.  An AI fix that has timed out may
   still have its answer to come, which stops blocking again. *)
ElsewhereEnds ==
  /\ elsewhere # "idle" /\ elsewhere' \in {"idle", "unseen"}
  /\ overlay' \in IF elsewhere = "raised" THEN {Down} ELSE {overlay, Down}
  /\ ElsewhereFrame /\ disturbed' = (disturbed /\ ~Quiet')

-----------------------------------------------------------------------------
(* A run.  Between two awaits it takes one of the following steps. *)

(* isCancelledRef stays as it is until the next run resets it; nobody reads it before. *)
Idled(i) ==
  /\ run' = [run EXCEPT ![i] = Idle]
  /\ cancelled' = cancelled \ {i} /\ overtaken' = overtaken \ {i}
  /\ disturbed' = (disturbed /\ ~Quiet')

Records(i, marks, done) ==
  /\ Marked(marks) /\ earned' = earned \cup done
  /\ forged' = IF active /\ i \in overtaken THEN forged \cup (marks \ (earned \cup done)) ELSE forged

(* Mutant: a cancelled run leaves the overlay to whoever has cancelled it. *)
EndUnlessCancelled(i, marks, done) ==
  /\ Idled(i) /\ overlay' = (IF i \in cancelled THEN overlay ELSE Down) /\ Records(i, marks, done)

(* The loop is left: the overlay goes. *)
End(i, marks, done) ==
  /\ Idled(i) /\ overlay' = Down /\ Records(i, marks, done)

(* Mutants: one turn too many; a loop that a cancel has left completes every step too. *)
GoesOnPastLast(i, k) == k \in 1..(shape.steps + 1) /\ i \notin cancelled /\ k \notin shape.manual
RanOrCancelled(i, k) == k \notin Steps \/ i \in cancelled

(* The head of the loop, at step k: it ends when the run is cancelled, waits for
   the user at a step only he can do, and completes every step after the last. *)
GoesOn(i, k) == k \in Steps /\ i \notin cancelled /\ k \notin shape.manual
Ran(i, k) == k \notin Steps /\ i \notin cancelled

Turn(i, k, up, marks, done) ==
  \/ /\ GoesOn(i, k)
     /\ run' = [run EXCEPT ![i] = [at |-> "busy", step |-> k]]
     /\ overlay' = up /\ Records(i, marks, done) /\ UNCHANGED <<cancelled, overtaken, disturbed>>
  \/ /\ ~GoesOn(i, k)
     /\ End(i, IF Ran(i, k) THEN Steps ELSE marks, done)

RunFrame == UNCHANGED <<shape, ackKept, active, mounted, restored, elsewhere>>

(* The engine has been imported: isCancelledRef is reset, also when the user has
   cancelled the run meanwhile. *)
Starts(i) ==
  /\ run[i].at = "start"
  /\ run' = [run EXCEPT ![i].at = "gate"]
  /\ cancelled' = cancelled \ {i}
  /\ UNCHANGED <<shape, section, active, component, multi, elsewhere, overlay, history>>

(* The section's requirements hold, after a fix perhaps, or do not. *)
GateOpens(i) ==
  /\ run[i].at = "gate" /\ RunFrame /\ UNCHANGED multi
  /\ Turn(i, run[i].step, Raised(Of(i, 0)), {}, {})
GateStays(i) ==
  /\ run[i].at = "gate"
  /\ UNCHANGED <<shape, section, active, component, multi, elsewhere, overlay, earned, forged>>
  /\ Idled(i)

(* A multi-step is called, if its component is there, and it is not done, and does not
   execute already: then the run awaits it. *)
StepCalls(i) ==
  LET p == <<i, run[i].step>> IN
  /\ run[i].at = "busy" /\ p[2] \in shape.multi
  /\ i = mounted /\ p[2] \notin kept /\ ~Executing(p)
  /\ run' = [run EXCEPT ![i].at = "inner"] /\ Called(p)
  /\ UNCHANGED <<shape, section, active, component, cancelled, elsewhere, overlay, history>>

(* The step that the run is at ends now: a multi-step takes down the overlay it has
   raised, an up it leaves to the run. *)
StepEnds(i, up) ==
  LET p == <<i, run[i].step>> IN
  \/ run[i].at = "busy" /\ up = overlay /\ UNCHANGED multi
  \/ run[i].at = "inner" /\ multi[p].at \in {"raised", "nested"} /\ up = Left(p) /\ EndsMulti(p)

(* The step's requirements hold, it is shown and done. *)
StepSucceeds(i) ==
  /\ run[i].at = "busy" => run[i].step \notin shape.multi
  /\ RunFrame
  /\ \E up \in {overlay, Down} :
       /\ StepEnds(i, up)
       /\ LET s == run[i].step IN
            IF s < shape.steps
            THEN /\ run' = [run EXCEPT ![i].at = "rest"] /\ overlay' = up
                 /\ Records(i, {s}, {s}) /\ UNCHANGED <<cancelled, overtaken, disturbed>>
            ELSE Turn(i, s + 1, up, {s}, {s})

Rested(i) ==
  /\ run[i].at = "rest" /\ RunFrame /\ UNCHANGED multi
  /\ Turn(i, run[i].step + 1, overlay, {}, {})

(* The requirements of a skippable step do not hold: its component marks it as
   skipped, if it is there and is not a multi-step. *)
StepSkipped(i) ==
  /\ run[i].at = "busy" /\ run[i].step \in shape.skippable
  /\ RunFrame /\ UNCHANGED multi
  /\ LET s == run[i].step
         seen == i = mounted /\ s \notin shape.multi
     IN Turn(i, s + 1, overlay, IF seen THEN {s} ELSE {}, {s})

(* Mutant: what fails returns from the loop, not to what follows it. *)
StepFailsOutright(i) ==
  \E up \in {overlay, Down} :
    StepEnds(i, up) /\ RunFrame /\ Idled(i) /\ overlay' = up /\ Records(i, {}, {})

(* Requirements that do not hold, an error, a cancel while the step is shown, or a
   multi-step that does not run or has failed. *)
StepFails(i) ==
  \E up \in {overlay, Down} : StepEnds(i, up) /\ RunFrame /\ End(i, {}, {})

RunMoves(i) ==
  \/ Starts(i) \/ GateOpens(i) \/ GateStays(i)
  \/ StepCalls(i) \/ StepSucceeds(i) \/ Rested(i) \/ StepSkipped(i) \/ StepFails(i)

-----------------------------------------------------------------------------
Next ==
  \/ \E i \in Instances : Mount(i) \/ Cancel(i) \/ RunMoves(i)
  \/ \E p \in Instances \X Steps : MultiMoves(p)
  \/ ElsewhereStarts \/ ElsewhereEnds
  \/ RenderRestore \/ Unmount \/ PanelCloses \/ LeaveTab \/ ReturnToTab \/ Reload
  \/ \E s \in Steps : CompleteStep(s) \/ ResetStep(s) \/ OwnRun(s)
  \/ ObjectivesMet \/ ResetSection \/ ResetGuide \/ MarkComplete \/ DoSection

Spec == Init /\ [][Next]_vars

(* What runs await ends, here and elsewhere, and React renders. *)
FairSpec ==
  /\ Spec /\ WF_vars(RenderRestore) /\ WF_vars(ElsewhereEnds)
  /\ \A i \in Instances : WF_vars(RunMoves(i))
  /\ \A p \in Instances \X UNION {s.multi : s \in Shapes} :
       WF_vars(p[2] \in Steps /\ MultiMoves(p))

-----------------------------------------------------------------------------
(* No acknowledgement without completion: whatever is reset, restored or run
   meanwhile, a section that is acknowledged, on the page or in storage, has all
   of its steps in the store (the invariant of issue #842 in section-state.ts). *)
AckNeedsCompletion == ackKept \/ acked \/ restored = "true" => Steps \subseteq kept

(* What `section-completed:` requirements read is true: the done bit of a section
   is only ever set when its steps are complete and it has its acknowledgement, and
   it is what a mounted section shows as soon as its mount is rendered. *)
DoneBit ==
  /\ doneKept => Steps \subseteq kept /\ (shape.gated => ackKept \/ shape.objectives)
  /\ mounted # None /\ restored = "none" => (doneKept <=> Completed(kept, ackKept, met))

(* A step is complete only if it has been done, skipped or met since it was last
   reset, whatever runs were cancelled, paused, failed or abandoned; or if a run
   that a reset has overtaken says so. *)
CompletedIsEarned == kept \subseteq earned \cup forged

(* As long as nobody else has used the overlay meanwhile, and the panel has not been
   closed, what acts on the page does so behind its own overlay, whose button cancels
   it, also after its component has gone: a run of the section, and a multi-step that
   its own button has run. *)
CancelReaches ==
  ~disturbed =>
    /\ \A i \in Instances : Acting(i) => overlay = Of(i, 0)
    /\ \A p \in Instances \X Steps :
         multi[p].at \in {"raised", "nested"} /\ ~Awaited(p) => overlay = Of(p[1], p[2])

(* The overlay is up only for a run that acts, however many there are and whoever
   took down what: nobody is kept out of the page by a run that is over, or by one
   that has not got past its section's requirements. *)
OverlayIsOfARun ==
  \/ overlay = Down
  \/ \E i \in Instances : overlay = Of(i, 0) /\ Acting(i)
  \/ \E p \in Instances \X Steps : overlay = Of(p[1], p[2]) /\ multi[p].at = "raised"
  \/ overlay = Of(Elsewhere, 0) /\ elsewhere = "raised"

(* Whatever the user and the runs do, the page is given back. *)
OverlayEnds == (overlay # Down) ~> (overlay = Down)
=============================================================================
