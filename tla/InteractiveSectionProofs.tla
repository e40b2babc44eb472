------------------------ MODULE InteractiveSectionProofs ------------------------
(***************************************************************************)
(* Proofs about InteractiveSection, for any shape of a section and any     *)
(* number of instances of its component.  The invariant has three parts    *)
(* that are proved one after the other: what the page and storage show,    *)
(* the runs with the overlay, and what the runs may say is complete.       *)
(***************************************************************************)
EXTENDS InteractiveSection, TLAPS

USE NoneAssumption DEF MultiPhases

PageOK ==
  /\ shape \in Shapes
  /\ kept \subseteq Steps /\ ackKept \in BOOLEAN /\ doneKept \in BOOLEAN
  /\ active \in BOOLEAN
  /\ mounted \in Instances \cup {None} /\ (mounted # None => active)
  /\ acked \in BOOLEAN /\ restored \in {"none", "null", "true"}
  /\ met \in BOOLEAN /\ shown \in BOOLEAN

(* Without an instance there is nothing on the page; with one, it shows what the *)
(* section is, and says so in storage.  Only what is being restored is not yet   *)
(* what storage has.                                                             *)
PageShows ==
  /\ mounted = None => ~acked /\ restored = "none" /\ ~met /\ ~shown
  /\ mounted # None => (shown <=> Completed(kept, acked, met)) /\ (doneKept <=> shown)
  /\ met => shape.objectives /\ Steps \subseteq kept
  /\ restored # "none" => ~acked /\ (restored = "true" <=> ackKept)
  /\ mounted # None /\ restored = "none" => (acked <=> ackKept)

PageInv == PageOK /\ PageShows /\ AckNeedsCompletion /\ DoneBit

Pairs == Instances \X Steps

RunsOK ==
  /\ run \in [Instances -> [at : Phases, step : 0..shape.steps]]
  /\ \A i \in Instances : Running(i) => run[i].step \in Steps
  /\ cancelled \subseteq Instances
  /\ multi \in [Instances \X Steps -> [at : MultiPhases, owes : BOOLEAN]]
  /\ elsewhere \in {"idle", "raised", "unseen"}
  /\ overlay \in [by : Instances \cup {Elsewhere, None}, step : 0..shape.steps]
  /\ overtaken \subseteq Instances /\ disturbed \in BOOLEAN

(* Unless disturbed, one user of the overlay is under way, with the multi-step that  *)
(* it awaits; and a multi-step that has raised the overlay has it.                   *)
Alone ==
  ~disturbed =>
    /\ \A i, j \in Instances : Running(i) /\ Running(j) => i = j
    /\ \A p, q \in Pairs : Executing(p) /\ Executing(q) => p = q
    /\ \A i \in Instances, p \in Pairs : Running(i) /\ Executing(p) => Awaited(p)
    /\ elsewhere # "idle" => (\A i \in Instances : ~Running(i)) /\ (\A p \in Pairs : ~Executing(p))
    /\ \A p \in Pairs : multi[p].at = "raised" => overlay = Of(p[1], p[2])

(* The overlay is that of somebody who acts, and who is alone unless disturbed. *)
RunsInv == RunsOK /\ CancelReaches /\ OverlayIsOfARun /\ Alone

HistoryOK == earned \subseteq Steps /\ forged \subseteq Steps

(* A run that no reset has overtaken has what lies behind it, and objectives that *)
(* are met are all of it.                                                         *)
HistoryInv ==
  /\ HistoryOK /\ CompletedIsEarned
  /\ met => earned = Steps
  /\ \A i \in Instances : Running(i) /\ i \notin overtaken =>
       /\ 1..(run[i].step - 1) \subseteq earned \cup forged
       /\ run[i].at = "rest" => run[i].step \in earned

Inv == PageInv /\ RunsInv /\ HistoryInv

LEMMA TypeParts == TypeOK <=> PageOK /\ RunsOK /\ HistoryOK
BY DEF TypeOK, PageOK, RunsOK, HistoryOK

-----------------------------------------------------------------------------
(* The page. *)

(* Only a section with passive content can be without steps. *)
LEMMA NoSteps == ASSUME shape \in Shapes PROVE Steps = {} => shape.gated
<1>1. shape.steps \in Nat /\ (shape.steps = 0 => shape.gated)  BY ShapesAssumption
<1>2. shape.steps # 0 => 1 \in Steps  BY <1>1 DEF Steps
<1> QED  BY <1>1, <1>2

(* An instance renders: what it shows, and says, is what the section then is. *)
LEMMA RenderedPage ==
  ASSUME PageInv, mounted # None, UNCHANGED <<shape, active, mounted>>,
         NEW k \in SUBSET Steps, NEW a \in BOOLEAN, NEW m \in BOOLEAN,
         Rendered(k, a, m), m => shape.objectives,
         ackKept' \in BOOLEAN, restored' \in {"none", "null", "true"},
         ackKept' \/ a \/ restored' = "true" => Steps \subseteq k \/ m,
         restored' # "none" => ~a /\ (restored' = "true" <=> ackKept'),
         restored' = "none" => (a <=> ackKept')
  PROVE  PageInv'
<1> DEFINE all == IF m THEN Steps ELSE k
           now == Completed(all, a, m)
<1>1. /\ kept' = all /\ acked' = a /\ met' = m /\ shown' = now
      /\ doneKept' = IF now # shown THEN now ELSE doneKept
  BY DEF Rendered
<1>2. now \in BOOLEAN  BY DEF Completed
<1>3. shown \in BOOLEAN /\ doneKept \in BOOLEAN /\ (doneKept <=> shown)  BY DEF PageInv, PageOK, PageShows
<1>4. doneKept' \in BOOLEAN /\ (doneKept' <=> now)  BY <1>1, <1>2, <1>3
<1>5. all \subseteq Steps /\ (m => all = Steps) /\ (~m => all = k)  OBVIOUS
<1>6. Steps' = Steps  BY DEF Steps
<1>7. PageOK'  BY <1>1, <1>2, <1>4, <1>5, <1>6 DEF PageInv, PageOK
<1>8. Completed(kept, acked, met)' <=> now  BY <1>1, <1>6 DEF Completed
<1>9. AckNeedsCompletion'  BY <1>1, <1>5, <1>6 DEF AckNeedsCompletion
<1>10. PageShows'  BY <1>1, <1>4, <1>5, <1>6, <1>8 DEF PageShows
<1>11. now => Steps \subseteq all /\ (shape.gated => a \/ shape.objectives)  BY <1>5 DEF Completed
<1>12. a => ackKept'  OBVIOUS
<1>13. restored' = "none" => (Completed(kept, ackKept, met)' <=> now)  BY <1>1, <1>6 DEF Completed
<1>14. DoneBit'  BY <1>1, <1>4, <1>6, <1>11, <1>12, <1>13 DEF DoneBit
<1> QED  BY <1>7, <1>9, <1>10, <1>14 DEF PageInv

(* The store takes marks, of a mounted section or of one that is not. *)
LEMMA MarkedPage ==
  ASSUME PageInv, NEW marks \in SUBSET Steps, Marked(marks),
         UNCHANGED <<shape, ackKept, active, mounted, restored>>
  PROVE  PageInv' /\ UNCHANGED met
<1> DEFINE k == IF active THEN kept \cup marks ELSE kept
<1>1. Stored(k)  BY DEF Marked
<1>2. k \in SUBSET Steps /\ kept \subseteq k  BY DEF PageInv, PageOK
<1> HIDE DEF k
<1>3. CASE mounted = None
  <2>1. kept' = k /\ UNCHANGED <<acked, met, shown, doneKept>>  BY <1>1, <1>3 DEF Stored
  <2>2. Steps' = Steps  BY DEF Steps
  <2>3. PageOK'  BY <1>2, <2>1, <2>2 DEF PageInv, PageOK
  <2>4. PageShows'  BY <1>2, <1>3, <2>1, <2>2 DEF PageInv, PageShows
  <2>5. AckNeedsCompletion'  BY <1>2, <2>1, <2>2 DEF PageInv, AckNeedsCompletion
  <2>6. DoneBit'  BY <1>2, <1>3, <2>1, <2>2 DEF PageInv, DoneBit
  <2> QED  BY <2>1, <2>3, <2>4, <2>5, <2>6 DEF PageInv
<1>4. CASE mounted # None
  <2>1. Rendered(k, acked, met)  BY <1>1, <1>4 DEF Stored
  <2>2. acked \in BOOLEAN /\ met \in BOOLEAN /\ ackKept \in BOOLEAN /\ restored \in {"none", "null", "true"}
    BY DEF PageInv, PageOK
  <2>3. /\ met => shape.objectives
        /\ ackKept \/ acked \/ restored = "true" => Steps \subseteq k
        /\ restored # "none" => ~acked /\ (restored = "true" <=> ackKept)
        /\ restored = "none" => (acked <=> ackKept)
    BY <1>2, <1>4 DEF PageInv, PageShows, AckNeedsCompletion
  <2>4. PageInv'  BY <1>2, <1>4, <2>1, <2>2, <2>3, RenderedPage
  <2> QED  BY <2>1, <2>4 DEF Rendered
<1> QED  BY <1>3, <1>4

(* A run marks steps of the section, or nothing. *)
LEMMA RunMarks ==
  ASSUME PageInv, RunsInv, NEW i \in Instances, RunMoves(i)
  PROVE  /\ UNCHANGED <<shape, ackKept, active, mounted, restored>>
         /\ \/ UNCHANGED <<kept, doneKept, acked, met, shown>>
            \/ \E marks \in SUBSET Steps : Marked(marks)
<1> USE DEF RunFrame, section, component
<1>1. ASSUME NEW k, NEW up, NEW marks \in SUBSET Steps, NEW done, Turn(i, k, up, marks, done)
      PROVE  \E ms \in SUBSET Steps : Marked(ms)
  <2>1. \E ms \in {marks, Steps} : Records(i, ms, done)  BY <1>1 DEF Turn, End
  <2> QED  BY <2>1 DEF Records
<1>2. CASE Starts(i)  BY <1>2 DEF Starts
<1>3. CASE GateOpens(i)  BY <1>1, <1>3 DEF GateOpens
<1>4. CASE GateStays(i) \/ StepCalls(i)  BY <1>4 DEF GateStays, StepCalls
<1>5. run[i].at \in {"busy", "inner"} => run[i].step \in Steps  BY DEF RunsInv, RunsOK, Running
<1>6. CASE StepSucceeds(i)
  <2>1. RunFrame /\ run[i].step \in Steps  BY <1>5, <1>6 DEF StepSucceeds, StepEnds
  <2>2. PICK up : IF run[i].step < shape.steps THEN Records(i, {run[i].step}, {run[i].step})
                  ELSE Turn(i, run[i].step + 1, up, {run[i].step}, {run[i].step})
    BY <1>6 DEF StepSucceeds
  <2>3. {run[i].step} \in SUBSET Steps  BY <2>1
  <2> QED  BY <1>1, <2>1, <2>2, <2>3 DEF Records
<1>7. CASE Rested(i)  BY <1>1, <1>7 DEF Rested
<1>8. CASE StepSkipped(i)
  <2> DEFINE marks == IF i = mounted /\ run[i].step \notin shape.multi THEN {run[i].step} ELSE {}
  <2>1. marks \in SUBSET Steps  BY <1>5, <1>8 DEF StepSkipped
  <2>2. Turn(i, run[i].step + 1, overlay, marks, {run[i].step})  BY <1>8 DEF StepSkipped
  <2>3. \E ms \in SUBSET Steps : Marked(ms)  BY <1>1, <2>1, <2>2
  <2> QED  BY <1>8, <2>3 DEF StepSkipped
<1>9. CASE StepFails(i)  BY <1>9 DEF StepFails, End, Records
<1> QED  BY <1>2, <1>3, <1>4, <1>6, <1>7, <1>8, <1>9 DEF RunMoves

LEMMA PageStep == ASSUME Inv, [Next]_vars PROVE PageInv'
<1> USE DEF Inv, PageInv, runs, history, section, component
<1>0. PageInv /\ RunsInv  OBVIOUS
<1>1. ASSUME NEW i \in Instances, Mount(i) PROVE PageInv'
  <2>1. Steps' = Steps  BY <1>1 DEF Mount, Steps
  <2>2. RestoredAck \in BOOLEAN /\ (RestoredAck => Steps \subseteq kept)
    BY DEF RestoredAck, Finished, PageOK, AckNeedsCompletion
  <2>3. Completed(kept, FALSE, FALSE) \in BOOLEAN  BY DEF Completed
  <2>4. Completed(kept, acked, met)' <=> Completed(kept, FALSE, FALSE)  BY <1>1, <2>1 DEF Mount, Completed
  <2>5. PageOK'  BY <1>1, <2>1, <2>2, <2>3 DEF Mount, PageOK
  <2>6. PageShows'  BY <1>1, <2>2, <2>3, <2>4 DEF Mount, PageShows
  <2>7. AckNeedsCompletion'  BY <1>1, <2>1, <2>2 DEF Mount, AckNeedsCompletion
  <2>8. DoneBit'  BY <1>1, <2>1, <2>2 DEF Mount, DoneBit, Completed
  <2> QED  BY <2>5, <2>6, <2>7, <2>8
<1>2. CASE RenderRestore
  <2>1. mounted # None  BY <1>2 DEF RenderRestore, PageShows
  <2>2. kept \in SUBSET Steps /\ (restored = "true") \in BOOLEAN /\ met \in BOOLEAN /\ ackKept \in BOOLEAN
    BY DEF PageOK
  <2>3. met => shape.objectives  BY DEF PageShows
  <2>4. ackKept \/ restored = "true" => Steps \subseteq kept  BY DEF AckNeedsCompletion
  <2>5. (restored = "true") <=> ackKept  BY <1>2, <2>1 DEF RenderRestore, PageShows
  <2> QED  BY <1>2, <2>1, <2>2, <2>3, <2>4, <2>5, RenderedPage DEF RenderRestore
<1>3. ASSUME Gone, UNCHANGED <<shape, kept, ackKept, doneKept>>, active' \in BOOLEAN PROVE PageInv'
  <2>1. Steps' = Steps  BY <1>3 DEF Steps
  <2>2. PageOK'  BY <1>3, <2>1 DEF Gone, PageOK
  <2>3. PageShows'  BY <1>3 DEF Gone, PageShows
  <2>4. AckNeedsCompletion'  BY <1>3, <2>1 DEF Gone, AckNeedsCompletion
  <2>5. DoneBit'  BY <1>3, <2>1 DEF Gone, DoneBit
  <2> QED  BY <2>2, <2>3, <2>4, <2>5
<1>4. CASE Unmount \/ PanelCloses  BY <1>3, <1>4 DEF Unmount, PanelCloses, PageOK
<1>5. CASE LeaveTab  BY <1>3, <1>5 DEF LeaveTab
<1>6. CASE Reload  BY <1>3, <1>6 DEF Reload, PageOK
<1>7. ASSUME UNCHANGED <<shape, section, component>>, active' \in BOOLEAN, active => active' PROVE PageInv'
  <2>1. Steps' = Steps /\ (Completed(kept, acked, met)' <=> Completed(kept, acked, met))
        /\ (Completed(kept, ackKept, met)' <=> Completed(kept, ackKept, met))
    BY <1>7 DEF Steps, Completed
  <2> QED  BY <1>7, <2>1 DEF PageOK, PageShows, AckNeedsCompletion, DoneBit
<1>8. CASE ReturnToTab  BY <1>7, <1>8 DEF ReturnToTab
<1>9. ASSUME NEW s \in Steps, CompleteStep(s) PROVE PageInv'
  BY <1>9, {s} \in SUBSET Steps, MarkedPage DEF CompleteStep
<1>10. CASE ObjectivesMet
  BY <1>0, <1>10, RenderedPage DEF ObjectivesMet, PageOK, PageShows
<1>11. ASSUME NEW s \in Steps, ResetStep(s) PROVE PageInv'
  <2>1. kept \ (s..shape.steps) \in SUBSET Steps /\ met \in BOOLEAN /\ (met => shape.objectives)
    BY DEF PageOK, PageShows
  <2> QED  BY <1>0, <1>11, <2>1, RenderedPage DEF ResetStep, AckCleared
<1>12. CASE ResetSection
  <2>1. Steps' = Steps /\ ~met /\ mounted # None  BY <1>12 DEF ResetSection, Steps
  <2>2. ~Completed({}, FALSE, FALSE)  BY NoSteps DEF Completed, PageOK
  <2>3. ~Completed(kept, acked, met)'  BY <1>12, <2>1, <2>2 DEF ResetSection, Completed, PageOK
  <2>4. ~Completed(kept, ackKept, met)'  BY <1>12, <2>1, <2>2 DEF ResetSection, AckCleared, Completed, PageOK
  <2>5. PageOK'  BY <1>12, <2>1 DEF ResetSection, AckCleared, PageOK
  <2>6. PageShows'  BY <1>12, <2>1, <2>3 DEF ResetSection, AckCleared, PageShows
  <2>7. AckNeedsCompletion'  BY <1>12 DEF ResetSection, AckCleared, AckNeedsCompletion
  <2>8. DoneBit'  BY <1>12, <2>4 DEF ResetSection, AckCleared, DoneBit
  <2> QED  BY <2>5, <2>6, <2>7, <2>8
<1>13. CASE ResetGuide
  <2>1. Steps' = Steps  BY <1>13 DEF ResetGuide, Steps
  <2> QED  BY <1>13, <2>1 DEF ResetGuide, Gone, PageOK, PageShows, AckNeedsCompletion, DoneBit
<1>14. CASE MarkComplete
  <2>1. kept \in SUBSET Steps /\ met \in BOOLEAN /\ (met => shape.objectives) /\ Steps \subseteq kept
    BY <1>14 DEF PageOK, PageShows, MarkComplete, AwaitsAck
  <2> QED  BY <1>0, <1>14, <2>1, RenderedPage DEF MarkComplete
<1>15. CASE DoSection  BY <1>7, <1>15 DEF DoSection, PageOK
<1>16. ASSUME NEW i \in Instances, Cancel(i) PROVE PageInv'  BY <1>7, <1>16 DEF Cancel, PageOK
<1>17. ASSUME NEW i \in Instances, RunMoves(i) PROVE PageInv'
  <2>1. CASE UNCHANGED <<kept, doneKept, acked, met, shown>>
    BY <1>0, <1>7, <1>17, <2>1, RunMarks DEF PageOK
  <2>2. ASSUME NEW marks \in SUBSET Steps, Marked(marks) PROVE PageInv'
    BY <1>0, <1>17, <2>2, RunMarks, MarkedPage
  <2> QED  BY <1>0, <1>17, <2>1, <2>2, RunMarks
<1>18. CASE UNCHANGED vars  BY <1>7, <1>18 DEF vars, PageOK
<1>19. CASE ElsewhereStarts \/ ElsewhereEnds
  BY <1>7, <1>19 DEF ElsewhereStarts, ElsewhereEnds, ElsewhereFrame, PageOK
<1>20. ASSUME NEW s \in Steps, OwnRun(s) PROVE PageInv'  BY <1>7, <1>20 DEF OwnRun, PageOK
<1>21. ASSUME NEW p \in Instances \X Steps, MultiMoves(p) PROVE PageInv'
  <2>1. CASE UNCHANGED <<shape, section, active, component>>  BY <1>7, <2>1 DEF PageOK
  <2>2. ASSUME Says(p) PROVE PageInv'
    <3>1. PICK marks \in SUBSET Steps : Marked(marks)  BY <2>2 DEF Says
    <3> QED  BY <1>0, <2>2, <3>1, MarkedPage DEF Says
  <2> QED  BY <1>21, <2>1, <2>2 DEF MultiMoves, MultiCompletesEarly, MultiActs, MultiEnds
<1> QED
  BY <1>1, <1>2, <1>4, <1>5, <1>6, <1>8, <1>9, <1>10, <1>11, <1>12, <1>13, <1>14, <1>15, <1>16, <1>17,
     <1>18, <1>19, <1>20, <1>21 DEF Next

-----------------------------------------------------------------------------
(* The runs and the overlay. *)

(* Nobody is under way, or users have met: nothing is said of whose the overlay is, *)
(* but that it is that of somebody who acts.                                       *)
LEMMA QuietRuns ==
  ASSUME RunsOK', OverlayIsOfARun', Quiet' \/ disturbed'
  PROVE  RunsInv'
<1>1. CASE disturbed'  BY <1>1 DEF RunsInv, CancelReaches, Alone
<1>2. CASE Quiet'
  <2>1. (\A i \in Instances : ~Running(i) /\ ~Acting(i))'  BY <1>2 DEF Quiet, Running, Acting
  <2>2. (\A p \in Pairs : ~Executing(p) /\ multi[p].at \notin {"raised", "nested"})'
    BY <1>2 DEF Quiet, Executing, Pairs
  <2>3. (elsewhere = "idle")'  BY <1>2 DEF Quiet
  <2>4. CancelReaches'  BY <2>1, <2>2 DEF CancelReaches, Pairs
  <2>5. Alone'  BY <2>1, <2>2, <2>3 DEF Alone
  <2> QED  BY <2>4, <2>5 DEF RunsInv
<1> QED  BY <1>1, <1>2

(* A run that is undisturbed is alone, but for the multi-step that it awaits. *)
LEMMA AloneRun ==
  ASSUME RunsInv, ~disturbed, NEW i \in Instances, Running(i)
  PROVE  /\ \A j \in Instances : Running(j) => j = i
         /\ elsewhere = "idle"
         /\ \A p \in Pairs : Executing(p) => run[i].at = "inner" /\ p = <<i, run[i].step>>
         /\ \A p \in Pairs : Executing(p) /\ Acting(i) => multi[p].at # "raised"
         /\ ~Acting(i) => overlay = Down
<1>1. (\A j \in Instances : Running(j) => j = i) /\ elsewhere = "idle"  BY DEF RunsInv, Alone
<1>2. ASSUME NEW p \in Pairs, Executing(p) PROVE run[i].at = "inner" /\ p = <<i, run[i].step>>
  <2>1. Awaited(p) /\ p[1] \in Instances /\ p = <<p[1], p[2]>>  BY <1>2 DEF RunsInv, Alone, Pairs
  <2>2. Running(p[1])  BY <2>1 DEF Awaited, Running
  <2> QED  BY <1>1, <2>1, <2>2 DEF Awaited
<1>3. ASSUME NEW p \in Pairs, Executing(p), Acting(i), multi[p].at = "raised" PROVE FALSE
  <2>1. overlay = Of(p[1], p[2]) /\ overlay = Of(i, 0)  BY <1>3 DEF RunsInv, Alone, CancelReaches
  <2>2. p[2] \in Nat \ {0}  BY DEF Pairs, Steps
  <2> QED  BY <2>1, <2>2 DEF Of
<1>4. ~Acting(i) => overlay = Down
  <2> SUFFICES ASSUME ~Acting(i), overlay # Down PROVE FALSE
    OBVIOUS
  <2>1. ASSUME NEW j \in Instances, Acting(j) PROVE FALSE  BY <1>1, <2>1 DEF Acting, Running
  <2>2. ASSUME NEW p \in Pairs, multi[p].at = "raised" PROVE FALSE
    BY <1>2, <2>2 DEF Executing, Acting
  <2> QED  BY <1>1, <2>1, <2>2 DEF RunsInv, OverlayIsOfARun, Pairs
<1> QED  BY <1>1, <1>2, <1>3, <1>4

(* Everything that matters to the overlay stays as it is. *)
LEMMA SameRuns ==
  ASSUME RunsInv, UNCHANGED <<shape, run, multi, elsewhere, overlay, disturbed>>,
         cancelled' \subseteq Instances, overtaken' \subseteq Instances
  PROVE  RunsInv'
<1>1. Steps' = Steps /\ Pairs' = Pairs  BY DEF Steps, Pairs
<1>2. /\ \A i : (Running(i)' <=> Running(i)) /\ (Acting(i)' <=> Acting(i))
      /\ \A p : (Executing(p)' <=> Executing(p)) /\ (Awaited(p)' <=> Awaited(p))
  BY DEF Running, Acting, Executing, Awaited
<1>3. RunsOK'  BY <1>1, <1>2 DEF RunsInv, RunsOK
<1>4. CancelReaches'  BY <1>1, <1>2 DEF RunsInv, CancelReaches
<1>5. OverlayIsOfARun'  BY <1>1, <1>2 DEF RunsInv, OverlayIsOfARun
<1>6. Alone'  BY <1>1, <1>2 DEF RunsInv, Alone
<1> QED  BY <1>3, <1>4, <1>5, <1>6 DEF RunsInv

(* Run i is at another point, or over.  What the others are, and whose the overlay is. *)
LEMMA RunTo ==
  ASSUME shape \in Shapes, RunsOK, UNCHANGED shape, NEW i \in Instances,
         NEW r \in [at : Phases, step : 0..shape.steps], r.at # "idle" => r.step \in Steps,
         run' = [run EXCEPT ![i] = r]
  PROVE  /\ Steps' = Steps /\ Pairs' = Pairs
         /\ run'[i] = r /\ run' \in [Instances -> [at : Phases, step : 0..shape.steps]]
         /\ \A j \in Instances : Running(j)' => run'[j].step \in Steps
         /\ \A j \in Instances \ {i} :
              run'[j] = run[j] /\ (Running(j)' <=> Running(j)) /\ (Acting(j)' <=> Acting(j))
         /\ (Running(i)' <=> r.at # "idle") /\ (Acting(i)' <=> r.at \in {"busy", "inner", "rest"})
<1>1. Steps' = Steps /\ Pairs' = Pairs  BY DEF Steps, Pairs
<1>2. run'[i] = r /\ \A j \in Instances \ {i} : run'[j] = run[j]  BY DEF RunsOK
<1>3. run' \in [Instances -> [at : Phases, step : 0..shape.steps]]  BY DEF RunsOK
<1>4. /\ \A j \in Instances \ {i} : (Running(j)' <=> Running(j)) /\ (Acting(j)' <=> Acting(j))
      /\ (Running(i)' <=> r.at # "idle") /\ (Acting(i)' <=> r.at \in {"busy", "inner", "rest"})
  BY <1>2 DEF Running, Acting
<1>5. \A j \in Instances : Running(j)' => run'[j].step \in Steps  BY <1>2, <1>4 DEF RunsOK
<1> QED  BY <1>1, <1>2, <1>3, <1>4, <1>5

(* Multi-step p is at another point, or over. *)
LEMMA MultiTo ==
  ASSUME RunsOK, UNCHANGED shape, NEW p \in Pairs,
         NEW m \in [at : MultiPhases, owes : BOOLEAN],
         multi' = [multi EXCEPT ![p] = m]
  PROVE  /\ Steps' = Steps /\ Pairs' = Pairs /\ multi'[p] = m
         /\ multi' \in [Instances \X Steps -> [at : MultiPhases, owes : BOOLEAN]]
         /\ \A q \in Pairs \ {p} : multi'[q] = multi[q] /\ (Executing(q)' <=> Executing(q))
         /\ Executing(p)' <=> m.at # "idle"
<1>1. Steps' = Steps /\ Pairs' = Pairs  BY DEF Steps, Pairs
<1>2. multi'[p] = m /\ \A q \in Pairs \ {p} : multi'[q] = multi[q]  BY DEF RunsOK, Pairs
<1>3. multi' \in [Instances \X Steps -> [at : MultiPhases, owes : BOOLEAN]]
  BY DEF RunsOK, Pairs
<1>4. (\A q \in Pairs \ {p} : Executing(q)' <=> Executing(q)) /\ (Executing(p)' <=> m.at # "idle")
  BY <1>2 DEF Executing
<1> QED  BY <1>1, <1>2, <1>3, <1>4

LEMMA PairOf ==
  ASSUME RunsOK, NEW i \in Instances, Running(i)
  PROVE  <<i, run[i].step>> \in Pairs /\ run[i].step \in Steps /\ run[i].step \in 0..shape.steps
BY DEF RunsOK, Pairs

(* The overlay stays somebody's who acts when a step is done: its own of a multi-step goes. *)
LEMMA EndedStep ==
  ASSUME RunsInv, UNCHANGED shape, NEW i \in Instances, Running(i), NEW up, StepEnds(i, up)
  PROVE  /\ Acting(i)
         /\ multi' \in [Instances \X Steps -> [at : MultiPhases, owes : BOOLEAN]]
         /\ up = overlay \/ up = Down
         /\ ~disturbed => up = overlay
         /\ up # Down => \A q \in Pairs : multi[q].at = "raised" => multi'[q] = multi[q]
         /\ ~disturbed => \A q \in Pairs : ~Executing(q)'
<1>1. PICK p \in Pairs : p = <<i, run[i].step>>  BY PairOf DEF RunsInv
<1>2. Acting(i)  BY DEF StepEnds, Acting
<1>3. CASE run[i].at = "busy" /\ up = overlay /\ UNCHANGED multi
  <2>1. ~disturbed => \A q \in Pairs : ~Executing(q)  BY <1>3, AloneRun
  <2>2. \A q : Executing(q)' <=> Executing(q)  BY <1>3 DEF Executing
  <2>3. /\ multi' \in [Instances \X Steps -> [at : MultiPhases, owes : BOOLEAN]]
        /\ \A q \in Pairs : multi'[q] = multi[q]
    BY <1>3 DEF RunsInv, RunsOK
  <2> QED  BY <1>2, <1>3, <2>1, <2>2, <2>3
<1>4. CASE run[i].at = "inner" /\ multi[p].at \in {"raised", "nested"} /\ up = Left(p) /\ EndsMulti(p)
  <2>1. Unrun \in [at : MultiPhases, owes : BOOLEAN]
        /\ Unrun.at = "idle"
    BY DEF Unrun
  <2>2. /\ Steps' = Steps /\ Pairs' = Pairs
        /\ multi' \in [Instances \X Steps -> [at : MultiPhases, owes : BOOLEAN]]
        /\ \A q \in Pairs \ {p} : multi'[q] = multi[q] /\ (Executing(q)' <=> Executing(q))
        /\ ~Executing(p)'
    <3>1. multi' = [multi EXCEPT ![p] = Unrun] /\ RunsOK  BY <1>4 DEF EndsMulti, RunsInv
    <3> QED  BY <1>1, <2>1, <3>1, MultiTo
  <2>3. up = overlay \/ up = Down  BY <1>4 DEF Left
  <2>4. ~disturbed => up = overlay
    <3>1. ~disturbed => multi[p].at # "raised"  BY <1>1, <1>2, <1>4, AloneRun DEF Executing
    <3> QED  BY <1>4, <3>1 DEF Left
  <2>5. up # Down => multi[p].at # "raised"  BY <1>4 DEF Left
  <2>6. ~disturbed => \A q \in Pairs : Executing(q) => q = p  BY <1>1, AloneRun
  <2>7. ~disturbed => \A q \in Pairs : ~Executing(q)'  BY <2>2, <2>6
  <2>8. up # Down => \A q \in Pairs : multi[q].at = "raised" => multi'[q] = multi[q]  BY <2>2, <2>5
  <2> QED  BY <1>2, <2>2, <2>3, <2>4, <2>7, <2>8
<1> QED  BY <1>1, <1>3, <1>4 DEF StepEnds

(* Run i moves on: the overlay becomes its own when it begins to act, and remains what *)
(* it is after that, unless others have disturbed it.                                 *)
LEMMA RunGoesOn ==
  ASSUME shape \in Shapes, RunsInv, NEW i \in Instances, Running(i),
         UNCHANGED <<shape, elsewhere, disturbed>>,
         cancelled' \subseteq Instances, overtaken' \subseteq Instances,
         NEW at \in {"gate", "busy", "inner", "rest"}, NEW k \in Steps,
         run' = [run EXCEPT ![i] = [at |-> at, step |-> k]],
         multi' \in [Instances \X Steps -> [at : MultiPhases, owes : BOOLEAN]],
         overlay' # Down => \A q \in Pairs : multi[q].at = "raised" => multi'[q] = multi[q],
         ~disturbed => \A q \in Pairs : Executing(q)' => /\ at = "inner" /\ q = <<i, k>>
                                                         /\ multi'[q].at # "raised",
         \/ Acting(i) /\ at # "gate" /\ overlay' \in {overlay, Down} /\ (~disturbed => overlay' = overlay)
         \/ ~Acting(i) /\ at # "gate" /\ overlay' = Raised(Of(i, 0)) /\ multi' = multi
         \/ ~Acting(i) /\ at = "gate" /\ overlay' = overlay
  PROVE  RunsInv'
<1> DEFINE r == [at |-> at, step |-> k]
<1>1. shape.steps \in Nat  BY ShapesAssumption
<1>2. r \in [at : Phases, step : 0..shape.steps] /\ r.at # "idle" /\ r.step \in Steps /\ r.at = at
  BY <1>1 DEF Phases, Steps
<1>3. run' = [run EXCEPT ![i] = r]  OBVIOUS
<1> HIDE DEF r
<1>4. /\ Steps' = Steps /\ Pairs' = Pairs
      /\ run'[i] = r /\ run' \in [Instances -> [at : Phases, step : 0..shape.steps]]
      /\ \A j \in Instances : Running(j)' => run'[j].step \in Steps
      /\ \A j \in Instances \ {i} :
           run'[j] = run[j] /\ (Running(j)' <=> Running(j)) /\ (Acting(j)' <=> Acting(j))
      /\ Running(i)' /\ (Acting(i)' <=> at # "gate")
  BY <1>2, <1>3, RunTo DEF RunsInv
<1>5. Of(i, 0) \in [by : Instances \cup {Elsewhere, None}, step : 0..shape.steps]
      /\ Down \in [by : Instances \cup {Elsewhere, None}, step : 0..shape.steps]
  BY <1>1 DEF Down, Of
<1>6. overlay' \in [by : Instances \cup {Elsewhere, None}, step : 0..shape.steps]
  BY <1>5 DEF RunsInv, RunsOK, Raised
<1>7. RunsOK'  BY <1>4, <1>6 DEF RunsInv, RunsOK
<1>8. ~disturbed => overlay' = (IF at = "gate" THEN overlay ELSE Of(i, 0))
  <2>1. ~disturbed /\ Acting(i) => overlay = Of(i, 0)  BY DEF RunsInv, CancelReaches
  <2>2. ~disturbed /\ ~Acting(i) => overlay = Down  BY AloneRun
  <2> QED  BY <2>1, <2>2 DEF Raised
<1>9. ~disturbed => (\A j \in Instances : Running(j)' => j = i) /\ elsewhere = "idle"
  BY <1>4, AloneRun
<1>10. ASSUME NEW q \in Pairs, ~disturbed, Executing(q)' PROVE Awaited(q)'
  <2>1. at = "inner" /\ q = <<i, k>>  BY <1>10
  <2> QED  BY <1>4, <2>1 DEF Awaited, r
<1>11. CancelReaches'
  <2>1. ASSUME ~disturbed, NEW j \in Instances, Acting(j)' PROVE overlay' = Of(j, 0)
    <3>1. Running(j)'  BY <2>1 DEF Acting, Running
    <3> QED  BY <1>4, <1>8, <1>9, <2>1, <3>1
  <2>2. ASSUME ~disturbed, NEW q \in Pairs, multi'[q].at \in {"raised", "nested"} PROVE Awaited(q)'
    BY <1>10, <2>2 DEF Executing
  <2> QED  BY <1>4, <2>1, <2>2 DEF CancelReaches, Pairs, Of
<1>12. Alone'
  <2>1. ~disturbed => \A p, q \in Pairs : Executing(p)' /\ Executing(q)' => p = q  OBVIOUS
  <2>2. ~disturbed => \A q \in Pairs : multi'[q].at # "raised"  BY DEF Executing
  <2> QED  BY <1>4, <1>9, <1>10, <2>1, <2>2 DEF Alone
<1>13. OverlayIsOfARun'
  <2>1. CASE overlay' = Down  BY <2>1 DEF OverlayIsOfARun, Down, Of
  <2>2. CASE overlay' = Of(i, 0) /\ at # "gate"  BY <1>4, <2>2 DEF OverlayIsOfARun, Of
  <2>3. CASE overlay' = overlay /\ overlay # Down
    <3>1. ASSUME NEW j \in Instances, overlay = Of(j, 0), Acting(j) PROVE OverlayIsOfARun'
      <4>1. Acting(j)'  BY <1>4, <3>1
      <4> QED  BY <2>3, <3>1, <4>1 DEF OverlayIsOfARun, Of
    <3>2. ASSUME NEW q \in Pairs, overlay = Of(q[1], q[2]), multi[q].at = "raised" PROVE OverlayIsOfARun'
      <4>1. multi'[q].at = "raised"  BY <2>3, <3>2
      <4> QED  BY <1>4, <2>3, <3>2, <4>1 DEF OverlayIsOfARun, Of, Pairs
    <3>3. CASE overlay = Of(Elsewhere, 0) /\ elsewhere = "raised"  BY <2>3, <3>3 DEF OverlayIsOfARun, Of
    <3> QED  BY <2>3, <3>1, <3>2, <3>3 DEF RunsInv, OverlayIsOfARun, Pairs
  <2> QED  BY <2>1, <2>2, <2>3 DEF Raised
<1> QED  BY <1>7, <1>11, <1>12, <1>13 DEF RunsInv

(* Run i ends: the overlay goes, or was not its own.  If it was alone, all is quiet. *)
LEMMA RunEnds ==
  ASSUME shape \in Shapes, RunsInv, NEW i \in Instances, Running(i), Idled(i),
         UNCHANGED <<shape, elsewhere>>,
         multi' \in [Instances \X Steps -> [at : MultiPhases, owes : BOOLEAN]],
         ~disturbed => \A q \in Pairs : ~Executing(q)',
         overlay' = Down \/ (overlay' = overlay /\ ~Acting(i) /\ multi' = multi)
  PROVE  RunsInv'
<1>1. shape.steps \in Nat  BY ShapesAssumption
<1>2. Idle \in [at : Phases, step : 0..shape.steps] /\ Idle.at = "idle"  BY <1>1 DEF Idle, Phases
<1>3. /\ Steps' = Steps /\ Pairs' = Pairs
      /\ run' \in [Instances -> [at : Phases, step : 0..shape.steps]]
      /\ \A j \in Instances : Running(j)' => run'[j].step \in Steps
      /\ \A j \in Instances \ {i} : (Running(j)' <=> Running(j)) /\ (Acting(j)' <=> Acting(j))
      /\ ~Running(i)'
  BY <1>2, RunTo DEF RunsInv, Idled
<1>4. disturbed' = (disturbed /\ ~Quiet') /\ cancelled' \subseteq Instances /\ overtaken' \subseteq Instances
  BY DEF Idled, RunsInv, RunsOK
<1>5. Down \in [by : Instances \cup {Elsewhere, None}, step : 0..shape.steps]  BY <1>1 DEF Down, Of
<1>6. RunsOK'  BY <1>3, <1>4, <1>5 DEF RunsInv, RunsOK
<1>7. OverlayIsOfARun'
  <2>1. CASE overlay' = Down  BY <2>1 DEF OverlayIsOfARun, Down, Of
  <2>2. CASE overlay' = overlay /\ ~Acting(i) /\ multi' = multi
    <3>1. \A j \in Instances : Acting(j) => Acting(j)'  BY <1>3, <2>2
    <3> QED  BY <1>3, <2>2, <3>1 DEF RunsInv, OverlayIsOfARun, Of, Down
  <2> QED  BY <2>1, <2>2
<1>8. Quiet' \/ disturbed'
  <2>1. CASE disturbed  BY <1>4, <2>1
  <2>2. CASE ~disturbed
    <3>1. (\A j \in Instances : ~Running(j)') /\ elsewhere' = "idle"  BY <1>3, <2>2, AloneRun
    <3> QED  BY <1>3, <2>2, <3>1 DEF Quiet, Pairs
  <2> QED  BY <2>1, <2>2
<1> QED  BY <1>6, <1>7, <1>8, QuietRuns

LEMMA TurnRuns ==
  ASSUME shape \in Shapes, RunsInv, NEW i \in Instances, Running(i), RunFrame,
         NEW k, NEW up, NEW marks, NEW done, Turn(i, k, up, marks, done),
         multi' \in [Instances \X Steps -> [at : MultiPhases, owes : BOOLEAN]],
         ~disturbed => \A q \in Pairs : ~Executing(q)',
         up # Down => \A q \in Pairs : multi[q].at = "raised" => multi'[q] = multi[q],
         \/ Acting(i) /\ up \in {overlay, Down} /\ (~disturbed => up = overlay)
         \/ ~Acting(i) /\ up = Raised(Of(i, 0)) /\ multi' = multi
  PROVE  RunsInv'
<1>1. CASE GoesOn(i, k) /\ run' = [run EXCEPT ![i] = [at |-> "busy", step |-> k]] /\ overlay' = up
           /\ UNCHANGED <<cancelled, overtaken, disturbed>>
  <2>1. k \in Steps /\ cancelled' \subseteq Instances /\ overtaken' \subseteq Instances
    BY <1>1 DEF GoesOn, RunsInv, RunsOK
  <2> QED  BY <1>1, <2>1, RunGoesOn DEF RunFrame
<1>2. CASE Idled(i) /\ overlay' = Down  BY <1>2, RunEnds DEF RunFrame
<1> QED  BY <1>1, <1>2 DEF Turn, End

(* A multi-step moves on or ends, behind whatever overlay there is. *)
LEMMA MultiRuns ==
  ASSUME shape \in Shapes, RunsInv, UNCHANGED shape, NEW p \in Pairs, MultiMoves(p)
  PROVE  RunsInv'
<1> DEFINE Multis == [at : MultiPhases, owes : BOOLEAN]
<1>1. p[1] \in Instances /\ p[2] \in Steps /\ p = <<p[1], p[2]>> /\ multi[p] \in Multis
  BY DEF Pairs, RunsInv, RunsOK
<1>2. shape.steps \in Nat  BY ShapesAssumption
<1>3. UNCHANGED <<run, cancelled, elsewhere, overtaken>>
  BY DEF MultiMoves, MultiCompletesEarly, MultiActs, MultiEnds, Says, history
<1>4. (\A i : (Running(i)' <=> Running(i)) /\ (Acting(i)' <=> Acting(i)))
      /\ \A q : Awaited(q)' <=> Awaited(q)
  BY <1>3 DEF Running, Acting, Awaited
<1>5. Of(p[1], p[2]) \in [by : Instances \cup {Elsewhere, None}, step : 0..shape.steps]
      /\ Down \in [by : Instances \cup {Elsewhere, None}, step : 0..shape.steps]
  BY <1>1, <1>2 DEF Of, Down, Steps
<1>6. CASE MultiCompletesEarly(p)
  <2> DEFINE m == [at |-> "loading", owes |-> FALSE]
  <2>1. multi' = [multi EXCEPT ![p] = m] /\ Executing(p) /\ m \in Multis /\ m.at = "loading"
        /\ UNCHANGED <<overlay, disturbed>> /\ multi[p].at = "called"
    BY <1>6 DEF MultiCompletesEarly, Executing
  <2> HIDE DEF m
  <2>2. /\ Steps' = Steps /\ Pairs' = Pairs /\ multi'[p] = m
        /\ multi' \in [Instances \X Steps -> Multis]
        /\ \A q \in Pairs : q # p => multi'[q] = multi[q]
        /\ \A q \in Pairs : Executing(q)' <=> Executing(q)
    BY <2>1, MultiTo DEF RunsInv
  <2>3. ASSUME NEW q \in Pairs
        PROVE  multi'[q] = multi[q] \/ (multi[q].at = "called" /\ multi'[q].at = "loading")
    <3>1. CASE q = p  BY <2>1, <2>2, <3>1
    <3>2. CASE q # p  BY <2>2, <3>2
    <3> QED  BY <3>1, <3>2
  <2>4. RunsOK'  BY <1>3, <1>4, <2>1, <2>2 DEF RunsInv, RunsOK
  <2>5. CancelReaches'  BY <1>4, <2>1, <2>2, <2>3 DEF RunsInv, CancelReaches, Pairs
  <2>6. OverlayIsOfARun'
    <3>1. \A q \in Pairs : multi[q].at = "raised" => multi'[q].at = "raised"  BY <2>3
    <3> QED  BY <1>3, <1>4, <2>1, <2>2, <3>1 DEF RunsInv, OverlayIsOfARun, Pairs
  <2>7. Alone'  BY <1>3, <1>4, <2>1, <2>2, <2>3 DEF RunsInv, Alone
  <2> QED  BY <2>4, <2>5, <2>6, <2>7 DEF RunsInv
<1>7. CASE MultiActs(p)
  <2> DEFINE m == [multi[p] EXCEPT !.at = IF overlay = Down THEN "raised" ELSE "nested"]
  <2>1. /\ multi' = [multi EXCEPT ![p] = m] /\ Executing(p) /\ multi[p].at = "loading"
        /\ m \in Multis /\ m.at = (IF overlay = Down THEN "raised" ELSE "nested")
        /\ overlay' = Raised(Of(p[1], p[2])) /\ UNCHANGED disturbed
    BY <1>1, <1>7 DEF MultiActs, Executing, history
  <2> HIDE DEF m
  <2>2. /\ Steps' = Steps /\ Pairs' = Pairs /\ multi'[p] = m
        /\ multi' \in [Instances \X Steps -> Multis]
        /\ \A q \in Pairs : q # p => multi'[q] = multi[q]
        /\ \A q \in Pairs : Executing(q)' <=> Executing(q)
    BY <2>1, MultiTo DEF RunsInv
  <2>3. RunsOK'  BY <1>3, <1>4, <1>5, <2>1, <2>2 DEF RunsInv, RunsOK, Raised
  <2>4. OverlayIsOfARun'
    <3>1. CASE overlay = Down
      <4>1. overlay' = Of(p[1], p[2]) /\ multi'[p].at = "raised"  BY <2>1, <2>2, <3>1 DEF Raised
      <4> QED  BY <1>1, <2>2, <4>1 DEF OverlayIsOfARun, Pairs, Of
    <3>2. CASE overlay # Down
      <4>1. overlay' = overlay  BY <2>1, <3>2 DEF Raised
      <4>2. \A q \in Pairs : multi[q].at = "raised" => multi'[q].at = "raised"  BY <2>1, <2>2
      <4> QED  BY <1>3, <1>4, <2>2, <3>2, <4>1, <4>2 DEF RunsInv, OverlayIsOfARun, Pairs, Of, Down
    <3> QED  BY <3>1, <3>2
(* Undisturbed, it is awaited behind its run's overlay, or alone, without one. *)
  <2>5. ASSUME ~disturbed, NEW i \in Instances, Running(i)
        PROVE  overlay' = overlay /\ overlay = Of(i, 0) /\ Awaited(p)
    <3>1. run[i].at = "inner" /\ p = <<i, run[i].step>>  BY <2>1, <2>5, AloneRun
    <3>2. overlay = Of(i, 0)  BY <2>5, <3>1 DEF RunsInv, CancelReaches, Acting
    <3>3. overlay # Down  BY <2>5, <3>2, NoneAssumption DEF Of, Down
    <3> QED  BY <2>1, <3>1, <3>2, <3>3 DEF Raised, Awaited
  <2>6. ASSUME ~disturbed, \A i \in Instances : ~Running(i)
        PROVE  overlay = Down /\ overlay' = Of(p[1], p[2]) /\ multi'[p].at = "raised"
    <3>1. \A q \in Pairs : multi[q].at = "raised" => q = p
      BY <2>1, <2>6 DEF RunsInv, Alone, Executing
    <3>2. elsewhere = "idle"  BY <2>1, <2>6 DEF RunsInv, Alone
    <3>3. overlay = Down  BY <2>1, <2>6, <3>1, <3>2 DEF RunsInv, OverlayIsOfARun, Pairs, Acting, Running
    <3> QED  BY <2>1, <2>2, <3>3 DEF Raised
  <2>7. ~disturbed => \A q \in Pairs : Executing(q) => q = p  BY <2>1 DEF RunsInv, Alone
  <2>8. CancelReaches'
    <3>1. ASSUME ~disturbed, NEW i \in Instances, Acting(i)' PROVE overlay' = Of(i, 0)
      BY <1>4, <2>5, <3>1 DEF Acting, Running
    <3>2. ASSUME ~disturbed, NEW q \in Pairs, multi'[q].at \in {"raised", "nested"}, ~Awaited(q)'
          PROVE  overlay' = Of(q[1], q[2])
      <4>1. q = p  BY <2>2, <2>7, <3>2 DEF Executing
      <4> QED  BY <1>4, <2>5, <2>6, <3>2, <4>1
    <3> QED  BY <2>1, <2>2, <3>1, <3>2 DEF CancelReaches, Pairs, Of
  <2>9. Alone'
    <3>1. ASSUME ~disturbed, NEW q \in Pairs, multi'[q].at = "raised" PROVE overlay' = Of(q[1], q[2])
      <4>1. q = p  BY <2>2, <2>7, <3>1 DEF Executing
      <4>2. overlay = Down  BY <2>1, <2>2, <3>1, <4>1
      <4> QED  BY <2>1, <4>1, <4>2 DEF Raised
    <3> QED  BY <1>3, <1>4, <2>1, <2>2, <3>1 DEF RunsInv, Alone, Of
  <2> QED  BY <2>3, <2>4, <2>8, <2>9 DEF RunsInv
<1>8. CASE MultiEnds(p)
  <2>1. /\ multi' = [multi EXCEPT ![p] = Unrun] /\ Unrun \in Multis /\ Unrun.at = "idle"
        /\ multi[p].at \in {"raised", "nested"} /\ ~Awaited(p)
        /\ overlay' = Left(p) /\ disturbed' = (disturbed /\ ~Quiet')
    BY <1>8 DEF MultiEnds, EndsMulti, Unrun
  <2>2. /\ Steps' = Steps /\ Pairs' = Pairs /\ ~Executing(p)'
        /\ multi' \in [Instances \X Steps -> Multis]
        /\ \A q \in Pairs : q # p => multi'[q] = multi[q] /\ (Executing(q)' <=> Executing(q))
    BY <2>1, MultiTo DEF RunsInv
  <2>3. RunsOK'  BY <1>3, <1>4, <1>5, <2>1, <2>2 DEF RunsInv, RunsOK, Left
  <2>4. OverlayIsOfARun'
    <3>1. CASE multi[p].at = "raised"  BY <2>1, <3>1 DEF OverlayIsOfARun, Left, Down, Of
    <3>2. CASE multi[p].at # "raised"
      <4>1. overlay' = overlay  BY <2>1, <3>2 DEF Left
      <4>2. \A q \in Pairs : multi[q].at = "raised" => multi'[q].at = "raised"  BY <2>2, <3>2
      <4> QED  BY <1>3, <1>4, <2>2, <4>1, <4>2 DEF RunsInv, OverlayIsOfARun, Pairs, Of, Down
    <3> QED  BY <3>1, <3>2
  <2>5. Quiet' \/ disturbed'
    <3>1. CASE disturbed  BY <2>1, <3>1
    <3>2. CASE ~disturbed
      <4>1. Executing(p)  BY <2>1 DEF Executing
      <4>2. (\A i \in Instances : ~Running(i)) /\ elsewhere = "idle"
            /\ \A q \in Pairs : Executing(q) => q = p
        BY <2>1, <3>2, <4>1 DEF RunsInv, Alone
      <4> QED  BY <1>3, <1>4, <2>2, <4>2 DEF Quiet, Pairs
    <3> QED  BY <3>1, <3>2
  <2> QED  BY <2>3, <2>4, <2>5, QuietRuns
<1> QED  BY <1>6, <1>7, <1>8 DEF MultiMoves

(* A user starts: unless he is the first, he is disturbed. *)
LEMMA StartsUndisturbed ==
  ASSUME RunsInv, UNCHANGED shape, disturbed' = ~Quiet, ~disturbed'
  PROVE  /\ \A i \in Instances : ~Running(i) /\ ~Acting(i)
         /\ \A p \in Pairs : ~Executing(p) /\ multi[p].at \notin {"raised", "nested"}
         /\ elsewhere = "idle" /\ overlay = Down
<1>1. Quiet  OBVIOUS
<1>2. \A i \in Instances : ~Running(i) /\ ~Acting(i)  BY <1>1 DEF Quiet, Running, Acting
<1>3. \A p \in Pairs : ~Executing(p) /\ multi[p].at \notin {"raised", "nested"}
  BY <1>1 DEF Quiet, Executing, Pairs
<1>4. elsewhere = "idle"  BY <1>1 DEF Quiet
<1> QED  BY <1>2, <1>3, <1>4 DEF RunsInv, OverlayIsOfARun, Pairs

LEMMA DoSectionRuns ==
  ASSUME shape \in Shapes, mounted \in Instances \cup {None}, RunsInv, DoSection
  PROVE  RunsInv'
<1>1. PICK s \in Steps : run' = [run EXCEPT ![mounted] = [at |-> "start", step |-> s]]
  BY DEF DoSection
<1> DEFINE r == [at |-> "start", step |-> s]
<1>2. mounted \in Instances /\ ~Running(mounted) /\ disturbed' = ~Quiet
      /\ UNCHANGED <<shape, mounted, multi, elsewhere, overlay, cancelled, overtaken>>
  BY DEF DoSection, IsRunning, component
<1>3. r \in [at : Phases, step : 0..shape.steps] /\ r.at = "start" /\ r.step \in Steps
  BY ShapesAssumption DEF Phases, Steps
<1>4. run' = [run EXCEPT ![mounted] = r]  BY <1>1
<1> HIDE DEF r
<1>5. /\ Steps' = Steps /\ Pairs' = Pairs /\ Running(mounted)' /\ ~Acting(mounted)'
      /\ run' \in [Instances -> [at : Phases, step : 0..shape.steps]]
      /\ \A j \in Instances : Running(j)' => run'[j].step \in Steps
      /\ \A j \in Instances \ {mounted} : (Running(j)' <=> Running(j)) /\ (Acting(j)' <=> Acting(j))
  BY <1>2, <1>3, <1>4, RunTo DEF RunsInv
<1>6. RunsOK'  BY <1>2, <1>5 DEF RunsInv, RunsOK
<1>7. \A j \in Instances : Acting(j) => Acting(j)'  BY <1>2, <1>5 DEF Acting, Running
<1>8. OverlayIsOfARun'  BY <1>2, <1>5, <1>7 DEF RunsInv, OverlayIsOfARun, Of, Down
<1>9. ~disturbed' => /\ \A j \in Instances : ~Acting(j)' /\ (Running(j)' => j = mounted)
                     /\ \A p \in Pairs : ~Executing(p)' /\ multi'[p].at \notin {"raised", "nested"}
                     /\ elsewhere' = "idle"
  BY <1>2, <1>5, StartsUndisturbed DEF Executing
<1>10. CancelReaches'  BY <1>5, <1>9 DEF CancelReaches, Pairs
<1>11. Alone'  BY <1>5, <1>9 DEF Alone
<1> QED  BY <1>6, <1>8, <1>10, <1>11 DEF RunsInv

LEMMA OwnRunRuns ==
  ASSUME shape \in Shapes, mounted \in Instances \cup {None}, RunsInv, NEW s \in Steps, OwnRun(s)
  PROVE  RunsInv'
<1> DEFINE p == <<mounted, s>>
           m == [at |-> IF p[2] \in shape.early THEN "called" ELSE "loading", owes |-> p[2] \notin kept]
<1>1. p \in Pairs /\ ~Executing(p) /\ disturbed' = ~Quiet /\ multi' = [multi EXCEPT ![p] = m]
      /\ UNCHANGED <<shape, run, elsewhere, overlay, cancelled, overtaken>>
  BY DEF OwnRun, Called, Pairs
<1>2. m \in [at : MultiPhases, owes : BOOLEAN]
      /\ m.at \in {"called", "loading"}
  OBVIOUS
<1> HIDE DEF m, p
<1>3. /\ Steps' = Steps /\ Pairs' = Pairs /\ multi'[p] = m
      /\ multi' \in [Instances \X Steps -> [at : MultiPhases, owes : BOOLEAN]]
      /\ \A q \in Pairs : q # p => multi'[q] = multi[q] /\ (Executing(q)' <=> Executing(q))
  BY <1>1, <1>2, MultiTo DEF RunsInv
<1>4. \A i : (Running(i)' <=> Running(i)) /\ (Acting(i)' <=> Acting(i))  BY <1>1 DEF Running, Acting
<1>5. RunsOK'  BY <1>1, <1>3, <1>4 DEF RunsInv, RunsOK
<1>6. \A q \in Pairs : multi[q].at = "raised" => multi'[q].at = "raised"  BY <1>1, <1>3 DEF Executing
<1>7. OverlayIsOfARun'  BY <1>1, <1>3, <1>4, <1>6 DEF RunsInv, OverlayIsOfARun, Pairs
<1>8. ~disturbed' => /\ \A j \in Instances : ~Acting(j)' /\ ~Running(j)'
                     /\ \A q \in Pairs : (Executing(q)' => q = p) /\ multi'[q].at \notin {"raised", "nested"}
                     /\ elsewhere' = "idle"
  BY <1>1, <1>2, <1>3, <1>4, StartsUndisturbed
<1>9. CancelReaches'  BY <1>3, <1>8 DEF CancelReaches, Pairs
<1>10. Alone'  BY <1>3, <1>8 DEF Alone
<1> QED  BY <1>5, <1>7, <1>9, <1>10 DEF RunsInv

LEMMA ElsewhereRuns ==
  ASSUME shape \in Shapes, RunsInv, ElsewhereStarts \/ ElsewhereEnds
  PROVE  RunsInv'
<1>1. UNCHANGED <<shape, run, cancelled, multi, overtaken>>
  BY DEF ElsewhereStarts, ElsewhereEnds, ElsewhereFrame
<1>2. /\ Steps' = Steps /\ Pairs' = Pairs
      /\ \A i : (Running(i)' <=> Running(i)) /\ (Acting(i)' <=> Acting(i))
      /\ \A p : (Executing(p)' <=> Executing(p)) /\ (Awaited(p)' <=> Awaited(p))
  BY <1>1 DEF Steps, Pairs, Running, Acting, Executing, Awaited
<1>3. shape.steps \in Nat  BY ShapesAssumption
<1>4. Of(Elsewhere, 0) \in [by : Instances \cup {Elsewhere, None}, step : 0..shape.steps]
      /\ Down \in [by : Instances \cup {Elsewhere, None}, step : 0..shape.steps]
  BY <1>3 DEF Of, Down
<1>5. CASE ElsewhereStarts
  <2>1. /\ disturbed' = ~Quiet /\ elsewhere = "idle" /\ overlay' = Raised(Of(Elsewhere, 0))
        /\ elsewhere' = IF overlay = Down THEN "raised" ELSE "unseen"
    BY <1>5 DEF ElsewhereStarts
  <2>2. RunsOK'  BY <1>1, <1>2, <1>4, <2>1 DEF RunsInv, RunsOK, Raised
  <2>3. OverlayIsOfARun'
    BY <1>1, <1>2, <2>1 DEF RunsInv, OverlayIsOfARun, Raised, Of, Down
  <2>4. ~disturbed' => /\ \A i \in Instances : ~Running(i)' /\ ~Acting(i)'
                       /\ \A p \in Pairs : ~Executing(p)' /\ multi'[p].at \notin {"raised", "nested"}
    BY <1>1, <1>2, <2>1, StartsUndisturbed
  <2>5. CancelReaches'  BY <1>2, <2>4 DEF CancelReaches, Pairs
  <2>6. Alone'  BY <1>2, <2>4 DEF Alone
  <2> QED  BY <2>2, <2>3, <2>5, <2>6 DEF RunsInv
<1>6. CASE ElsewhereEnds
  <2>1. /\ disturbed' = (disturbed /\ ~Quiet') /\ elsewhere # "idle" /\ elsewhere' \in {"idle", "unseen"}
        /\ overlay' \in IF elsewhere = "raised" THEN {Down} ELSE {overlay, Down}
    BY <1>6 DEF ElsewhereEnds
  <2>2. RunsOK'  BY <1>1, <1>2, <1>4, <2>1 DEF RunsInv, RunsOK
  <2>3. OverlayIsOfARun'
    <3>1. CASE overlay' = Down  BY <3>1 DEF OverlayIsOfARun, Of, Down
    <3>2. CASE overlay' = overlay /\ elsewhere # "raised"
      BY <1>1, <1>2, <3>2 DEF RunsInv, OverlayIsOfARun, Of, Down
    <3> QED  BY <2>1, <3>1, <3>2
  <2>4. CASE disturbed'  BY <2>2, <2>3, <2>4, QuietRuns
  <2>5. CASE ~disturbed /\ ~disturbed'
    <3>1. (\A i \in Instances : ~Running(i)) /\ (\A p \in Pairs : ~Executing(p))
      BY <2>1, <2>5 DEF RunsInv, Alone
    <3>2. /\ \A i \in Instances : ~Running(i)' /\ ~Acting(i)'
          /\ \A p \in Pairs : ~Executing(p)' /\ multi'[p].at \notin {"raised", "nested"}
      BY <1>1, <1>2, <3>1 DEF Running, Acting, Executing
    <3>3. CancelReaches'  BY <1>2, <3>2 DEF CancelReaches, Pairs
    <3>4. Alone'  BY <1>2, <3>2 DEF Alone
    <3> QED  BY <2>2, <2>3, <3>3, <3>4 DEF RunsInv
  <2>6. CASE Quiet'  BY <2>2, <2>3, <2>6, QuietRuns
  <2>7. disturbed \in BOOLEAN  BY DEF RunsInv, RunsOK
  <2> QED  BY <2>1, <2>4, <2>5, <2>6, <2>7
<1> QED  BY <1>5, <1>6

LEMMA PanelRuns ==
  ASSUME shape \in Shapes, RunsInv, PanelCloses
  PROVE  RunsInv'
<1>1. UNCHANGED <<shape, run, cancelled, multi, overtaken>> /\ overlay' = Down
      /\ elsewhere' \in {elsewhere, "idle"} /\ disturbed' = ((disturbed \/ overlay # Down) /\ ~Quiet')
  BY DEF PanelCloses
<1>2. /\ Steps' = Steps /\ Pairs' = Pairs
      /\ \A i : (Running(i)' <=> Running(i)) /\ (Acting(i)' <=> Acting(i))
      /\ \A p : (Executing(p)' <=> Executing(p)) /\ (Awaited(p)' <=> Awaited(p))
  BY <1>1 DEF Steps, Pairs, Running, Acting, Executing, Awaited
<1>3. Down \in [by : Instances \cup {Elsewhere, None}, step : 0..shape.steps]
  BY ShapesAssumption DEF Of, Down
<1>4. RunsOK'  BY <1>1, <1>2, <1>3 DEF RunsInv, RunsOK
<1>5. OverlayIsOfARun'  BY <1>1 DEF OverlayIsOfARun, Of, Down
<1>6. CASE Quiet' \/ disturbed'  BY <1>4, <1>5, <1>6, QuietRuns
<1>7. CASE ~disturbed /\ overlay = Down /\ ~disturbed'
  <2>1. CancelReaches'  BY <1>1, <1>2, <1>7 DEF RunsInv, CancelReaches, Pairs, Of, Down
  <2>2. Alone'  BY <1>1, <1>2, <1>7 DEF RunsInv, Alone, Of, Down
  <2> QED  BY <1>4, <1>5, <2>1, <2>2 DEF RunsInv
<1>8. disturbed \in BOOLEAN  BY DEF RunsInv, RunsOK
<1> QED  BY <1>1, <1>6, <1>7, <1>8

LEMMA RunMovesRuns ==
  ASSUME shape \in Shapes, RunsInv, NEW i \in Instances, RunMoves(i)
  PROVE  RunsInv'
<1> USE DEF RunFrame, history
<1>1. Running(i) /\ run[i].step \in Steps /\ <<i, run[i].step>> \in Pairs
  <2>1. Running(i)
    BY DEF RunMoves, Starts, GateOpens, GateStays, StepCalls, StepSucceeds, Rested, StepSkipped, StepFails,
           StepEnds, Running
  <2> QED  BY <2>1, PairOf DEF RunsInv
<1>2. multi \in [Instances \X Steps -> [at : MultiPhases, owes : BOOLEAN]]
      /\ cancelled \subseteq Instances /\ overtaken \subseteq Instances
  BY DEF RunsInv, RunsOK
<1>3. run[i] = [at |-> run[i].at, step |-> run[i].step]  BY DEF RunsInv, RunsOK
<1>4. ~disturbed /\ run[i].at # "inner" => \A q \in Pairs : ~Executing(q)  BY <1>1, AloneRun
<1>5. multi' = multi => \A q : Executing(q)' <=> Executing(q)  BY DEF Executing
<1>6. ASSUME NEW at \in {"gate", "inner", "rest"}, run' = [run EXCEPT ![i].at = at]
      PROVE  run' = [run EXCEPT ![i] = [at |-> at, step |-> run[i].step]]
  <2>1. [run[i] EXCEPT !.at = at] = [at |-> at, step |-> run[i].step]  BY <1>3
  <2> QED  BY <1>6, <2>1
<1>7. CASE Starts(i)
  <2>1. /\ run' = [run EXCEPT ![i] = [at |-> "gate", step |-> run[i].step]] /\ ~Acting(i)
        /\ UNCHANGED <<shape, elsewhere, disturbed, multi, overlay, overtaken>>
        /\ cancelled' \subseteq Instances /\ run[i].at # "inner"
    BY <1>2, <1>6, <1>7 DEF Starts, Acting
  <2> QED  BY <1>1, <1>2, <1>4, <1>5, <2>1, RunGoesOn
<1>8. CASE GateOpens(i)
  <2>1. /\ Turn(i, run[i].step, Raised(Of(i, 0)), {}, {}) /\ ~Acting(i)
        /\ UNCHANGED multi /\ run[i].at # "inner" /\ RunFrame
    BY <1>8 DEF GateOpens, Acting
  <2> QED  BY <1>1, <1>2, <1>4, <1>5, <2>1, TurnRuns
<1>9. CASE GateStays(i)
  <2>1. /\ Idled(i) /\ ~Acting(i) /\ run[i].at # "inner"
        /\ UNCHANGED <<shape, elsewhere, multi, overlay>>
    BY <1>9 DEF GateStays, Acting
  <2> QED  BY <1>1, <1>2, <1>4, <1>5, <2>1, RunEnds
<1>10. CASE StepCalls(i)
  <2> DEFINE m == [at |-> IF run[i].step \in shape.early THEN "called" ELSE "loading",
                   owes |-> run[i].step \notin kept]
  <2>1. PICK p \in Pairs : p = <<i, run[i].step>>  BY <1>1
  <2>2. /\ run' = [run EXCEPT ![i] = [at |-> "inner", step |-> run[i].step]] /\ Acting(i)
        /\ multi' = [multi EXCEPT ![p] = m] /\ ~Executing(p) /\ run[i].at # "inner"
        /\ UNCHANGED <<shape, elsewhere, disturbed, overlay, cancelled, overtaken>>
    BY <1>6, <1>10, <2>1 DEF StepCalls, Called, Acting
  <2>3. m \in [at : MultiPhases, owes : BOOLEAN]
        /\ m.at \in {"called", "loading"}
    OBVIOUS
  <2> HIDE DEF m
  <2>4. /\ multi'[p] = m
        /\ multi' \in [Instances \X Steps -> [at : MultiPhases, owes : BOOLEAN]]
        /\ \A q \in Pairs : q # p => multi'[q] = multi[q] /\ (Executing(q)' <=> Executing(q))
    BY <2>2, <2>3, <2>1, MultiTo DEF RunsInv
  <2>5. \A q \in Pairs : multi[q].at = "raised" => multi'[q] = multi[q]  BY <2>2, <2>4 DEF Executing
  <2>6. ~disturbed => \A q \in Pairs : Executing(q)' => q = p /\ multi'[q].at # "raised"
    BY <1>4, <2>2, <2>3, <2>4
  <2>7. ~disturbed => \A q \in Pairs : Executing(q)' => q = <<i, run[i].step>> /\ multi'[q].at # "raised"
    BY <2>1, <2>6
  <2>8. ASSUME NEW at \in {"gate", "busy", "inner", "rest"}, at = "inner",
               NEW k \in Steps, k = run[i].step
        PROVE  RunsInv'
    <3>1. /\ run' = [run EXCEPT ![i] = [at |-> at, step |-> k]]
          /\ ~disturbed => \A q \in Pairs : Executing(q)' => /\ at = "inner" /\ q = <<i, k>>
                                                           /\ multi'[q].at # "raised"
      BY <2>2, <2>7, <2>8
    <3>2. cancelled' \subseteq Instances /\ overtaken' \subseteq Instances /\ at # "gate"
      BY <1>2, <2>2, <2>8
    <3>3. /\ Acting(i) /\ at # "gate" /\ overlay' \in {overlay, Down} /\ (~disturbed => overlay' = overlay)
          /\ UNCHANGED <<shape, elsewhere, disturbed>>
      BY <2>2, <3>2
    <3> QED  BY <1>1, <2>4, <2>5, <3>1, <3>2, <3>3, RunGoesOn, ZenonT(90)
  <2> QED  BY <1>1, <2>8
<1>11. ASSUME NEW up, StepEnds(i, up), RunFrame
       PROVE  /\ Acting(i)
              /\ multi' \in [Instances \X Steps -> [at : MultiPhases, owes : BOOLEAN]]
              /\ ~disturbed => \A q \in Pairs : ~Executing(q)'
              /\ up # Down => \A q \in Pairs : multi[q].at = "raised" => multi'[q] = multi[q]
              /\ up \in {overlay, Down} /\ (~disturbed => up = overlay)
  BY <1>1, <1>11, EndedStep
<1>12. CASE StepSucceeds(i)
  <2>1. PICK up : /\ StepEnds(i, up)
                  /\ IF run[i].step < shape.steps
                     THEN /\ run' = [run EXCEPT ![i].at = "rest"] /\ overlay' = up
                          /\ UNCHANGED <<cancelled, overtaken, disturbed>>
                     ELSE Turn(i, run[i].step + 1, up, {run[i].step}, {run[i].step})
    BY <1>12 DEF StepSucceeds
  <2>2. RunFrame  BY <1>12 DEF StepSucceeds
  <2>3. CASE run[i].step < shape.steps
    <3>1. run' = [run EXCEPT ![i] = [at |-> "rest", step |-> run[i].step]]  BY <1>6, <2>1, <2>3
    <3> QED  BY <1>1, <1>2, <1>11, <2>1, <2>2, <2>3, <3>1, RunGoesOn
  <2>4. CASE ~(run[i].step < shape.steps)
    <3>1. Turn(i, run[i].step + 1, up, {run[i].step}, {run[i].step})  BY <2>1, <2>4
    <3> QED  BY <1>1, <1>11, <2>1, <2>2, <3>1, TurnRuns
  <2> QED  BY <2>3, <2>4
<1>13. CASE Rested(i)
  <2>1. /\ Turn(i, run[i].step + 1, overlay, {}, {}) /\ Acting(i)
        /\ UNCHANGED multi /\ run[i].at # "inner" /\ RunFrame
    BY <1>13 DEF Rested, Acting
  <2> QED  BY <1>1, <1>2, <1>4, <1>5, <2>1, TurnRuns
<1>14. CASE StepSkipped(i)
  <2>1. PICK marks : /\ Turn(i, run[i].step + 1, overlay, marks, {run[i].step}) /\ Acting(i)
                     /\ UNCHANGED multi /\ run[i].at # "inner" /\ RunFrame
    BY <1>14 DEF StepSkipped, Acting
  <2> QED  BY <1>1, <1>2, <1>4, <1>5, <2>1, TurnRuns
<1>15. CASE StepFails(i)
  <2>1. PICK up : StepEnds(i, up) /\ RunFrame /\ Idled(i) /\ overlay' = Down  BY <1>15 DEF StepFails, End
  <2> QED  BY <1>1, <1>11, <2>1, RunEnds
<1> QED
  BY <1>7, <1>8, <1>9, <1>10, <1>12, <1>13, <1>14, <1>15 DEF RunMoves

LEMMA RunsStep == ASSUME Inv, [Next]_vars PROVE RunsInv'
<1> USE DEF runs, history
<1>0. RunsInv /\ shape \in Shapes /\ mounted \in Instances \cup {None}  BY DEF Inv, PageInv, PageOK
<1>1. cancelled \subseteq Instances /\ overtaken \subseteq Instances  BY DEF Inv, RunsInv, RunsOK
<1>2. ASSUME UNCHANGED <<shape, runs, disturbed>>, overtaken' \subseteq Instances PROVE RunsInv'
  BY <1>0, <1>1, <1>2, SameRuns
<1>3. ASSUME NEW i \in Instances, Mount(i) PROVE RunsInv'  BY <1>1, <1>2, <1>3 DEF Mount
<1>4. CASE RenderRestore \/ Unmount \/ LeaveTab \/ ReturnToTab
  BY <1>1, <1>2, <1>4 DEF RenderRestore, Unmount, LeaveTab, ReturnToTab
<1>5. CASE Reload
  <2>1. Steps' = Steps /\ shape' = shape /\ shape.steps \in Nat
    BY <1>0, <1>5, ShapesAssumption DEF Reload, Steps
  <2>2. Idle \in [at : Phases, step : 0..shape.steps] /\ Idle.at = "idle"  BY <2>1 DEF Idle, Phases
  <2>3. Unrun \in [at : MultiPhases, owes : BOOLEAN]
        /\ Unrun.at = "idle"
    BY DEF Unrun
  <2>4. (\A i \in Instances : ~Running(i)') /\ (\A p \in Instances \X Steps : ~Executing(p)')
    BY <1>5, <2>2, <2>3 DEF Reload, Running, Executing
  <2>5. Quiet'  BY <1>5, <2>1, <2>4 DEF Reload, Quiet
  <2>6. Down \in [by : Instances \cup {Elsewhere, None}, step : 0..shape.steps]  BY <2>1 DEF Down, Of
  <2>7. RunsOK'  BY <1>5, <2>1, <2>2, <2>3, <2>4, <2>6 DEF Reload, RunsOK
  <2>8. OverlayIsOfARun'  BY <1>5 DEF Reload, OverlayIsOfARun, Down, Of
  <2> QED  BY <2>5, <2>7, <2>8, QuietRuns
<1>6. ASSUME NEW s \in Steps, CompleteStep(s) PROVE RunsInv'  BY <1>1, <1>2, <1>6 DEF CompleteStep
<1>7. CASE ObjectivesMet \/ MarkComplete  BY <1>1, <1>2, <1>7 DEF ObjectivesMet, MarkComplete
<1>8. ASSUME NEW s, Forgotten(s), UNCHANGED <<shape, runs, disturbed>> PROVE RunsInv'
  BY <1>1, <1>2, <1>8 DEF Forgotten
<1>9. ASSUME NEW s \in Steps, ResetStep(s) PROVE RunsInv'
  <2>1. CASE met  BY <1>1, <1>2, <1>9, <2>1 DEF ResetStep
  <2>2. CASE ~met  BY <1>8, <1>9, <2>2 DEF ResetStep
  <2> QED  BY <2>1, <2>2
<1>10. CASE ResetSection \/ ResetGuide  BY <1>8, <1>10 DEF ResetSection, ResetGuide
<1>11. CASE DoSection  BY <1>0, <1>11, DoSectionRuns
<1>12. ASSUME NEW i \in Instances, Cancel(i) PROVE RunsInv'
  BY <1>0, <1>1, <1>12, SameRuns DEF Cancel
<1>13. ASSUME NEW i \in Instances, RunMoves(i) PROVE RunsInv'  BY <1>0, <1>13, RunMovesRuns
<1>14. ASSUME NEW p \in Instances \X Steps, MultiMoves(p) PROVE RunsInv'
  <2>1. UNCHANGED shape
    BY <1>14 DEF MultiMoves, MultiCompletesEarly, MultiActs, MultiEnds, Says
  <2> QED  BY <1>0, <1>14, <2>1, MultiRuns DEF Pairs
<1>15. ASSUME NEW s \in Steps, OwnRun(s) PROVE RunsInv'  BY <1>0, <1>15, OwnRunRuns
<1>16. CASE ElsewhereStarts \/ ElsewhereEnds  BY <1>0, <1>16, ElsewhereRuns
<1>17. CASE PanelCloses  BY <1>0, <1>17, PanelRuns
<1>18. CASE UNCHANGED vars  BY <1>1, <1>2, <1>18 DEF vars
<1> QED
  BY <1>3, <1>4, <1>5, <1>6, <1>7, <1>9, <1>10, <1>11, <1>12, <1>13, <1>14, <1>15, <1>16, <1>17, <1>18
  DEF Next

-----------------------------------------------------------------------------
(* What has been done. *)

(* Runs that lie as they did, or at no earlier a step than what is behind them *)
(* allows, keep what is behind them as long as nothing is forgotten.           *)
Behind(i) ==
  Running(i) /\ i \notin overtaken =>
    /\ 1..(run[i].step - 1) \subseteq earned \cup forged
    /\ run[i].at = "rest" => run[i].step \in earned

LEMMA HistoryParts ==
  HistoryInv <=> /\ HistoryOK /\ CompletedIsEarned
                 /\ met => earned = Steps
                 /\ \A i \in Instances : Behind(i)
BY DEF HistoryInv, Behind

LEMMA MarkedKept ==
  ASSUME PageInv, NEW marks \in SUBSET Steps, Marked(marks)
  PROVE  kept' \subseteq kept \cup marks /\ (~active => kept' \subseteq kept)
<1> DEFINE k == IF active THEN kept \cup marks ELSE kept
<1>1. Stored(k)  BY DEF Marked
<1>2. met => Steps \subseteq kept  BY DEF PageInv, PageShows
<1>3. kept' = k \/ (met /\ kept' = Steps)  BY <1>1 DEF Stored, Rendered
<1> QED  BY <1>2, <1>3

(* Run i records marks: they are earned, or the run has been overtaken. *)
LEMMA RecordsHistory ==
  ASSUME Inv, NEW i \in Instances, RunFrame, NEW marks \in SUBSET Steps, NEW done \in SUBSET Steps,
         Records(i, marks, done),
         i \notin overtaken => marks \subseteq earned \cup done \cup forged
  PROVE  /\ HistoryOK' /\ CompletedIsEarned' /\ (met' => earned' = Steps')
         /\ earned \subseteq earned' /\ done \subseteq earned' /\ forged \subseteq forged'
<1> USE DEF Inv
<1>1. Marked(marks) /\ earned' = earned \cup done
      /\ forged' = IF active /\ i \in overtaken THEN forged \cup (marks \ (earned \cup done)) ELSE forged
  BY DEF Records
<1>2. UNCHANGED met  BY <1>1, MarkedPage DEF RunFrame
<1>3. Steps' = Steps  BY DEF RunFrame, Steps
<1>4. kept' \subseteq kept \cup marks /\ (~active => kept' \subseteq kept)  BY <1>1, MarkedKept
<1>5. HistoryOK /\ CompletedIsEarned /\ (met => earned = Steps)  BY DEF HistoryInv
<1>6. HistoryOK'  BY <1>1, <1>3, <1>5 DEF HistoryOK
<1>7. CompletedIsEarned'
  <2>1. CASE ~active  BY <1>1, <1>4, <1>5, <2>1 DEF CompletedIsEarned
  <2>2. CASE active /\ i \in overtaken  BY <1>1, <1>4, <1>5, <2>2 DEF CompletedIsEarned
  <2>3. CASE i \notin overtaken  BY <1>1, <1>4, <1>5, <2>3 DEF CompletedIsEarned
  <2> QED  BY <2>1, <2>2, <2>3
<1>8. met' => earned' = Steps'  BY <1>1, <1>2, <1>3, <1>5
<1> QED  BY <1>1, <1>6, <1>7, <1>8

(* What the head of the loop does at step k, when all before k is behind the run. *)
LEMMA TurnHistory ==
  ASSUME Inv, NEW i \in Instances, RunFrame, NEW k \in Nat \ {0}, NEW up,
         NEW done \in SUBSET Steps, NEW marks \in SUBSET done, Turn(i, k, up, marks, done),
         i \notin overtaken => 1..(k - 1) \subseteq earned \cup done \cup forged
  PROVE  HistoryInv'
<1> DEFINE ms == IF ~GoesOn(i, k) /\ Ran(i, k) THEN Steps ELSE marks
<1>1. Records(i, ms, done)  BY DEF Turn, End
<1>2. ms \in SUBSET Steps  OBVIOUS
<1>3. i \notin overtaken => ms \subseteq earned \cup done \cup forged
  <2>1. CASE Ran(i, k)
    <3>1. shape.steps \in Nat  BY ShapesAssumption DEF Inv, PageInv, PageOK
    <3>2. Steps \subseteq 1..(k - 1)  BY <2>1, <3>1 DEF Ran, Steps
    <3> QED  BY <3>2
  <2> QED  BY <2>1
<1> HIDE DEF ms
<1>4. /\ HistoryOK' /\ CompletedIsEarned' /\ (met' => earned' = Steps')
      /\ earned \subseteq earned' /\ done \subseteq earned' /\ forged \subseteq forged'
  BY <1>1, <1>2, <1>3, RecordsHistory
<1>5. ASSUME NEW j \in Instances PROVE Behind(j)'
  <2>1. Behind(j) /\ run \in [Instances -> [at : Phases, step : 0..shape.steps]]
    BY HistoryParts DEF Inv, RunsInv, RunsOK
  <2>2. CASE j # i
    <3>1. run'[j] = run[j] /\ (j \in overtaken' <=> j \in overtaken)
      BY <2>1, <2>2 DEF Turn, End, Idled
    <3> QED  BY <1>4, <2>1, <3>1 DEF Behind, Running, RunFrame
  <2>3. CASE j = i /\ GoesOn(i, k)
    <3>1. run'[i] = [at |-> "busy", step |-> k] /\ overtaken' = overtaken  BY <2>1, <2>3 DEF Turn
    <3> QED  BY <1>4, <2>3, <3>1 DEF Behind, RunFrame
  <2>4. CASE j = i /\ ~GoesOn(i, k)
    <3>1. run'[i] = Idle  BY <2>1, <2>4 DEF Turn, End, Idled
    <3> QED  BY <2>4, <3>1 DEF Behind, Running, Idle
  <2> QED  BY <2>2, <2>3, <2>4
<1> QED  BY <1>4, <1>5 DEF HistoryInv, Behind

LEMMA HistoryStep == ASSUME Inv, [Next]_vars PROVE HistoryInv'
<1> USE DEF runs, history, section, component
<1>0. /\ HistoryOK /\ CompletedIsEarned /\ (met => earned = Steps)
      /\ \A i \in Instances : Behind(i)
  BY HistoryParts DEF Inv
<1>1. shape \in Shapes /\ shape.steps \in Nat /\ kept \subseteq Steps
      /\ mounted \in Instances \cup {None} /\ (met => Steps \subseteq kept)
  BY ShapesAssumption DEF Inv, PageInv, PageOK, PageShows
<1>2. /\ run \in [Instances -> [at : Phases, step : 0..shape.steps]]
      /\ \A i \in Instances : Running(i) => run[i].step \in Steps
      /\ overtaken \subseteq Instances
  BY DEF Inv, RunsInv, RunsOK
(* The runs stay where they are, and no more is complete than was. *)
<1>3. ASSUME UNCHANGED <<shape, run>>, kept' \subseteq kept, met' => met,
             earned' = earned, forged' = forged,
             \A i \in Instances : Running(i) /\ i \in overtaken => i \in overtaken'
      PROVE  HistoryInv'
  <2>1. Steps' = Steps  BY <1>3 DEF Steps
  <2>2. HistoryOK' /\ CompletedIsEarned'  BY <1>0, <1>3, <2>1 DEF HistoryOK, CompletedIsEarned
  <2>3. \A i \in Instances : Behind(i)'  BY <1>0, <1>3 DEF Behind, Running
  <2> QED  BY <1>0, <1>3, <2>1, <2>2, <2>3 DEF HistoryInv, Behind
<1>4. ASSUME NEW i \in Instances, Mount(i) PROVE HistoryInv'  BY <1>3, <1>4 DEF Mount
<1>5. CASE RenderRestore
  <2>1. kept' = (IF met THEN Steps ELSE kept) /\ met' = met  BY <1>5 DEF RenderRestore, Rendered
  <2> QED  BY <1>1, <1>3, <1>5, <2>1 DEF RenderRestore
<1>6. CASE Unmount \/ PanelCloses \/ LeaveTab \/ ReturnToTab
  BY <1>3, <1>6 DEF Unmount, PanelCloses, LeaveTab, ReturnToTab, Gone
<1>7. CASE Reload
  <2>1. Steps' = Steps /\ ~met' /\ UNCHANGED <<kept, earned, forged>>
    BY <1>7 DEF Reload, Steps, Gone
  <2>2. \A i \in Instances : ~Running(i)'  BY <1>7 DEF Reload, Running, Idle
  <2>3. HistoryOK' /\ CompletedIsEarned'  BY <1>0, <2>1 DEF HistoryOK, CompletedIsEarned
  <2>4. \A i \in Instances : Behind(i)'  BY <2>2 DEF Behind
  <2> QED  BY <2>1, <2>3, <2>4 DEF HistoryInv, Behind
(* Steps are done, and the runs stay where they are. *)
<1>8. ASSUME UNCHANGED <<shape, run, overtaken, forged>>,
             NEW done \in SUBSET Steps, earned' = earned \cup done, kept' \subseteq kept \cup done,
             met' => earned' = Steps
      PROVE  HistoryInv'
  <2>1. Steps' = Steps  BY <1>8 DEF Steps
  <2>2. HistoryOK' /\ CompletedIsEarned'  BY <1>0, <1>8, <2>1 DEF HistoryOK, CompletedIsEarned
  <2>3. \A i \in Instances : Behind(i)'  BY <1>0, <1>8 DEF Behind, Running
  <2> QED  BY <1>8, <2>1, <2>2, <2>3 DEF HistoryInv, Behind
<1>9. ASSUME NEW s \in Steps, CompleteStep(s) PROVE HistoryInv'
  <2>1. PageInv /\ {s} \in SUBSET Steps /\ Marked({s})  BY <1>9 DEF Inv, CompleteStep
  <2>2. kept' \subseteq kept \cup {s}  BY <2>1, MarkedKept
  <2>3. UNCHANGED met  BY <1>9, <2>1, MarkedPage DEF CompleteStep
  <2>4. earned' = earned \cup {s}  BY <1>9 DEF CompleteStep
  <2>5. met' => earned' = Steps  BY <1>0, <2>3, <2>4
  <2> QED  BY <1>8, <1>9, <2>1, <2>2, <2>4, <2>5 DEF CompleteStep
<1>10. CASE ObjectivesMet
  <2>1. earned' = earned \cup Steps  BY <1>0, <1>10 DEF ObjectivesMet, HistoryOK
  <2>2. kept' \subseteq kept \cup Steps  BY <1>10 DEF ObjectivesMet, Rendered
  <2> QED  BY <1>8, <1>10, <2>1, <2>2 DEF ObjectivesMet
(* Steps are forgotten: every run is overtaken. *)
<1>11. ASSUME NEW s, Forgotten(s), UNCHANGED <<shape, run>>, kept' \subseteq kept \ s, ~met'
       PROVE  HistoryInv'
  <2>1. Steps' = Steps  BY <1>11 DEF Steps
  <2>2. HistoryOK' /\ CompletedIsEarned'
    BY <1>0, <1>11, <2>1 DEF HistoryOK, CompletedIsEarned, Forgotten
  <2>3. \A i \in Instances : Running(i)' => i \in overtaken'  BY <1>11 DEF Forgotten, Running
  <2>4. \A i \in Instances : Behind(i)'  BY <2>3 DEF Behind
  <2> QED  BY <1>11, <2>2, <2>4 DEF HistoryInv, Behind
<1>12. ASSUME NEW s \in Steps, ResetStep(s) PROVE HistoryInv'
  <2>1. kept' = (IF met THEN Steps ELSE kept \ (s..shape.steps)) /\ met' = met
    BY <1>12 DEF ResetStep, Rendered
  <2>2. UNCHANGED <<shape, run>>  BY <1>12 DEF ResetStep, AckCleared
  <2>3. CASE met  BY <1>1, <1>3, <1>12, <2>1, <2>2, <2>3 DEF ResetStep
  <2>4. CASE ~met  BY <1>11, <1>12, <2>1, <2>2, <2>4 DEF ResetStep
  <2> QED  BY <2>3, <2>4
<1>13. CASE ResetSection  BY <1>11, <1>13 DEF ResetSection, AckCleared
<1>14. CASE ResetGuide  BY <1>11, <1>14 DEF ResetGuide, Gone
<1>15. CASE MarkComplete
  <2>1. kept' = (IF met THEN Steps ELSE kept) /\ met' = met  BY <1>15 DEF MarkComplete, Rendered
  <2> QED  BY <1>1, <1>3, <1>15, <2>1 DEF MarkComplete
<1>16. CASE DoSection
  <2>1. PICK s \in Steps : Cursor(s) /\ run' = [run EXCEPT ![mounted] = [at |-> "start", step |-> s]]
    BY <1>16 DEF DoSection
  <2>2. 1..(s - 1) \subseteq kept  BY <1>1, <2>1 DEF Cursor, Steps
  <2>3. UNCHANGED <<shape, kept, met, earned, forged>>
        /\ mounted \in Instances /\ overtaken' = overtaken
    BY <1>1, <1>16 DEF DoSection
  <2>4. Steps' = Steps  BY <2>3 DEF Steps
  <2>5. HistoryOK' /\ CompletedIsEarned'  BY <1>0, <2>3, <2>4 DEF HistoryOK, CompletedIsEarned
  <2>6. ASSUME NEW i \in Instances PROVE Behind(i)'
    <3>1. CASE i = mounted
      <4>1. run'[i] = [at |-> "start", step |-> s]  BY <1>2, <2>1, <3>1
      <4> QED  BY <1>0, <2>2, <2>3, <4>1 DEF Behind, CompletedIsEarned
    <3>2. CASE i # mounted
      <4>1. run'[i] = run[i]  BY <1>2, <2>1, <3>2
      <4> QED  BY <1>0, <2>3, <3>2, <4>1 DEF Behind, Running
    <3> QED  BY <3>1, <3>2
  <2> QED  BY <1>0, <2>3, <2>4, <2>5, <2>6 DEF HistoryInv, Behind
<1>17. ASSUME NEW i \in Instances, Cancel(i) PROVE HistoryInv'  BY <1>3, <1>17 DEF Cancel
<1>18. ASSUME NEW i \in Instances, RunMoves(i) PROVE HistoryInv'
  <2>1. run[i].at # "idle" => run[i].step \in Nat \ {0} /\ run[i].step \in Steps /\ Running(i)
    BY <1>1, <1>2 DEF Running, Steps
  <2>2. i \notin overtaken /\ run[i].at # "idle" =>
          /\ 1..(run[i].step - 1) \subseteq earned \cup forged
          /\ run[i].at = "rest" => run[i].step \in earned
    BY <1>0 DEF Behind, Running
  <2>3. run[i].at # "idle" => /\ run[i].step + 1 \in Nat \ {0}
                              /\ 1..((run[i].step + 1) - 1) \subseteq 1..(run[i].step - 1) \cup {run[i].step}
    BY <2>1
  <2>4. ASSUME UNCHANGED <<shape, kept, met, earned, forged>>,
               \A j \in Instances \ {i} : j \in overtaken' <=> j \in overtaken,
               NEW r, run' = [run EXCEPT ![i] = r], r.at \in {"idle", "gate"},
               r.at = "gate" => r.step = run[i].step /\ overtaken' = overtaken, Running(i)
        PROVE  HistoryInv'
    <3>1. Steps' = Steps  BY <2>4 DEF Steps
    <3>2. HistoryOK' /\ CompletedIsEarned'  BY <1>0, <2>4, <3>1 DEF HistoryOK, CompletedIsEarned
    <3>3. ASSUME NEW j \in Instances PROVE Behind(j)'
      <4>1. CASE j = i
        <5>1. run'[i] = r  BY <1>2, <2>4
        <5> QED  BY <1>0, <2>4, <4>1, <5>1 DEF Behind, Running
      <4>2. CASE j # i
        <5>1. run'[j] = run[j]  BY <1>2, <2>4, <4>2
        <5> QED  BY <1>0, <2>4, <4>2, <5>1 DEF Behind, Running
      <4> QED  BY <4>1, <4>2
    <3> QED  BY <1>0, <2>4, <3>1, <3>2, <3>3 DEF HistoryInv, Behind
  <2>5. CASE Starts(i)
    <3>1. run[i].at # "idle" /\ run' = [run EXCEPT ![i] = [run[i] EXCEPT !.at = "gate"]]
          /\ UNCHANGED <<shape, kept, met, earned, forged, overtaken>>
      BY <2>5 DEF Starts
    <3>2. [run[i] EXCEPT !.at = "gate"].at = "gate" /\ [run[i] EXCEPT !.at = "gate"].step = run[i].step
      BY <1>2
    <3> QED  BY <2>1, <2>4, <3>1, <3>2
  <2>6. CASE GateOpens(i)
    <3>1. run[i].at # "idle" /\ RunFrame /\ Turn(i, run[i].step, Raised(Of(i, 0)), {}, {})
      BY <2>6 DEF GateOpens
    <3> QED  BY <2>1, <2>2, <3>1, TurnHistory
  <2>7. CASE GateStays(i)
    BY <2>1, <2>4, <2>7 DEF GateStays, Idled, Idle
  <2>8. CASE StepSucceeds(i)
    <3>1. PICK up : /\ StepEnds(i, up) /\ RunFrame
                    /\ IF run[i].step < shape.steps
                       THEN /\ run' = [run EXCEPT ![i].at = "rest"] /\ UNCHANGED overtaken
                            /\ Records(i, {run[i].step}, {run[i].step})
                       ELSE Turn(i, run[i].step + 1, up, {run[i].step}, {run[i].step})
      BY <2>8 DEF StepSucceeds
    <3>2. run[i].at # "idle"  BY <3>1 DEF StepEnds
    <3>3. {run[i].step} \in SUBSET Steps  BY <2>1, <3>2
    <3>4. CASE run[i].step < shape.steps
      <4>1. /\ run' = [run EXCEPT ![i].at = "rest"] /\ UNCHANGED overtaken
            /\ Records(i, {run[i].step}, {run[i].step})
        BY <3>1, <3>4
      <4>2. /\ HistoryOK' /\ CompletedIsEarned' /\ (met' => earned' = Steps')
            /\ earned \subseteq earned' /\ {run[i].step} \subseteq earned' /\ forged \subseteq forged'
        BY <3>1, <3>3, <4>1, RecordsHistory
      <4>3. ASSUME NEW j \in Instances PROVE Behind(j)'
        <5>1. CASE j = i
          <6>1. run'[i].at = "rest" /\ run'[i].step = run[i].step  BY <1>2, <4>1
          <6> QED  BY <2>2, <3>2, <4>1, <4>2, <5>1, <6>1 DEF Behind
        <5>2. CASE j # i
          <6>1. run'[j] = run[j]  BY <1>2, <4>1, <5>2
          <6> QED  BY <1>0, <4>1, <4>2, <6>1 DEF Behind, Running
        <5> QED  BY <5>1, <5>2
      <4> QED  BY <4>2, <4>3 DEF HistoryInv, Behind
    <3>5. CASE ~(run[i].step < shape.steps)
      <4>1. Turn(i, run[i].step + 1, up, {run[i].step}, {run[i].step})  BY <3>1, <3>5
      <4> QED  BY <2>2, <2>3, <3>1, <3>2, <3>3, <4>1, TurnHistory
    <3> QED  BY <3>4, <3>5
  <2>9. CASE Rested(i)
    <3>1. run[i].at = "rest" /\ RunFrame /\ Turn(i, run[i].step + 1, overlay, {}, {})  BY <2>9 DEF Rested
    <3> QED  BY <2>2, <2>3, <3>1, TurnHistory
  <2>10. CASE StepSkipped(i)
    <3> DEFINE marks == IF i = mounted /\ run[i].step \notin shape.multi THEN {run[i].step} ELSE {}
    <3>1. run[i].at # "idle" /\ RunFrame /\ Turn(i, run[i].step + 1, overlay, marks, {run[i].step})
      BY <2>10 DEF StepSkipped
    <3>2. {run[i].step} \in SUBSET Steps /\ marks \in SUBSET {run[i].step}  BY <2>1, <3>1
    <3> HIDE DEF marks
    <3> QED  BY <2>2, <2>3, <3>1, <3>2, TurnHistory
  <2>11. CASE StepFails(i)
    <3>1. /\ run[i].at # "idle" /\ RunFrame /\ Records(i, {}, {})
          /\ run' = [run EXCEPT ![i] = Idle] /\ overtaken' = overtaken \ {i}
      BY <2>11 DEF StepFails, StepEnds, End, Idled
    <3>2. /\ HistoryOK' /\ CompletedIsEarned' /\ (met' => earned' = Steps')
          /\ earned \subseteq earned' /\ forged \subseteq forged'
      BY <3>1, {} \in SUBSET Steps, RecordsHistory
    <3>3. ASSUME NEW j \in Instances PROVE Behind(j)'
      <4>1. CASE j = i
        <5>1. ~Running(j)'  BY <1>2, <3>1, <4>1 DEF Running, Idle
        <5> QED  BY <5>1 DEF Behind
      <4>2. CASE j # i
        <5>1. run'[j] = run[j] /\ (j \in overtaken' <=> j \in overtaken)  BY <1>2, <3>1, <4>2
        <5> QED  BY <1>0, <3>2, <5>1 DEF Behind, Running
      <4> QED  BY <4>1, <4>2
    <3> QED  BY <3>2, <3>3 DEF HistoryInv, Behind
  <2>12. CASE StepCalls(i)
    <3>1. run' = [run EXCEPT ![i].at = "inner"] /\ run[i].at = "busy"
          /\ UNCHANGED <<shape, kept, met, earned, forged, overtaken>>
      BY <2>12 DEF StepCalls
    <3>2. Steps' = Steps  BY <3>1 DEF Steps
    <3>3. HistoryOK' /\ CompletedIsEarned'  BY <1>0, <3>1, <3>2 DEF HistoryOK, CompletedIsEarned
    <3>4. ASSUME NEW j \in Instances PROVE Behind(j)'
      <4>1. CASE j = i
        <5>1. run'[i].at = "inner" /\ run'[i].step = run[i].step  BY <1>2, <3>1
        <5> QED  BY <2>2, <3>1, <4>1, <5>1 DEF Behind
      <4>2. CASE j # i
        <5>1. run'[j] = run[j]  BY <1>2, <3>1, <4>2
        <5> QED  BY <1>0, <3>1, <5>1 DEF Behind, Running
      <4> QED  BY <4>1, <4>2
    <3> QED  BY <1>0, <3>1, <3>2, <3>3, <3>4 DEF HistoryInv, Behind
  <2> QED  BY <1>18, <2>5, <2>6, <2>7, <2>8, <2>9, <2>10, <2>11, <2>12 DEF RunMoves
<1>19. CASE UNCHANGED vars  BY <1>3, <1>19 DEF vars
<1>20. CASE ElsewhereStarts \/ ElsewhereEnds
  BY <1>3, <1>20 DEF ElsewhereStarts, ElsewhereEnds, ElsewhereFrame
<1>21. ASSUME NEW s \in Steps, OwnRun(s) PROVE HistoryInv'  BY <1>3, <1>21 DEF OwnRun
<1>22. ASSUME NEW p \in Instances \X Steps, MultiMoves(p) PROVE HistoryInv'
  <2>1. CASE Says(p)
    <3>1. PICK marks : /\ marks \in SUBSET {p[2]} /\ Marked(marks) /\ earned' = earned \cup marks
                       /\ UNCHANGED <<shape, run, overtaken, forged, active, mounted, ackKept, restored>>
      BY <2>1 DEF Says
    <3>2. PageInv /\ marks \in SUBSET Steps  BY <3>1 DEF Inv
    <3>3. kept' \subseteq kept \cup marks  BY <3>1, <3>2, MarkedKept
    <3>4. UNCHANGED met  BY <3>1, <3>2, MarkedPage
    <3>5. met' => earned' = Steps  BY <1>0, <3>1, <3>2, <3>4
    <3> QED  BY <1>8, <3>1, <3>2, <3>3, <3>5
  <2>2. CASE UNCHANGED <<shape, section, component, run, earned, overtaken, forged>>
    BY <1>3, <2>2
  <2> QED  BY <1>22, <2>1, <2>2 DEF MultiMoves, MultiCompletesEarly, MultiActs, MultiEnds
<1> QED
  BY <1>4, <1>5, <1>6, <1>7, <1>9, <1>10, <1>12, <1>13, <1>14, <1>15, <1>16, <1>17, <1>18, <1>19, <1>20,
     <1>21, <1>22 DEF Next

-----------------------------------------------------------------------------

LEMMA InitInv == Init => Inv
<1> SUFFICES ASSUME Init PROVE Inv
  OBVIOUS
<1> USE DEF Init
<1>1. shape \in Shapes /\ shape.steps \in Nat  BY ShapesAssumption
<1>2. PageOK /\ PageShows /\ AckNeedsCompletion /\ DoneBit
  BY <1>1 DEF PageOK, PageShows, AckNeedsCompletion, DoneBit
<1>3. (\A i \in Instances : ~Running(i) /\ ~Acting(i))
      /\ \A p \in Pairs : ~Executing(p) /\ multi[p].at = "idle"
  BY DEF Running, Acting, Idle, Executing, Unrun, Pairs
<1>4. /\ Idle \in [at : Phases, step : 0..shape.steps]
      /\ Unrun \in [at : MultiPhases, owes : BOOLEAN]
      /\ Down \in [by : Instances \cup {Elsewhere, None}, step : 0..shape.steps]
  BY <1>1 DEF Idle, Phases, Unrun, Down, Of
<1>5. RunsOK  BY <1>3, <1>4 DEF RunsOK
<1>6. RunsInv
  <2>1. CancelReaches  BY <1>3 DEF CancelReaches, Pairs
  <2>2. OverlayIsOfARun  BY DEF OverlayIsOfARun
  <2>3. Alone  BY <1>3 DEF Alone
  <2> QED  BY <1>5, <2>1, <2>2, <2>3 DEF RunsInv
<1>7. HistoryInv  BY <1>3 DEF HistoryInv, HistoryOK, CompletedIsEarned
<1> QED  BY <1>2, <1>6, <1>7 DEF Inv, PageInv

(* The inductive invariant holds for every shape of a section and any number of *)
(* instances.                                                                   *)
THEOREM Invariance == Spec => []Inv
<1>1. Inv /\ [Next]_vars => Inv'  BY PageStep, RunsStep, HistoryStep DEF Inv
<1> QED  BY InitInv, <1>1, PTL DEF Spec

(* Every variable of the section keeps its type: a run is at a step of it. *)
THEOREM TypeCorrect == Spec => []TypeOK
<1>1. Inv => TypeOK  BY TypeParts DEF Inv, PageInv, RunsInv, HistoryInv
<1> QED  BY Invariance, <1>1, PTL

(* An acknowledged section has all of its steps, whatever is reset, restored or run. *)
THEOREM AckNeeded == Spec => []AckNeedsCompletion
<1>1. Inv => AckNeedsCompletion  BY DEF Inv, PageInv
<1> QED  BY Invariance, <1>1, PTL

(* The done bit is that of a section with its steps and its acknowledgement, and a *)
(* mounted section's is what it shows.                                             *)
THEOREM DoneTrue == Spec => []DoneBit
<1>1. Inv => DoneBit  BY DEF Inv, PageInv
<1> QED  BY Invariance, <1>1, PTL

(* Cancelled, paused, failed and abandoned runs complete nothing that was not done, *)
(* unless a reset has overtaken them.                                               *)
THEOREM Earned == Spec => []CompletedIsEarned
<1>1. Inv => CompletedIsEarned  BY DEF Inv, HistoryInv
<1> QED  BY Invariance, <1>1, PTL

(* What acts on the page, a run of the section or a multi-step run by its own button, *)
(* is behind an overlay that cancels it, as long as no other user of the overlay has  *)
(* been under way meanwhile and the panel has not been closed.                        *)
THEOREM Reaches == Spec => []CancelReaches
<1>1. Inv => CancelReaches  BY DEF Inv, RunsInv
<1> QED  BY Invariance, <1>1, PTL

(* Whatever runs and multi-steps end, are cancelled or start again, and whoever takes *)
(* the overlay down, it is never that of one that is over or has not begun to act.     *)
THEOREM OverlayHeld == Spec => []OverlayIsOfARun
<1>1. Inv => OverlayIsOfARun  BY DEF Inv, RunsInv
<1> QED  BY Invariance, <1>1, PTL
=============================================================================
