-------------------------- MODULE StepCheckerProofs --------------------------
(***************************************************************************)
(* Proofs about StepChecker, for any number of overlapping checks and of   *)
(* retries.                                                                *)
(***************************************************************************)
EXTENDS StepChecker, TLAPS

StepOK ==
  /\ step \in [status : Statuses, reason : Reasons, canFix : BOOLEAN]
  /\ step.status = "completed" => step.reason # "none"
  /\ step.canFix => step.status \in {"checking", "blocked"}

DisabledOK == disabled \in {b \in BOOLEAN : b => has \in InSection}

FlagsOK == managerDone \in BOOLEAN /\ stored \in BOOLEAN /\ settling \in BOOLEAN

ChecksOK ==
  check \in [Checks -> [phase : {"none", "objectives", "requirements", "waiting"},
                        answer : {"pending", "pass", "fail"}, tries : 0..MaxRetries[has]]]

(* A check waits only for a retry that it has left. *)
RetriesLeft == \A k \in Checks : check[k].phase = "waiting" => check[k].tries < MaxRetries[has]

Running == \E k \in Checks : check[k] # NoCheck

(* A fix cannot be what shows the spinner of a step that has just been enabled:  *)
(* it does not start then, and whatever enables the step ends its spinner.       *)
SettlingIsChecked == step.status = "checking" /\ settling => Running

Inv ==
  /\ TypeOK /\ RetriesLeft
  /\ DoneIsStored /\ SpinnerHasCause /\ SettlingIsChecked

(* What a handler that ends or starts check k leaves behind. *)
Kept(k) ==
  /\ StepOK' /\ FlagsOK' /\ DoneIsStored'
  /\ ChecksOK' /\ RetriesLeft'
  /\ step'.status = "checking" => check'[k] # NoCheck

-----------------------------------------------------------------------------

LEMMA TypeParts ==
  TypeOK <=>
    /\ has \in Guides /\ met \subseteq has
    /\ gate \in {"open", "closed", "paused"}
    /\ DisabledOK /\ StepOK /\ FlagsOK /\ due \in BOOLEAN
    /\ seen \in Views /\ ChecksOK /\ fix \in Views \cup {"none"}
BY DEF TypeOK, StepOK, FlagsOK, ChecksOK, DisabledOK

LEMMA StartCheckType ==
  ASSUME StepOK
  PROVE  /\ StartCheck(step) \in [status : Statuses, reason : Reasons, canFix : BOOLEAN]
         /\ StartCheck(step).status \in {"checking", "completed"}
         /\ StartCheck(step).status = "completed" => StartCheck(step) = step
         /\ StartCheck(step).reason = step.reason
BY DEF StepOK, StartCheck, Statuses, Reasons

LEMMA AsksKeeps ==
  ASSUME ChecksOK, RetriesLeft, UNCHANGED has, NEW k \in Checks,
         NEW phase \in {"objectives", "requirements", "waiting"},
         NEW tries \in 0..MaxRetries[has],
         phase = "waiting" => tries < MaxRetries[has],
         Asks(k, phase, tries)
  PROVE  ChecksOK' /\ RetriesLeft' /\ check'[k] # NoCheck
BY DEF ChecksOK, RetriesLeft, Asks, NoCheck

LEMMA RetriesNat == ASSUME has \in Guides PROVE MaxRetries[has] \in Nat
BY MaxRetriesAssumption

LEMMA EndsKeeps ==
  ASSUME has \in Guides, ChecksOK, RetriesLeft, UNCHANGED has, NEW k \in Checks, Ends(k)
  PROVE  ChecksOK' /\ RetriesLeft'
BY RetriesNat DEF ChecksOK, RetriesLeft, Ends, NoCheck

(* A verdict keeps the step well formed, and ends its spinner. *)
LEMMA VerdictKeeps ==
  ASSUME StepOK, FlagsOK, DoneIsStored, UNCHANGED disabled,
         Blocks \/ Fails \/ Enables \/ MeetsObjectives
  PROVE  StepOK' /\ FlagsOK' /\ DoneIsStored' /\ step'.status # "checking"
<1>1. CASE Blocks
  BY <1>1 DEF Blocks, SetBlocked, StepOK, FlagsOK, DoneIsStored, Statuses, Reasons
<1>2. CASE Fails
  BY <1>2 DEF Fails, SetError, StepOK, FlagsOK, DoneIsStored, Statuses, Reasons
<1>3. CASE Enables
  BY <1>3 DEF Enables, SetEnabled, StepOK, FlagsOK, DoneIsStored, Statuses, Reasons
<1>4. CASE MeetsObjectives
  BY <1>4 DEF MeetsObjectives, SetCompleted, StepOK, FlagsOK, DoneIsStored, Statuses, Reasons
<1> QED BY <1>1, <1>2, <1>3, <1>4

(* The phases after the objectives. *)
LEMMA GoesOnKeeps ==
  ASSUME has \in Guides, StepOK, FlagsOK, DoneIsStored, ChecksOK, RetriesLeft, UNCHANGED <<has, disabled>>,
         NEW k \in Checks, NEW g, NEW s \in {step, StartCheck(step)}, GoesOn(k, g, s)
  PROVE  Kept(k)
<1>1. CASE Blocks /\ Ends(k)
  BY <1>1, VerdictKeeps, EndsKeeps DEF Kept
<1>2. CASE /\ Asks(k, "requirements", 0)
           /\ step' = s /\ UNCHANGED <<managerDone, stored, settling>>
  <2>1. ChecksOK' /\ RetriesLeft' /\ check'[k] # NoCheck
    BY <1>2, AsksKeeps, RetriesNat
  <2>2. StepOK' /\ step'.reason = step.reason
    BY <1>2, StartCheckType DEF StepOK
  <2>3. FlagsOK' BY <1>2 DEF FlagsOK
  <2>4. DoneIsStored' BY <1>2, <2>2 DEF DoneIsStored
  <2> QED BY <2>1, <2>2, <2>3, <2>4 DEF Kept
<1>3. CASE Enables /\ Ends(k)
  BY <1>3, VerdictKeeps, EndsKeeps DEF Kept
<1> QED BY <1>1, <1>2, <1>3 DEF GoesOn

(* A check, up to its first await. *)
LEMMA BeginsKeeps ==
  ASSUME has \in Guides, StepOK, FlagsOK, DoneIsStored, ChecksOK, RetriesLeft, UNCHANGED <<has, disabled>>,
         NEW k \in Checks, NEW g, Begins(k, g)
  PROVE  Kept(k)
<1>1. CASE Blocks /\ Ends(k)
  BY <1>1, VerdictKeeps, EndsKeeps DEF Kept
<1>2. CASE /\ Asks(k, "objectives", 0)
           /\ step' = StartCheck(step) /\ UNCHANGED <<managerDone, stored, settling>>
  <2>1. ChecksOK' /\ RetriesLeft' /\ check'[k] # NoCheck
    BY <1>2, AsksKeeps, RetriesNat
  <2>2. StepOK' /\ step'.reason = step.reason
    BY <1>2, StartCheckType DEF StepOK
  <2>3. FlagsOK' BY <1>2 DEF FlagsOK
  <2>4. DoneIsStored' BY <1>2, <2>2 DEF DoneIsStored
  <2> QED BY <2>1, <2>2, <2>3, <2>4 DEF Kept
<1>3. CASE GoesOn(k, g, StartCheck(step))
  BY <1>3, GoesOnKeeps
<1> QED BY <1>1, <1>2, <1>3 DEF Begins

(* Who keeps the rest of the state, and leaves a cause to a spinner, keeps Inv. *)
LEMMA KeptIsEnough ==
  ASSUME Inv, NEW k \in Checks, Kept(k),
         UNCHANGED <<has, disabled>>, met' \subseteq has', gate' \in {"open", "closed", "paused"},
         seen' \in Views, fix' \in Views \cup {"none"}, due' \in BOOLEAN
  PROVE  Inv'
<1>1. TypeOK' BY TypeParts DEF Inv, TypeOK, StepOK, FlagsOK, ChecksOK, DisabledOK, Kept
<1>2. SpinnerHasCause' /\ SettlingIsChecked'
  BY DEF Kept, SpinnerHasCause, SettlingIsChecked, Running
<1> QED BY <1>1, <1>2 DEF Inv, Kept

-----------------------------------------------------------------------------

LEMMA InitInv == Init => Inv
<1> SUFFICES ASSUME Init PROVE Inv OBVIOUS
<1>1. TypeOK
  <2>1. StepOK BY DEF Init, StepOK, Statuses, Reasons
  <2>2. ChecksOK BY RetriesNat DEF Init, ChecksOK, NoCheck
  <2>3. FlagsOK /\ due \in BOOLEAN BY DEF Init, FlagsOK
  <2>4. DisabledOK BY DEF Init, DisabledOK
  <2> QED BY <2>1, <2>2, <2>3, <2>4, TypeParts DEF Init, Views
<1>2. RetriesLeft BY DEF Init, RetriesLeft, NoCheck
<1>3. DoneIsStored /\ SpinnerHasCause /\ SettlingIsChecked
  BY DEF Init, DoneIsStored, SpinnerHasCause, SettlingIsChecked
<1> QED BY <1>1, <1>2, <1>3 DEF Inv

LEMMA GateMovesInv ==
  ASSUME Inv, NEW g \in {"open", "closed", "paused"}, GateMoves(g)
  PROVE  Inv'
<1> USE DEF world
<1>1. has \in Guides /\ StepOK /\ FlagsOK /\ ChecksOK /\ UNCHANGED <<has, met, disabled, fix, due>> /\ gate' = g
  BY TypeParts DEF Inv, GateMoves
<1>2. View(step) \in Views /\ (View(step) = "checking" <=> step.status = "checking")
  BY DEF View, Views
<1>3. CASE Idles /\ UNCHANGED seen
  BY <1>1, <1>3 DEF Inv, Idles, TypeOK, RetriesLeft, DoneIsStored, SpinnerHasCause, SettlingIsChecked,
                    Running, Blind
<1>4. CASE Idles /\ seen' = View(step)
  BY <1>1, <1>2, <1>4 DEF Inv, Idles, TypeOK, RetriesLeft, DoneIsStored, SpinnerHasCause,
                         SettlingIsChecked, Running, Blind
<1>5. CASE seen' = View(step) /\ \E k \in Checks : Begins(k, g)
  <2>1. PICK k \in Checks : Begins(k, g) BY <1>5
  <2>2. Kept(k) BY <1>1, <2>1, BeginsKeeps DEF Inv
  <2> QED BY <1>1, <1>2, <1>5, <2>2, KeptIsEnough, TypeParts DEF Inv
<1> QED BY <1>3, <1>4, <1>5 DEF GateMoves

LEMMA BeginningInv ==
  ASSUME Inv, NEW k \in Checks, NEW g, Begins(k, g),
         UNCHANGED <<world, seen>>, fix' \in {fix, "none"}, due' \in {due, FALSE}
  PROVE  Inv'
<1>1. Kept(k) BY BeginsKeeps, TypeParts DEF Inv, world
<1> QED BY <1>1, KeptIsEnough, TypeParts DEF Inv, world

LEMMA RecheckInv == ASSUME Inv, Recheck PROVE Inv'
<1>1. PICK k \in Checks : Begins(k, gate) BY DEF Recheck
<1> QED BY <1>1, BeginningInv DEF Recheck

LEMMA DueCheckInv == ASSUME Inv, DueCheck PROVE Inv'
<1>1. CASE Idles
  BY <1>1 DEF Inv, DueCheck, Idles, world, TypeOK, RetriesLeft, DoneIsStored, SpinnerHasCause,
              SettlingIsChecked, Running, Blind
<1>2. CASE \E k \in Checks : Begins(k, gate)
  <2>1. PICK k \in Checks : Begins(k, gate) BY <1>2
  <2> QED BY <2>1, BeginningInv DEF DueCheck
<1> QED BY <1>1, <1>2 DEF DueCheck

(* A new question, or an answer that is not used yet. *)
LEMMA AskedInv ==
  ASSUME Inv, NEW k \in Checks, ChecksOK', RetriesLeft', check'[k] # NoCheck,
         UNCHANGED <<world, step, managerDone, stored, seen, settling, fix, due>>
  PROVE  Inv'
<1>1. Kept(k)
  BY TypeParts DEF Inv, Kept, StepOK, FlagsOK, DoneIsStored, world
<1> QED BY <1>1, KeptIsEnough, TypeParts DEF Inv, world

LEMMA RevalidateInv == ASSUME Inv, NEW k \in Checks, Revalidate(k) PROVE Inv'
<1>1. ChecksOK' /\ RetriesLeft' /\ check'[k] # NoCheck
  BY AsksKeeps, RetriesNat, TypeParts DEF Inv, Revalidate, world
<1> QED BY <1>1, AskedInv DEF Revalidate

LEMMA AnswerInv == ASSUME Inv, NEW k \in Checks, Answer(k) PROVE Inv'
<1>1. PICK a \in {"pass", "fail"} : check' = [check EXCEPT ![k].answer = a]
  BY DEF Answer
<1>2. ChecksOK /\ RetriesLeft /\ UNCHANGED has
  BY TypeParts DEF Inv, Answer, world
<1>3. ChecksOK' BY <1>1, <1>2 DEF ChecksOK
<1>4. RetriesLeft' BY <1>1, <1>2 DEF ChecksOK, RetriesLeft
<1>5. check'[k] # NoCheck BY <1>1, <1>2 DEF ChecksOK, Answer, NoCheck
<1> QED BY <1>3, <1>4, <1>5, AskedInv DEF Answer

LEMMA TryAgainInv == ASSUME Inv, NEW k \in Checks, TryAgain(k) PROVE Inv'
<1>1. check[k].tries + 1 \in 0..MaxRetries[has]
  BY TypeParts, RetriesNat DEF Inv, TryAgain, RetriesLeft, ChecksOK
<1>2. ChecksOK' /\ RetriesLeft' /\ check'[k] # NoCheck
  BY <1>1, AsksKeeps, TypeParts DEF Inv, TryAgain, world
<1> QED BY <1>2, AskedInv DEF TryAgain

LEMMA ObjectivesInv == ASSUME Inv, NEW k \in Checks, ObjectivesAnswered(k) PROVE Inv'
<1>1. Kept(k)
  <2>1. CASE MeetsObjectives /\ Ends(k)
    BY <2>1, VerdictKeeps, EndsKeeps, TypeParts DEF Inv, Kept, ObjectivesAnswered, world
  <2>2. CASE GoesOn(k, gate, step)
    BY <2>2, GoesOnKeeps, TypeParts DEF Inv, ObjectivesAnswered, world
  <2> QED BY <2>1, <2>2 DEF ObjectivesAnswered
<1> QED BY <1>1, KeptIsEnough, TypeParts DEF Inv, ObjectivesAnswered, world

LEMMA RequirementsInv == ASSUME Inv, NEW k \in Checks, RequirementsAnswered(k) PROVE Inv'
<1>1. CASE (Enables \/ Fails) /\ Ends(k)
  <2>1. Kept(k)
    BY <1>1, VerdictKeeps, EndsKeeps, TypeParts DEF Inv, Kept, RequirementsAnswered, world
  <2> QED BY <2>1, KeptIsEnough, TypeParts DEF Inv, RequirementsAnswered, world
<1>2. CASE /\ check[k].tries < MaxRetries[has] /\ Asks(k, "waiting", check[k].tries)
           /\ UNCHANGED <<step, managerDone, stored, settling>>
  <2>1. check[k].tries \in 0..MaxRetries[has] BY TypeParts DEF Inv, ChecksOK
  <2>2. ChecksOK' /\ RetriesLeft' /\ check'[k] # NoCheck
    BY <1>2, <2>1, AsksKeeps, TypeParts DEF Inv, RequirementsAnswered, world
  <2> QED BY <1>2, <2>2, AskedInv DEF RequirementsAnswered
<1> QED BY <1>1, <1>2 DEF RequirementsAnswered

-----------------------------------------------------------------------------

LEMMA StartFixInv == ASSUME Inv, StartFix PROVE Inv'
<1>1. StepOK /\ DoneIsStored /\ seen \in Views BY TypeParts DEF Inv
<1>2. step.status \in {"checking", "blocked"} /\ StartCheck(step) = [step EXCEPT !.status = "checking"]
  BY <1>1 DEF StepOK, StartFix, StartCheck
<1>3. StepOK' /\ step'.reason = step.reason
  BY <1>1, <1>2, StartCheckType DEF StepOK, StartFix
<1>4. TypeOK' BY <1>1, <1>3, TypeParts DEF Inv, StartFix, world, TypeOK, StepOK
<1>5. RetriesLeft' /\ DoneIsStored'
  BY <1>3 DEF Inv, StartFix, world, RetriesLeft, DoneIsStored
<1>6. SpinnerHasCause' BY <1>1 DEF StartFix, SpinnerHasCause, Blind, Views
<1>7. SettlingIsChecked' BY DEF StartFix, SettlingIsChecked
<1> QED BY <1>4, <1>5, <1>6, <1>7 DEF Inv

LEMMA FixFailsInv == ASSUME Inv, FixFails PROVE Inv'
<1>1. StepOK /\ DoneIsStored BY TypeParts DEF Inv
<1>2. StepOK' /\ step'.reason = step.reason /\ step'.status = "blocked"
  BY <1>1 DEF StepOK, FixFails, SetError, Statuses
<1>3. TypeOK' BY <1>2, TypeParts DEF Inv, FixFails, world, TypeOK, StepOK
<1>4. RetriesLeft' /\ DoneIsStored'
  BY <1>2 DEF Inv, FixFails, world, RetriesLeft, DoneIsStored
<1>5. SpinnerHasCause' /\ SettlingIsChecked'
  BY <1>2 DEF SpinnerHasCause, SettlingIsChecked
<1> QED BY <1>3, <1>4, <1>5 DEF Inv

LEMMA FixWorksInv == ASSUME Inv, FixWorks PROVE Inv'
<1>1. CASE Returns(fix) /\ Idles
  <2>1. TypeOK' /\ RetriesLeft' /\ DoneIsStored' /\ SettlingIsChecked'
    BY <1>1 DEF Inv, FixWorks, Idles, world, TypeOK, RetriesLeft, DoneIsStored, SettlingIsChecked, Running
  <2>2. SpinnerHasCause'
    BY <1>1 DEF Inv, FixWorks, Idles, Returns, SpinnerHasCause, SettlingIsChecked, Running, Blind
  <2> QED BY <2>1, <2>2 DEF Inv
<1>2. CASE \E k \in Checks : Begins(k, gate)
  <2>1. PICK k \in Checks : Begins(k, gate) BY <1>2
  <2> QED BY <2>1, BeginningInv DEF FixWorks
<1> QED BY <1>1, <1>2 DEF FixWorks

(* Skipping and resetting end a spinner. *)
LEMMA EndedInv ==
  ASSUME Inv, StepOK', DoneIsStored', step'.status # "checking", FlagsOK', due' \in BOOLEAN,
         UNCHANGED <<world, seen, check, fix>>
  PROVE  Inv'
<1>1. TypeOK' BY TypeParts DEF Inv, world, TypeOK, StepOK, FlagsOK
<1>2. RetriesLeft' BY DEF Inv, RetriesLeft, world
<1>3. SpinnerHasCause' /\ SettlingIsChecked' BY DEF SpinnerHasCause, SettlingIsChecked
<1> QED BY <1>1, <1>2, <1>3 DEF Inv

(* The section disables a step or enables it again. *)
LEMMA DisabledMovesInv == ASSUME Inv, DisabledMoves PROVE Inv'
<1>1. StepOK /\ FlagsOK /\ DisabledOK BY TypeParts DEF Inv
<1>2. disabled' = ~disabled /\ has \in InSection
      /\ UNCHANGED <<has, met, gate, step, managerDone, seen, settling, check, fix, due>>
  BY DEF DisabledMoves
<1>3. stored' \in BOOLEAN /\ (stored => stored') BY <1>1 DEF DisabledMoves, FlagsOK
<1>4. disabled' \in {b \in BOOLEAN : b => has' \in InSection} BY <1>1, <1>2 DEF DisabledOK
<1>5. TypeOK' BY <1>2, <1>3, <1>4 DEF Inv, TypeOK
<1>6. DoneIsStored' BY <1>1, <1>2, <1>3 DEF Inv, DoneIsStored, DisabledMoves, DisabledOK, StepOK, Reasons
<1>7. RetriesLeft' /\ SpinnerHasCause' /\ SettlingIsChecked'
  BY <1>2 DEF Inv, RetriesLeft, SpinnerHasCause, SettlingIsChecked, Running, Blind
<1> QED BY <1>5, <1>6, <1>7 DEF Inv

LEMMA SkipInv == ASSUME Inv, Skip PROVE Inv'
<1>1. StepOK /\ FlagsOK /\ due \in BOOLEAN BY TypeParts DEF Inv
<1>2. StepOK' /\ step'.status = "completed"
  BY <1>1 DEF Skip, SetCompleted, StepOK, Statuses, Reasons
<1>3. DoneIsStored' BY DEF Skip, DoneIsStored
<1>4. FlagsOK' BY <1>1 DEF Skip, FlagsOK
<1> QED BY <1>1, <1>2, <1>3, <1>4, EndedInv DEF Skip

LEMMA ResetInv == ASSUME Inv, Redo \/ SectionReset PROVE Inv'
<1>1. StepOK /\ FlagsOK BY TypeParts DEF Inv
<1>2. ResetStep /\ stored' \in {stored, FALSE} BY DEF Redo, SectionReset
<1>3. StepOK' /\ step'.reason = "none" /\ step'.status = "idle"
  BY <1>2 DEF ResetStep, Reset, StepOK, Statuses, Reasons
<1>4. DoneIsStored' BY <1>3 DEF DoneIsStored
<1>5. FlagsOK' BY <1>1, <1>2 DEF ResetStep, FlagsOK
<1> QED BY <1>2, <1>3, <1>4, <1>5, EndedInv DEF ResetStep

LEMMA DoneInv == ASSUME Inv, Done PROVE Inv'
BY DEF Inv, Done, world, TypeOK, RetriesLeft, DoneIsStored, SpinnerHasCause, SettlingIsChecked, Running, Blind

LEMMA WorldMovesInv == ASSUME Inv, WorldMoves PROVE Inv'
BY DEF Inv, WorldMoves, TypeOK, RetriesLeft, DoneIsStored, SpinnerHasCause, SettlingIsChecked, Running, Blind

LEMMA SettlesInv == ASSUME Inv, Settles PROVE Inv'
BY DEF Inv, Settles, world, TypeOK, RetriesLeft, DoneIsStored, SpinnerHasCause, SettlingIsChecked, Running, Blind

LEMMA StutterInv == ASSUME Inv, UNCHANGED vars PROVE Inv'
BY DEF Inv, vars, world, TypeOK, RetriesLeft, DoneIsStored, SpinnerHasCause, SettlingIsChecked, Running, Blind

LEMMA NextInv == Inv /\ [Next]_vars => Inv'
<1> SUFFICES ASSUME Inv, [Next]_vars PROVE Inv' OBVIOUS
<1>1. CASE \E g \in {"open", "closed", "paused"} : GateMoves(g) BY <1>1, GateMovesInv
<1>2. CASE DisabledMoves \/ Recheck \/ DueCheck \/ WorldMoves \/ Settles
  BY <1>2, DisabledMovesInv, RecheckInv, DueCheckInv, WorldMovesInv, SettlesInv
<1>3. CASE \E k \in Checks : CheckStep(k) \/ Revalidate(k)
  BY <1>3, AnswerInv, ObjectivesInv, RequirementsInv, TryAgainInv, RevalidateInv DEF CheckStep
<1>4. CASE StartFix \/ FixStep
  BY <1>4, StartFixInv, FixFailsInv, FixWorksInv DEF FixStep
<1>5. CASE Skip \/ Redo \/ SectionReset \/ Done
  BY <1>5, SkipInv, ResetInv, DoneInv
<1>6. CASE UNCHANGED vars BY <1>6, StutterInv
<1> QED BY <1>1, <1>2, <1>3, <1>4, <1>5, <1>6 DEF Next

(* The inductive invariant. *)
THEOREM Invariance == Spec => []Inv
BY InitInv, NextInv, PTL DEF Spec

(* Every variable of the step checker keeps its type, and a fix is offered only   *)
(* by a step that is blocked or checked.                                          *)
THEOREM TypeCorrect == Spec => []TypeOK
<1>1. Inv => TypeOK BY DEF Inv
<1> QED BY <1>1, Invariance, PTL

(* A step that was skipped, or whose objectives were met, is in the store, but    *)
(* for objectives met while the step is disabled: those are from the moment when  *)
(* it no longer is (step-checker.hook.ts, 814-837 and 916-922).                   *)
THEOREM DoneStored == Spec => []DoneIsStored
<1>1. Inv => DoneIsStored BY DEF Inv
<1> QED BY <1>1, Invariance, PTL

(* A spinner has a check or a fix that will end it, or a closure that is blind.   *)
THEOREM SpinnerEnds == Spec => []SpinnerHasCause
<1>1. Inv => SpinnerHasCause BY DEF Inv
<1> QED BY <1>1, Invariance, PTL
=============================================================================
