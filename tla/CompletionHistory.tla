-------------------------- MODULE CompletionHistory --------------------------
(***************************************************************************)
(* CompletionStore with history variables that remember what the user      *)
(* asked for, so that "a reset stays reset" and "a completed step stays    *)
(* completed" can be stated.  Meant for one tab: between tabs the store    *)
(* promises last-write-wins only (completion-store.ts, 840-842).           *)
(***************************************************************************)
EXTENDS CompletionStore

VARIABLES
    earned,   \* per slot: the steps completed and not reset since, by the user's commands
    unheard,  \* per slot: reset, but the clear tracking of the live read was lost
    rewritten \* per slot: put back in storage between a guide reset's clear and its evict

history == <<earned, unheard, rewritten>>
hvars == <<vars, history>>

HInit ==
    /\ Init
    /\ earned = storage
    /\ unheard = [sl \in Slots |-> {}]
    /\ rewritten = [sl \in Slots |-> {}]

(* What a step leaves in storage although nobody asked for it, while its    *)
(* guide is being reset.                                                    *)
NoteRewritten ==
    rewritten' = [sl \in Slots |->
        IF \E t \in Tabs : KeyOf[sl] \in resetting[t]
        THEN (rewritten[sl] \cup storage'[sl]) \ earned'[sl]
        ELSE rewritten[sl] \ earned'[sl]]

(* A completion that a half-done guide reset swallowed (the cache still had *)
(* the step, so nothing was written) is the reset's to drop.                *)
Earn(t, sl, ids) ==
    /\ earned' = [earned EXCEPT ![sl] = @ \cup
                     IF KeyOf[sl] \in resetting[t] THEN ids \cap storage'[sl] ELSE ids]
    /\ unheard' = [unheard EXCEPT ![sl] = @ \ ids]
    /\ NoteRewritten

(* A reset of ids; heard unless a live read is in flight that no longer     *)
(* tracks clears.                                                           *)
Lose(t, sl, ids) ==
    LET deaf == tab[t][sl].reading /\ tab[t][sl].tracking.kind = "none"
    IN /\ earned' = [earned EXCEPT ![sl] = @ \ ids]
       /\ unheard' = [unheard EXCEPT ![sl] = IF deaf THEN @ \cup ids ELSE @ \ ids]
       /\ rewritten' = [rewritten EXCEPT ![sl] =
            IF KeyOf[sl] \in resetting[t] THEN (@ \cup storage'[sl]) \ earned'[sl] ELSE @ \ ids]

Nothing == UNCHANGED <<earned, unheard>> /\ NoteRewritten

(* The clears a live read was tracking go with an older read's `.then`.     *)
Forgotten(t, sl) ==
    LET v == tab[t][sl]
    IN /\ earned' = earned
       /\ unheard' = [unheard EXCEPT ![sl] = @ \cup
                        IF v.tracking.kind = "all" THEN Steps ELSE v.tracking.ids]
       /\ NoteRewritten

(* The reset buttons are those of a section that has rendered.              *)
HNext ==
    \/ \E t \in Tabs, sl \in Slots :
          \/ (\/ Render(t, sl) \/ ResolveRead(t, sl) \/ HandleStorageEvent(t, sl)) /\ Nothing
          \/ DropStaleRead(t, sl) /\ Forgotten(t, sl)
          \/ \E s \in Steps, r \in Reasons \ {NoReason} :
                MarkStepCompleted(t, sl, s, r) /\ Earn(t, sl, {s})
          \/ \E r \in Reasons \ {NoReason, Skipped} :
                MarkStepsCompleted(t, sl, Roster[sl], r) /\ Earn(t, sl, Roster[sl])
          \/ \E ids \in SUBSET Steps :
                tab[t][sl].hydrated /\ ResetSteps(t, sl, ids) /\ Lose(t, sl, ids)
          \/ tab[t][sl].hydrated /\ ResetSection(t, sl) /\ Lose(t, sl, Steps)
          \/ ReconcileSection(t, sl) /\ Lose(t, sl, Completed(tab[t][sl]) \ Roster[sl])
    \/ \E t \in Tabs, k \in Counted : CountAllCompleted(t, k) /\ Nothing
    \/ \E t \in Tabs, keys \in SUBSET ContentKeys :
          /\ ClearAllForContent(t, keys)
          /\ earned' = [sl \in Slots |-> IF KeyOf[sl] \in keys THEN {} ELSE earned[sl]]
          /\ unheard' = [sl \in Slots |-> IF KeyOf[sl] \in keys THEN {} ELSE unheard[sl]]
          /\ rewritten' = [sl \in Slots |-> IF KeyOf[sl] \in keys THEN {} ELSE rewritten[sl]]
    \/ \E t \in Tabs : (EvictContentCache(t) \/ HandleWipeEvent(t) \/ Reload(t)) /\ Nothing

HSpec == HInit /\ [][HNext]_hvars

(***************************************************************************)
(* Properties                                                              *)
(***************************************************************************)
AtRest(sl) == KeyOf[sl] \notin Preview /\ \A t \in Tabs : Quiet(t, sl)

(* A step the user reset is not in storage again, hence not completed after *)
(* the next hydration either, unless the reset met one of the two windows   *)
(* the history variables name (completion-store.ts, 64-86).                 *)
ResetStepsStayReset ==
    \A sl \in Slots : AtRest(sl) =>
        storage[sl] \subseteq earned[sl] \cup unheard[sl] \cup rewritten[sl]

(* Every step the user completed and did not reset is in storage once the   *)
(* section is at rest: a partial write during hydration is made whole.      *)
CompletedStepsAreStored ==
    \A sl \in Slots : AtRest(sl) /\ Unshadowed(sl) => earned[sl] \subseteq storage[sl]

(* "cleared since hydration began" is remembered until the read resolves    *)
(* (completion-store.ts, 75-81): no window but the guide reset's.           *)
ClearsSurviveHydration ==
    \A sl \in Slots : AtRest(sl) => storage[sl] \subseteq earned[sl] \cup rewritten[sl]

(***************************************************************************)
(* The store of the only tab, seen as a ledger of completed steps.  Guides *)
(* whose stored keys another guide sweeps up, and previews, which are not  *)
(* stored, are none of its business.                                       *)
(***************************************************************************)
OnlyTab == CHOOSE t \in Tabs : TRUE
Bucket(sl) == tab[OnlyTab][sl]
Ledgered == {sl \in Slots : Unshadowed(sl) /\ KeyOf[sl] \notin Preview}

(* What the live read found in storage, and what of it is still to be       *)
(* merged: the clears it has tracked are left out.                          *)
Fetched(v) == IF v.reading /\ v.tracking.kind # "all" THEN v.snap ELSE {}
Arriving(v) == Fetched(v) \ v.tracking.ids

(* What a section shows or will show, what its read leaves out because it   *)
(* was reset meanwhile, and whether the read has lost track of that.        *)
ShownBy(v, stored) == IF v.hydrated THEN Completed(v) \cup Arriving(v) ELSE stored
WithheldBy(v) == IF v.reading THEN v.snap \ Arriving(v) ELSE {}
Deaf(v) == v.reading /\ v.tracking.kind = "none"

ShownSteps == [sl \in Ledgered |-> ShownBy(Bucket(sl), storage[sl])]
WithheldSteps == [sl \in Ledgered |-> WithheldBy(Bucket(sl))]
Deafened == {sl \in Ledgered : Deaf(Bucket(sl))}
Clearing == {sl \in Ledgered : KeyOf[sl] \in resetting[OnlyTab]}

Ledger == INSTANCE StepLedger WITH
            Sections <- Ledgered, Rendered <- Roster,
            shown <- ShownSteps, withheld <- WithheldSteps,
            deaf <- Deafened, clearing <- Clearing

(* What a section shows changes by the commands of its reader, of its guide *)
(* and of nobody else: no render, read, eviction or reload in between makes *)
(* a step appear or disappear, except in the windows the ledger names       *)
(* (completion-store.ts, 64-86 and 100-217).                                *)
ShownByCommand == Ledger!Spec
=============================================================================
