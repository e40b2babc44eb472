----------------------- MODULE CompletionHistoryProofs -----------------------
(***************************************************************************)
(* In one tab, whose reads of localStorage end within their task, a reset  *)
(* stays reset, a completed step stays stored and the cached count of a    *)
(* guide is the stored one: for any number of guides, sections and steps.  *)
(*                                                                         *)
(* The two properties of the history say nothing of a section whose read   *)
(* is in flight, so neither is inductive.  The invariant follows a step id *)
(* from the stored set through the snapshot of the read, past the clears   *)
(* the read has tracked, into the bucket and back to storage.              *)
(*                                                                         *)
(* The last part shows that the store implements StepLedger: whatever its  *)
(* reads, renders and reloads do, what a section shows changes by command. *)
(***************************************************************************)
EXTENDS CompletionHistory, CompletionStoreProofs

(* The steps of a section that have a reason to be completed. *)
Known(sl) == earned[sl] \cup unheard[sl] \cup rewritten[sl]

(* A guide reset of the tab has cleared the section's storage, not yet its cache. *)
Halfway(t, sl) == KeyOf[sl] \in resetting[t]

(* Clears are tracked for a live read only, and until it ends the bucket    *)
(* holds steps the section renders.                                         *)
ReadFacts(v, rendered) ==
    /\ v.tracking.kind # "none" => v.reading
    /\ v.reading => Completed(v) \subseteq rendered

(* Nothing comes from nowhere: what is stored is known or about to be       *)
(* cleared, what is in the bucket or on its way there is known, and what is *)
(* stored is in the bucket or was there for the read to find.               *)
Accounted(v, stored, known, halfway) ==
    /\ stored \subseteq known \cup v.tracking.ids
    /\ ~halfway => /\ Completed(v) \cup Arriving(v) \subseteq known
                   /\ v.hydrated => stored \subseteq Completed(v) \cup Fetched(v)

(* Nothing is lost: a step the user completed is stored, in the bucket or   *)
(* on its way there.                                                        *)
Kept(v, stored, done, halfway) ==
    /\ halfway => done \subseteq stored \cap Completed(v)
    /\ ~halfway /\ v.hydrated => done \subseteq Completed(v) \cup Arriving(v)
    /\ ~halfway /\ ~v.hydrated => done \subseteq stored

Followed(t, sl) ==
    /\ ReadFacts(tab[t][sl], Roster[sl])
    /\ KeyOf[sl] \notin Preview
       => Accounted(tab[t][sl], storage[sl], Known(sl), Halfway(t, sl))
    /\ Persisted(sl) => Kept(tab[t][sl], storage[sl], earned[sl], Halfway(t, sl))

(* No other tab, and no page that clears the storage. *)
Alone == wiped = {} /\ \A t \in Tabs, sl \in Slots : events[t][sl] = 0

HTypeOK ==
    /\ earned \in [Slots -> SUBSET Steps]
    /\ unheard \in [Slots -> SUBSET Steps]
    /\ rewritten \in [Slots -> SUBSET Steps]

HInv ==
    /\ IInv /\ HTypeOK /\ Alone
    /\ \A t \in Tabs, sl \in Slots : Followed(t, sl)

(***************************************************************************)
(* The history variables only watch                                        *)
(***************************************************************************)
(* Every step of the history specification is a step of the store.          *)
LEMMA HNextIsNext == [HNext]_hvars => [Next]_vars
<1>. SUFFICES ASSUME [HNext]_hvars PROVE [Next]_vars
  OBVIOUS
<1>1. CASE UNCHANGED hvars
  BY <1>1 DEF hvars
<1>2. CASE HNext
  BY <1>2, Zenon DEF HNext, Next
<1>. QED
  BY <1>1, <1>2

(* Every behaviour with its history is a behaviour of the store: what is    *)
(* proved of the store's Spec holds of HSpec.                               *)
THEOREM HistoryWatches == HSpec => Spec
<1>1. HInit => Init
  BY DEF HInit
<1>. QED
  BY <1>1, HNextIsNext, PTL DEF HSpec, Spec

(***************************************************************************)
(* What one step does to the history                                       *)
(***************************************************************************)
(* The sections a user command does not name keep what they have earned.    *)
Untouched(sl) == earned'[sl] = earned[sl] /\ Known(sl) \subseteq Known(sl)'

(* No command: nothing is earned or forgotten, and what a half-done guide   *)
(* reset finds written back is known.                                       *)
LEMMA NothingFacts ==
    ASSUME HTypeOK, TypeOK', NEW t, Tabs = {t}, Nothing
    PROVE  /\ HTypeOK'
           /\ \A sl \in Slots : /\ Untouched(sl)
                                /\ Halfway(t, sl) => storage'[sl] \subseteq Known(sl)'
BY DEF HTypeOK, TypeOK, Nothing, NoteRewritten, Untouched, Known, Halfway

(* A completion of ids. *)
LEMMA EarnFacts ==
    ASSUME HTypeOK, TypeOK', NEW t, Tabs = {t}, NEW sl \in Slots, NEW ids \in SUBSET Steps,
           Earn(t, sl, ids)
    PROVE  /\ HTypeOK'
           /\ \A x \in Slots \ {sl} : Untouched(x)
           /\ Halfway(t, sl) => /\ storage'[sl] \subseteq Known(sl)'
                                /\ earned'[sl] \subseteq earned[sl] \cup (ids \cap storage'[sl])
           /\ ~Halfway(t, sl) => /\ earned'[sl] = earned[sl] \cup ids
                                 /\ Known(sl) \cup ids \subseteq Known(sl)'
BY DEF HTypeOK, TypeOK, Earn, NoteRewritten, Untouched, Known, Halfway

(* A reset of ids: they are known no longer, if the live read hears of it.  *)
LEMMA LoseFacts ==
    ASSUME HTypeOK, TypeOK', NEW t, Tabs = {t}, NEW sl \in Slots, NEW ids \in SUBSET Steps,
           Lose(t, sl, ids)
    PROVE  LET deaf == tab[t][sl].reading /\ tab[t][sl].tracking.kind = "none"
           IN /\ HTypeOK'
              /\ \A x \in Slots \ {sl} : Untouched(x)
              /\ earned'[sl] = earned[sl] \ ids
              /\ Halfway(t, sl) => storage'[sl] \subseteq Known(sl)'
              /\ ~Halfway(t, sl) => Known(sl) \ ids \subseteq Known(sl)'
              /\ ~Halfway(t, sl) /\ deaf => Known(sl) \cup ids \subseteq Known(sl)'
BY DEF HTypeOK, TypeOK, Lose, Untouched, Known, Halfway

(* An older read's `.then` drops the tracked clears: those steps are known. *)
LEMMA ForgottenFacts ==
    ASSUME HTypeOK, TypeOK, TypeOK', NEW t, Tabs = {t}, NEW sl \in Slots, Forgotten(t, sl)
    PROVE  /\ HTypeOK'
           /\ \A x \in Slots \ {sl} : Untouched(x)
           /\ earned'[sl] = earned[sl]
           /\ Halfway(t, sl) => storage'[sl] \subseteq Known(sl)'
           /\ Known(sl) \cup tab[t][sl].tracking.ids \subseteq Known(sl)'
           /\ tab[t][sl].tracking.kind = "all" => Steps \subseteq Known(sl)'
<1>1. tab[t][sl].tracking \in Tracking
  BY DEF TypeOK, SlotState
<1>2. tab[t][sl].tracking.ids \in SUBSET Steps
      /\ (tab[t][sl].tracking.kind = "all" => tab[t][sl].tracking.ids = {})
  BY <1>1 DEF Tracking, Untracked, ClearedAll
<1>. QED
  BY <1>2 DEF HTypeOK, TypeOK, Forgotten, NoteRewritten, Untouched, Known, Halfway

(***************************************************************************)
(* What one step does to the buckets                                       *)
(***************************************************************************)
(* What persistSection, reached or not, leaves in the section's storage.    *)
StoredAfter(sl, w, persist) == IF persist THEN Completed(w) ELSE storage[sl]

(* Storing a bucket in the only tab touches no other section and tells      *)
(* nobody.                                                                  *)
LEMMA StoreFrame ==
    ASSUME IInv, Alone, NEW t, Tabs = {t}, NEW sl \in Slots, NEW w \in SlotState,
           NEW persist \in BOOLEAN, Store(t, sl, w, persist),
           UNCHANGED <<resetting, wiped>>
    PROVE  /\ Alone'
           /\ tab'[t][sl] = w
           /\ KeyOf[sl] \notin Preview => storage'[sl] = StoredAfter(sl, w, persist)
           /\ \A x \in Slots \ {sl} : tab'[t][x] = tab[t][x] /\ storage'[x] = storage[x]
<1>1. /\ tab' = [tab EXCEPT ![t][sl] = w]
      /\ persist => PersistSection(t, sl, Completed(w))
      /\ ~persist => UNCHANGED <<storage, events, counts>>
  BY DEF Store, Keep, KeepAndPersist
<1>2. tab'[t][sl] = w /\ \A x \in Slots \ {sl} : tab'[t][x] = tab[t][x]
  BY <1>1 DEF IInv, TypeOK
<1>3. Completed(w) \in SUBSET Steps
  BY DEF Completed
<1>4. CASE persist
  <2>1. /\ KeyOf[sl] \notin Preview => storage'[sl] = Completed(w)
        /\ \A x \in Slots \ {sl} : storage'[x] = storage[x]
    BY <1>1, <1>3, <1>4, PersistFacts DEF IInv
  <2>2. \A x \in Slots : events'[t][x] = events[t][x]
    BY <1>1, <1>4 DEF PersistSection, WriteStorage, Announce, IInv, TypeOK
  <2>. QED
    BY <1>2, <1>4, <2>1, <2>2 DEF Alone, StoredAfter
<1>5. CASE ~persist
  BY <1>1, <1>2, <1>5 DEF Alone, StoredAfter
<1>. QED
  BY <1>4, <1>5

(* A section that nothing touched is followed as before.                    *)
LEMMA UnmovedFollowed ==
    ASSUME HInv, NEW t \in Tabs, NEW x \in Slots,
           tab'[t][x] = tab[t][x], storage'[x] = storage[x],
           Halfway(t, x)' = Halfway(t, x), Untouched(x)
    PROVE  Followed(t, x)'
<1>1. Followed(t, x)
  BY DEF HInv
<1>. QED
  BY <1>1 DEF Untouched, Followed, Persisted, Unshadowed, ReadFacts, Accounted, Kept,
              Completed, Arriving, Fetched

(* A bucket that is stored keeps the invariant if it does for its section.  *)
LEMMA StoreFollowed ==
    ASSUME HInv, IInv', NEW t, Tabs = {t}, NEW sl \in Slots, NEW w \in SlotState,
           NEW persist \in BOOLEAN, Store(t, sl, w, persist),
           UNCHANGED <<resetting, wiped>>,
           HTypeOK', \A x \in Slots \ {sl} : Untouched(x),
           ReadFacts(w, Roster[sl]),
           KeyOf[sl] \notin Preview
           => Accounted(w, StoredAfter(sl, w, persist), Known(sl)', Halfway(t, sl)),
           Persisted(sl) => Kept(w, StoredAfter(sl, w, persist), earned'[sl], Halfway(t, sl))
    PROVE  HInv'
<1>1. /\ Alone' /\ tab'[t][sl] = w
      /\ KeyOf[sl] \notin Preview => storage'[sl] = StoredAfter(sl, w, persist)
      /\ \A x \in Slots \ {sl} : tab'[t][x] = tab[t][x] /\ storage'[x] = storage[x]
  BY StoreFrame DEF HInv
<1>2. \A x \in Slots : Halfway(t, x)' = Halfway(t, x)
  BY DEF Halfway
<1>3. Followed(t, sl)'
  BY <1>1, <1>2 DEF Followed, Persisted, Unshadowed, ReadFacts, Accounted, Kept, Completed,
                    Arriving, Fetched
<1>4. ASSUME NEW x \in Slots \ {sl}
      PROVE  Followed(t, x)'
  BY <1>1, <1>2, UnmovedFollowed
<1>. QED
  BY <1>1, <1>3, <1>4 DEF HInv

(* What ensureHydrated returns is followed if the bucket was.               *)
LEMMA OpenedFollowed ==
    ASSUME HInv, NEW t, Tabs = {t}, NEW sl \in Slots
    PROVE  LET v == Opened(t, sl)
           IN /\ v \in SlotState /\ v.hydrated
              /\ Completed(v) = Completed(tab[t][sl])
              /\ Completed(v) # {} => v = tab[t][sl]
              /\ ReadFacts(v, Roster[sl])
              /\ KeyOf[sl] \notin Preview
                 => Accounted(v, storage[sl], Known(sl), Halfway(t, sl))
              /\ Persisted(sl) => Kept(v, storage[sl], earned[sl], Halfway(t, sl))
<1>. DEFINE u == tab[t][sl]
            v == Opened(t, sl)
<1>1. u \in SlotState /\ u.tracking \in Tracking /\ storage[sl] \in SUBSET Steps
      /\ WellFormed(u) /\ Followed(t, sl)
  BY DEF HInv, IInv, TypeOK, SlotState
<1>2. /\ v \in SlotState /\ v.hydrated /\ Completed(v) = Completed(u)
      /\ u.hydrated => v = u
  BY <1>1, EnsureHydratedFacts DEF Opened
<1>3. CASE u.hydrated
  BY <1>1, <1>2, <1>3 DEF Followed
<1>4. CASE ~u.hydrated
  <2>1. /\ v.reading /\ v.snap = storage[sl]
        /\ v.tracking.kind = "ids" /\ v.tracking.ids = {}
    BY <1>1, <1>4 DEF Opened, EnsureHydrated, SlotState
  <2>2. Completed(u) = {} /\ u.tracking.ids = {}
    BY <1>1, <1>4 DEF WellFormed, Followed, ReadFacts, Tracking, Untracked, ClearedAll
  <2>3. Arriving(v) = storage[sl] /\ Fetched(v) = storage[sl]
    BY <2>1 DEF Arriving, Fetched
  <2>4. ReadFacts(v, Roster[sl])
    BY <1>2, <2>1, <2>2 DEF ReadFacts
  <2>5. KeyOf[sl] \notin Preview => Accounted(v, storage[sl], Known(sl), Halfway(t, sl))
    BY <1>1, <1>2, <2>1, <2>2, <2>3 DEF Followed, Accounted
  <2>6. Persisted(sl) => Kept(v, storage[sl], earned[sl], Halfway(t, sl))
    BY <1>1, <1>2, <1>4, <2>1, <2>2, <2>3 DEF Followed, Kept
  <2>. QED
    BY <1>2, <2>2, <2>4, <2>5, <2>6
<1>. QED
  BY <1>3, <1>4

(***************************************************************************)
(* One step of every operation                                             *)
(***************************************************************************)
(* Rendering a section starts its read. *)
LEMMA RenderFollowed ==
    ASSUME HInv, IInv', NEW t, Tabs = {t}, NEW sl \in Slots, Render(t, sl), Nothing
    PROVE  HInv'
<1>. DEFINE v == Opened(t, sl)
<1>1. Store(t, sl, v, FALSE) /\ UNCHANGED <<resetting, wiped>>
  BY DEF Render, Store, Opened
<1>2. /\ HTypeOK' /\ \A x \in Slots : Untouched(x)
      /\ Halfway(t, sl) => storage'[sl] \subseteq Known(sl)'
  BY NothingFacts DEF HInv, IInv
<1>3. /\ v \in SlotState /\ ReadFacts(v, Roster[sl])
      /\ KeyOf[sl] \notin Preview => Accounted(v, storage[sl], Known(sl), Halfway(t, sl))
      /\ Persisted(sl) => Kept(v, storage[sl], earned[sl], Halfway(t, sl))
  BY OpenedFollowed
<1>. HIDE DEF v
<1>4. StoredAfter(sl, v, FALSE) = storage[sl]
  BY DEF StoredAfter
<1>5. KeyOf[sl] \notin Preview => Accounted(v, storage[sl], Known(sl)', Halfway(t, sl))
  BY <1>2, <1>3 DEF Untouched, Accounted
<1>. QED
  BY <1>1, <1>2, <1>3, <1>4, <1>5, StoreFollowed DEF Untouched

(* What the read found and nobody cleared is merged; a bucket that is       *)
(* written nowhere was whole.                                               *)
LEMMA ResolveReadFollowed ==
    ASSUME HInv, IInv', NEW t, Tabs = {t}, NEW sl \in Slots, ResolveRead(t, sl), Nothing
    PROVE  HInv'
<1>. DEFINE v == tab[t][sl]
            added == IF v.tracking.kind = "all" THEN {} ELSE MergeSnapshot(v)
            settled == [v EXCEPT !.reading = FALSE, !.snap = {}, !.tracking = Untracked]
            w == IF added = {} THEN settled ELSE PutEntries(settled, added, NoReason)
            persist == added # {} \/ v.tracking.ids # {}
            stored == StoredAfter(sl, w, persist)
<1>1. /\ v \in SlotState /\ v.tracking \in Tracking /\ v.snap \in SUBSET Steps
      /\ WellFormed(v) /\ Followed(t, sl)
  BY DEF HInv, IInv, TypeOK, SlotState
<1>2. v.reading /\ v.hydrated
  BY <1>1 DEF ResolveRead, WritesBack, WellFormed
<1>3. /\ settled \in SlotState /\ Completed(settled) = Completed(v)
      /\ settled.hydrated /\ ~settled.reading /\ settled.tracking = Untracked
  BY <1>1, <1>2 DEF SlotState, Tracking, Untracked, Completed
<1>4. /\ added \in SUBSET Steps /\ Completed(v) \cup added = Completed(v) \cup Arriving(v)
      /\ added = {} => Arriving(v) \subseteq Completed(v)
  BY <1>1, <1>2 DEF MergeSnapshot, Arriving, Fetched
<1>5. Store(t, sl, w, persist) /\ UNCHANGED <<resetting, wiped>>
  BY DEF ResolveRead, WritesBack
<1>6. NoReason \in Reasons
  BY ConstantsOK
<1>. HIDE DEF settled
<1>7. /\ w \in SlotState /\ Completed(w) = Completed(v) \cup Arriving(v)
      /\ w.hydrated /\ ~w.reading /\ w.tracking = Untracked
  BY <1>3, <1>4, <1>6, PutEntriesFacts
<1>8. /\ HTypeOK' /\ \A x \in Slots : Untouched(x)
      /\ Halfway(t, sl) => storage'[sl] \subseteq Known(sl)'
  BY NothingFacts DEF HInv, IInv
<1>9. /\ persist => stored = Completed(w)
      /\ ~persist => stored = storage[sl] /\ v.tracking.ids = {} /\ added = {}
      /\ persist \in BOOLEAN
  BY DEF StoredAfter
<1>10. KeyOf[sl] \notin Preview => storage'[sl] = stored
  <2>. HIDE DEF w, persist
  <2>. QED
    BY <1>5, <1>7, <1>9, StoreFrame DEF HInv
<1>. HIDE DEF w, added, persist, stored
<1>11. Fetched(w) = {} /\ Arriving(w) = {}
  BY <1>7 DEF Fetched, Arriving
<1>12. KeyOf[sl] \notin Preview => Accounted(w, stored, Known(sl)', Halfway(t, sl))
  <2>. SUFFICES ASSUME KeyOf[sl] \notin Preview
                PROVE  Accounted(w, stored, Known(sl)', Halfway(t, sl))
    OBVIOUS
  <2>1. Accounted(v, storage[sl], Known(sl), Halfway(t, sl))
    BY <1>1 DEF Followed
  <2>2. CASE Halfway(t, sl)
    BY <1>8, <1>10, <2>2 DEF Accounted
  <2>3. CASE ~Halfway(t, sl)
    <3>1. Completed(w) \subseteq Known(sl)'
      BY <1>7, <1>8, <2>1, <2>3 DEF Accounted, Untouched
    <3>2. stored \subseteq Completed(w)
      BY <1>2, <1>7, <1>9, <2>1, <2>3 DEF Accounted, Arriving
    <3>. QED
      BY <1>11, <2>3, <3>1, <3>2 DEF Accounted
  <2>. QED
    BY <2>2, <2>3
<1>13. Persisted(sl) => Kept(w, stored, earned'[sl], Halfway(t, sl))
  BY <1>1, <1>2, <1>7, <1>8, <1>9 DEF Followed, Kept, Untouched
<1>14. ReadFacts(w, Roster[sl])
  BY <1>7 DEF ReadFacts, Untracked
<1>. QED
  BY <1>5, <1>7, <1>8, <1>9, <1>12, <1>13, <1>14, StoreFollowed DEF stored

(* The clears an older read's `.then` drops are unheard. *)
LEMMA DropStaleReadFollowed ==
    ASSUME HInv, IInv', NEW t, Tabs = {t}, NEW sl \in Slots, DropStaleRead(t, sl),
           Forgotten(t, sl)
    PROVE  HInv'
<1>. DEFINE v == tab[t][sl]
            w == [ForgetTracking(v) EXCEPT !.stale = @ - 1]
<1>1. /\ v \in SlotState /\ v.tracking \in Tracking /\ v.snap \in SUBSET Steps
      /\ WellFormed(v) /\ Followed(t, sl)
  BY DEF HInv, IInv, TypeOK, SlotState
<1>2. Store(t, sl, w, FALSE) /\ UNCHANGED <<resetting, wiped>>
  BY DEF DropStaleRead, Store
<1>3. w = tab'[t][sl]
  BY <1>2 DEF Store, Keep, HInv, IInv, TypeOK
<1>4. w \in SlotState
  BY <1>3 DEF IInv, TypeOK
<1>5. /\ Completed(w) = Completed(v) /\ w.hydrated = v.hydrated /\ w.reading = v.reading
      /\ w.snap = v.snap /\ w.tracking = Untracked
  BY <1>1 DEF ForgetTracking, SlotState, Completed
<1>6. /\ HTypeOK' /\ \A x \in Slots \ {sl} : Untouched(x)
      /\ earned'[sl] = earned[sl]
      /\ Halfway(t, sl) => storage'[sl] \subseteq Known(sl)'
      /\ Known(sl) \cup v.tracking.ids \subseteq Known(sl)'
      /\ v.tracking.kind = "all" => Steps \subseteq Known(sl)'
  BY ForgottenFacts DEF HInv, IInv
<1>. HIDE DEF w, v
<1>7. ReadFacts(w, Roster[sl])
  BY <1>1, <1>5 DEF Followed, ReadFacts, Untracked, v
<1>8. /\ Arriving(v) \subseteq Arriving(w) /\ Fetched(v) \subseteq Fetched(w)
      /\ Arriving(w) \subseteq Known(sl)' \cup Arriving(v)
  BY <1>1, <1>5, <1>6 DEF Arriving, Fetched, Untracked
<1>9. KeyOf[sl] \notin Preview => Accounted(w, storage[sl], Known(sl)', Halfway(t, sl))
  BY <1>1, <1>5, <1>6, <1>8 DEF Followed, Accounted, v
<1>10. Persisted(sl) => Kept(w, storage[sl], earned'[sl], Halfway(t, sl))
  BY <1>1, <1>5, <1>6, <1>8 DEF Followed, Kept, v
<1>11. StoredAfter(sl, w, FALSE) = storage[sl]
  BY DEF StoredAfter
<1>. QED
  BY <1>2, <1>4, <1>6, <1>7, <1>9, <1>10, <1>11, StoreFollowed

(* A bucket that gains ids the section renders and is persisted, or has     *)
(* them already, is followed once the ids are earned.                       *)
LEMMA GainedFollowed ==
    ASSUME HInv, IInv', NEW t, Tabs = {t}, NEW sl \in Slots, NEW ids \in SUBSET Roster[sl],
           NEW w \in SlotState, NEW persist \in BOOLEAN,
           Completed(w) = Completed(Opened(t, sl)) \cup ids,
           w.hydrated, w.reading = Opened(t, sl).reading, w.snap = Opened(t, sl).snap,
           w.tracking = Opened(t, sl).tracking,
           ~persist => w = Opened(t, sl),
           Store(t, sl, w, persist), UNCHANGED <<resetting, wiped>>, Earn(t, sl, ids)
    PROVE  HInv'
<1>. DEFINE v == Opened(t, sl)
            stored == StoredAfter(sl, w, persist)
<1>1. /\ v \in SlotState /\ v.hydrated /\ ReadFacts(v, Roster[sl])
      /\ KeyOf[sl] \notin Preview => Accounted(v, storage[sl], Known(sl), Halfway(t, sl))
      /\ Persisted(sl) => Kept(v, storage[sl], earned[sl], Halfway(t, sl))
  BY OpenedFollowed
<1>2. ids \in SUBSET Steps
  BY ConstantsOK
<1>3. /\ HTypeOK' /\ \A x \in Slots \ {sl} : Untouched(x)
      /\ Halfway(t, sl) => /\ storage'[sl] \subseteq Known(sl)'
                           /\ earned'[sl] \subseteq earned[sl] \cup (ids \cap storage'[sl])
      /\ ~Halfway(t, sl) => /\ earned'[sl] = earned[sl] \cup ids
                            /\ Known(sl) \cup ids \subseteq Known(sl)'
  BY <1>2, EarnFacts DEF HInv, IInv
<1>4. KeyOf[sl] \notin Preview => storage'[sl] = stored
  BY StoreFrame DEF HInv
<1>5. /\ persist => stored = Completed(w)
      /\ ~persist => stored = storage[sl] /\ w = v
  BY DEF StoredAfter
<1>. HIDE DEF v, stored
<1>6. Arriving(w) = Arriving(v) /\ Fetched(w) = Fetched(v)
  BY DEF Arriving, Fetched, v
<1>7. ReadFacts(w, Roster[sl])
  BY <1>1 DEF ReadFacts, v
<1>8. KeyOf[sl] \notin Preview => Accounted(w, stored, Known(sl)', Halfway(t, sl))
  <2>. SUFFICES ASSUME KeyOf[sl] \notin Preview
                PROVE  Accounted(w, stored, Known(sl)', Halfway(t, sl))
    OBVIOUS
  <2>1. CASE Halfway(t, sl)
    BY <1>3, <1>4, <2>1 DEF Accounted
  <2>2. CASE ~Halfway(t, sl)
    <3>1. Completed(w) \cup Arriving(w) \subseteq Known(sl)'
      BY <1>1, <1>3, <1>6, <2>2 DEF Accounted, v
    <3>2. stored \subseteq Known(sl)' \cup w.tracking.ids
      BY <1>1, <1>3, <1>5, <2>2, <3>1 DEF Accounted, v
    <3>3. stored \subseteq Completed(w) \cup Fetched(w)
      BY <1>1, <1>5, <1>6, <2>2 DEF Accounted, v
    <3>. QED
      BY <2>2, <3>1, <3>2, <3>3 DEF Accounted
  <2>. QED
    BY <2>1, <2>2
<1>9. Persisted(sl) => Kept(w, stored, earned'[sl], Halfway(t, sl))
  <2>. SUFFICES ASSUME Persisted(sl)
                PROVE  Kept(w, stored, earned'[sl], Halfway(t, sl))
    OBVIOUS
  <2>1. storage'[sl] = stored
    BY <1>4 DEF Persisted
  <2>2. Kept(v, storage[sl], earned[sl], Halfway(t, sl))
    BY <1>1
  <2>3. CASE Halfway(t, sl)
    BY <1>3, <1>5, <2>1, <2>2, <2>3 DEF Kept, v
  <2>4. CASE ~Halfway(t, sl)
    BY <1>1, <1>3, <1>6, <2>2, <2>4 DEF Kept, v
  <2>. QED
    BY <2>3, <2>4
<1>. QED
  BY <1>3, <1>7, <1>8, <1>9, StoreFollowed DEF stored

(* A completed step is stored, or was in the bucket already. *)
LEMMA MarkStepCompletedFollowed ==
    ASSUME HInv, IInv', NEW t, Tabs = {t}, NEW sl \in Slots, NEW s \in Steps,
           NEW r \in Reasons \ {NoReason}, MarkStepCompleted(t, sl, s, r), Earn(t, sl, {s})
    PROVE  HInv'
<1>. DEFINE v == Opened(t, sl)
            w == PutEntries(v, {s}, r)
<1>1. v \in SlotState /\ v.hydrated
  BY OpenedFollowed
<1>2. /\ {s} \in SUBSET Roster[sl] /\ UNCHANGED <<resetting, wiped>>
      /\ AlreadyMarked(v, s, r) => Store(t, sl, v, FALSE)
      /\ ~AlreadyMarked(v, s, r) => Store(t, sl, w, TRUE)
  BY DEF MarkStepCompleted, Store, Opened
<1>3. AlreadyMarked(v, s, r) => Completed(v) = Completed(v) \cup {s}
  <2>1. r # Absent /\ Skipped # Absent
    BY ConstantsOK DEF Skipped, Absent
  <2>. QED
    BY <2>1 DEF AlreadyMarked, Completed
<1>. HIDE DEF v
<1>4. /\ w \in SlotState /\ Completed(w) = Completed(v) \cup {s}
      /\ w.hydrated /\ w.reading = v.reading /\ w.snap = v.snap /\ w.tracking = v.tracking
  BY <1>1, PutEntriesFacts
<1>. HIDE DEF w
<1>5. CASE AlreadyMarked(v, s, r)
  BY <1>1, <1>2, <1>3, <1>5, GainedFollowed DEF v
<1>6. CASE ~AlreadyMarked(v, s, r)
  BY <1>2, <1>4, <1>6, GainedFollowed DEF v
<1>. QED
  BY <1>5, <1>6

(* So are the steps an objective completes. *)
LEMMA MarkStepsCompletedFollowed ==
    ASSUME HInv, IInv', NEW t, Tabs = {t}, NEW sl \in Slots, NEW r \in Reasons,
           MarkStepsCompleted(t, sl, Roster[sl], r), Earn(t, sl, Roster[sl])
    PROVE  HInv'
<1>. DEFINE v == Opened(t, sl)
            new == Roster[sl] \ Completed(v)
            w == IF new = {} THEN v ELSE PutEntries(v, new, r)
<1>1. v \in SlotState /\ v.hydrated
  BY OpenedFollowed
<1>2. Store(t, sl, w, new # {}) /\ UNCHANGED <<resetting, wiped>>
  BY DEF MarkStepsCompleted, Opened
<1>3. new \in SUBSET Steps /\ Completed(v) \cup new = Completed(v) \cup Roster[sl]
  BY ConstantsOK
<1>. HIDE DEF v
<1>4. /\ w \in SlotState /\ Completed(w) = Completed(v) \cup Roster[sl]
      /\ w.hydrated /\ w.reading = v.reading /\ w.snap = v.snap /\ w.tracking = v.tracking
      /\ ~(new # {}) => w = v
  BY <1>1, <1>3, PutEntriesFacts
<1>5. Roster[sl] \in SUBSET Roster[sl] /\ (new # {}) \in BOOLEAN
  OBVIOUS
<1>. HIDE DEF w, new
<1>. QED
  BY <1>2, <1>4, <1>5, GainedFollowed DEF v

(* A read that tracks its clears leaves out the ids; any other bucket is    *)
(* left alone.                                                              *)
LEMMA NoteClearArriving ==
    ASSUME NEW v \in SlotState, NEW ids \in SUBSET Steps
    PROVE  LET w == NoteHydrationClear(v, ids)
           IN /\ Fetched(w) = Fetched(v)
              /\ v.tracking.kind = "ids" => /\ w.tracking.ids = v.tracking.ids \cup ids
                                            /\ Arriving(w) = Arriving(v) \ ids
              /\ v.tracking.kind # "ids" => w = v
BY DEF NoteHydrationClear, SlotState, Tracking, Untracked, ClearedAll, Fetched, Arriving

(* The steps a section has reason to show once ids were reset. *)
KnownAfter(t, sl, ids) == IF Deaf(tab[t][sl]) THEN Known(sl) \cup ids ELSE Known(sl) \ ids

(* A bucket that loses ids is followed if nothing else is lost and, in a    *)
(* section no guide reset is halfway through, they are known no longer.     *)
LEMMA LostFollowed ==
    ASSUME HInv, IInv', NEW t, Tabs = {t}, NEW sl \in Slots, NEW ids \in SUBSET Steps,
           NEW w \in SlotState, NEW persist \in BOOLEAN,
           ReadFacts(w, Roster[sl]),
           KeyOf[sl] \notin Preview /\ ~Halfway(t, sl)
           => Accounted(w, StoredAfter(sl, w, persist), KnownAfter(t, sl, ids), FALSE),
           Persisted(sl)
           => Kept(w, StoredAfter(sl, w, persist), earned[sl] \ ids, Halfway(t, sl)),
           Store(t, sl, w, persist), UNCHANGED <<resetting, wiped>>, Lose(t, sl, ids)
    PROVE  HInv'
<1>1. /\ HTypeOK' /\ \A x \in Slots \ {sl} : Untouched(x)
      /\ earned'[sl] = earned[sl] \ ids
      /\ Halfway(t, sl) => storage'[sl] \subseteq Known(sl)'
      /\ ~Halfway(t, sl) => KnownAfter(t, sl, ids) \subseteq Known(sl)'
  BY LoseFacts DEF HInv, IInv, KnownAfter, Deaf
<1>2. KeyOf[sl] \notin Preview => storage'[sl] = StoredAfter(sl, w, persist)
  BY StoreFrame DEF HInv
<1>3. KeyOf[sl] \notin Preview
      => Accounted(w, StoredAfter(sl, w, persist), Known(sl)', Halfway(t, sl))
  BY <1>1, <1>2 DEF Accounted
<1>. QED
  BY <1>1, <1>3, StoreFollowed

(* The heart of it: a reset that finds the ids in the bucket persists what  *)
(* is left; one that does not leaves them to the read, which has noted them.*)
LEMMA ResetStepsFollowed ==
    ASSUME HInv, IInv', NEW t, Tabs = {t}, NEW sl \in Slots, NEW ids \in SUBSET Steps,
           tab[t][sl].hydrated, ResetSteps(t, sl, ids), Lose(t, sl, ids)
    PROVE  HInv'
<1>. DEFINE u == tab[t][sl]
            v == NoteHydrationClear(u, ids)
            gone == ids \cap Completed(v)
            w == IF gone = {} THEN v ELSE DeleteEntries(v, gone)
            persist == gone # {}
            stored == StoredAfter(sl, w, persist)
<1>1. /\ u \in SlotState /\ u.tracking \in Tracking /\ Followed(t, sl) /\ u.hydrated
  BY DEF HInv, IInv, TypeOK, SlotState
<1>2. /\ v \in SlotState /\ Completed(v) = Completed(u) /\ v.hydrated
      /\ v.reading = u.reading /\ v.tracking.kind = u.tracking.kind
      /\ Fetched(v) = Fetched(u)
      /\ u.tracking.kind = "ids" => /\ v.tracking.ids = u.tracking.ids \cup ids
                                    /\ Arriving(v) = Arriving(u) \ ids
      /\ u.tracking.kind # "ids" => v = u
  BY <1>1, NoteClearFacts, NoteClearArriving
<1>3. Store(t, sl, w, persist) /\ UNCHANGED <<resetting, wiped>>
  BY DEF ResetSteps
<1>. HIDE DEF v
<1>4. /\ w \in SlotState /\ Completed(w) = Completed(u) \ ids /\ w.hydrated
      /\ w.reading = u.reading /\ w.snap = v.snap /\ w.tracking = v.tracking
  BY <1>2, DeleteEntriesFacts
<1>5. Fetched(w) = Fetched(u) /\ Arriving(w) = Arriving(v)
  BY <1>2, <1>4 DEF Fetched, Arriving
<1>6. /\ persist => stored = Completed(w)
      /\ ~persist => stored = storage[sl] /\ Completed(u) \cap ids = {}
      /\ persist \in BOOLEAN
  BY <1>2 DEF StoredAfter
<1>. HIDE DEF w, gone, stored, persist, u
<1>7. ReadFacts(u, Roster[sl])
  BY <1>1 DEF Followed, u
<1>8. ReadFacts(w, Roster[sl])
  BY <1>2, <1>4, <1>7 DEF ReadFacts
<1>9. ASSUME KeyOf[sl] \notin Preview, ~Halfway(t, sl)
      PROVE  Accounted(w, stored, KnownAfter(t, sl, ids), FALSE)
  <2>1. Accounted(u, storage[sl], Known(sl), FALSE)
    BY <1>1, <1>9 DEF Followed, Accounted, u
  <2>2. stored \subseteq Completed(w) \cup Fetched(w)
    BY <1>1, <1>4, <1>5, <1>6, <2>1 DEF Accounted
  <2>3. CASE Deaf(u)
    <3>1. v = u /\ KnownAfter(t, sl, ids) = Known(sl) \cup ids /\ u.tracking.kind = "none"
      BY <1>2, <2>3 DEF Deaf, KnownAfter, u
    <3>. QED
      BY <1>4, <1>5, <1>6, <2>1, <2>2, <3>1 DEF Accounted
  <2>4. CASE ~Deaf(u)
    <3>1. KnownAfter(t, sl, ids) = Known(sl) \ ids
      BY <2>4 DEF KnownAfter, u
    <3>2. CASE u.tracking.kind = "ids"
      BY <1>2, <1>4, <1>5, <1>6, <2>1, <2>2, <3>1, <3>2 DEF Accounted
    <3>3. CASE u.tracking.kind # "ids"
      <4>1. Fetched(u) = {} /\ Arriving(u) = {}
        BY <1>1, <1>7, <2>4, <3>3 DEF Deaf, Fetched, Arriving, Tracking, Untracked, ClearedAll
      <4>2. u.tracking.ids = {}
        BY <1>1, <3>3 DEF Tracking, Untracked, ClearedAll
      <4>. QED
        BY <1>2, <1>4, <1>5, <1>6, <2>1, <2>2, <3>1, <3>3, <4>1, <4>2 DEF Accounted
    <3>. QED
      BY <3>2, <3>3
  <2>. QED
    BY <2>3, <2>4
<1>10. Arriving(u) \ ids \subseteq Arriving(w)
  BY <1>2, <1>5
<1>11. Persisted(sl) => Kept(w, stored, earned[sl] \ ids, Halfway(t, sl))
  BY <1>1, <1>4, <1>6, <1>10 DEF Followed, Kept, u
<1>. QED
  BY <1>3, <1>4, <1>6, <1>8, <1>9, <1>11, LostFollowed DEF stored

(* A section reset clears storage, or found a whole and empty bucket. *)
LEMMA ResetSectionFollowed ==
    ASSUME HInv, IInv', NEW t, Tabs = {t}, NEW sl \in Slots,
           tab[t][sl].hydrated, ResetSection(t, sl), Lose(t, sl, Steps)
    PROVE  HInv'
<1>. DEFINE u == tab[t][sl]
            v == NoteHydrationClearAll(u)
            had == Completed(v) # {}
            pending == v.tracking.kind # "none"
            w == IF had THEN DeleteEntries(v, Steps) ELSE v
            persist == had \/ pending
            stored == StoredAfter(sl, w, persist)
<1>1. /\ u \in SlotState /\ u.tracking \in Tracking /\ u.snap \in SUBSET Steps
      /\ Followed(t, sl) /\ u.hydrated
      /\ storage[sl] \in SUBSET Steps
  BY DEF HInv, IInv, TypeOK, SlotState
<1>2. /\ v \in SlotState /\ Completed(v) = Completed(u) /\ v.hydrated /\ v.reading = u.reading
      /\ v.tracking.kind # "none" \/ v = u
      /\ u.tracking.kind # "none" => v.tracking.kind = "all"
      /\ v.tracking.kind # "none" => u.tracking.kind # "none"
  <2>1. CASE u.tracking.kind = "ids"
    BY <1>1, <2>1, NoteClearAllFacts DEF NoteHydrationClearAll, ClearedAll, SlotState
  <2>2. CASE u.tracking.kind # "ids"
    <3>1. v = u
      BY <2>2 DEF NoteHydrationClearAll
    <3>2. u.tracking.kind # "none" => u.tracking.kind = "all"
      BY <1>1, <2>2 DEF Tracking, Untracked, ClearedAll
    <3>. QED
      BY <1>1, <3>1, <3>2
  <2>. QED
    BY <2>1, <2>2
<1>3. Store(t, sl, w, persist) /\ UNCHANGED <<resetting, wiped>>
  BY DEF ResetSection
<1>. HIDE DEF v
<1>4. /\ w \in SlotState /\ Completed(w) = {} /\ w.hydrated
      /\ w.reading = u.reading /\ w.snap = v.snap /\ w.tracking = v.tracking
  BY <1>2, DeleteEntriesFacts DEF Completed
<1>5. /\ persist => stored = {}
      /\ ~persist => stored = storage[sl] /\ w = u /\ u.tracking.kind = "none"
      /\ persist \in BOOLEAN
  BY <1>2, <1>4 DEF StoredAfter
<1>. HIDE DEF w, had, pending, stored, persist, u
<1>6. ReadFacts(u, Roster[sl])
  BY <1>1 DEF Followed, u
<1>7. ReadFacts(w, Roster[sl])
  BY <1>2, <1>4, <1>6 DEF ReadFacts
<1>8. ASSUME KeyOf[sl] \notin Preview, ~Halfway(t, sl)
      PROVE  Accounted(w, stored, KnownAfter(t, sl, Steps), FALSE)
  <2>1. Accounted(u, storage[sl], Known(sl), FALSE)
    BY <1>1, <1>8 DEF Followed, Accounted, u
  <2>2. v.snap \in SUBSET Steps
    BY <1>2 DEF SlotState
  <2>3. CASE Deaf(u)
    <3>1. Steps \subseteq KnownAfter(t, sl, Steps)
      BY <2>3 DEF KnownAfter, u
    <3>2. Arriving(w) \subseteq Steps
      BY <1>4, <2>2 DEF Arriving, Fetched
    <3>3. stored \subseteq Completed(w) \cup Fetched(w)
      BY <1>1, <1>5, <2>1 DEF Accounted
    <3>4. stored \subseteq Steps
      BY <1>1, <1>5
    <3>. QED
      BY <1>4, <3>1, <3>2, <3>3, <3>4 DEF Accounted
  <2>4. CASE ~Deaf(u)
    <3>1. Fetched(w) = {} /\ Arriving(w) = {}
      BY <1>2, <1>4, <2>4 DEF Deaf, Fetched, Arriving
    <3>2. stored = {}
      BY <1>1, <1>4, <1>5, <2>1, <3>1 DEF Accounted
    <3>. QED
      BY <1>4, <3>1, <3>2 DEF Accounted
  <2>. QED
    BY <2>3, <2>4
<1>9. earned[sl] \ Steps = {}
  BY DEF HInv, HTypeOK
<1>10. Persisted(sl) => Kept(w, stored, earned[sl] \ Steps, Halfway(t, sl))
  BY <1>9 DEF Kept
<1>. QED
  BY <1>3, <1>4, <1>5, <1>7, <1>8, <1>10, LostFollowed DEF stored

(* Only a whole bucket holds orphans, and it is persisted without them. *)
LEMMA ReconcileSectionFollowed ==
    ASSUME HInv, IInv', NEW t, Tabs = {t}, NEW sl \in Slots, ReconcileSection(t, sl),
           Lose(t, sl, Completed(tab[t][sl]) \ Roster[sl])
    PROVE  HInv'
<1>. DEFINE v == Opened(t, sl)
            orphaned == Completed(v) \ Roster[sl]
            w == IF orphaned = {} THEN v ELSE DeleteEntries(v, orphaned)
            persist == orphaned # {}
            stored == StoredAfter(sl, w, persist)
<1>1. /\ v \in SlotState /\ v.hydrated /\ Completed(v) = Completed(tab[t][sl])
      /\ Completed(v) # {} => v = tab[t][sl]
      /\ ReadFacts(v, Roster[sl])
      /\ KeyOf[sl] \notin Preview => Accounted(v, storage[sl], Known(sl), Halfway(t, sl))
      /\ Persisted(sl) => Kept(v, storage[sl], earned[sl], Halfway(t, sl))
  BY OpenedFollowed
<1>2. Store(t, sl, w, persist) /\ UNCHANGED <<resetting, wiped>>
  BY DEF ReconcileSection, Opened
<1>3. orphaned \in SUBSET Steps /\ orphaned = Completed(tab[t][sl]) \ Roster[sl]
  BY <1>1 DEF Completed
<1>. HIDE DEF v
<1>4. /\ w \in SlotState /\ Completed(w) = Completed(v) \ orphaned /\ w.hydrated
      /\ w.reading = v.reading /\ w.snap = v.snap /\ w.tracking = v.tracking
  BY <1>1, <1>3, DeleteEntriesFacts
<1>5. /\ persist => stored = Completed(w)
      /\ ~persist => stored = storage[sl] /\ orphaned = {}
      /\ persist \in BOOLEAN
  BY DEF StoredAfter
<1>6. Fetched(w) = Fetched(v) /\ Arriving(w) = Arriving(v)
  BY <1>4 DEF Fetched, Arriving
<1>7. orphaned # {} => Fetched(v) = {} /\ ~Deaf(tab[t][sl])
  BY <1>1 DEF ReadFacts, Fetched, Deaf
<1>. HIDE DEF w, stored, persist, orphaned
<1>8. ReadFacts(w, Roster[sl])
  BY <1>1, <1>4 DEF ReadFacts
<1>9. ASSUME KeyOf[sl] \notin Preview, ~Halfway(t, sl)
      PROVE  Accounted(w, stored, KnownAfter(t, sl, orphaned), FALSE)
  <2>1. Accounted(v, storage[sl], Known(sl), FALSE)
    BY <1>1, <1>9 DEF Accounted
  <2>2. CASE orphaned = {}
    <3>1. KnownAfter(t, sl, orphaned) = Known(sl)
      BY <2>2 DEF KnownAfter
    <3>. QED
      BY <1>1, <1>4, <1>5, <1>6, <2>1, <2>2, <3>1 DEF Accounted
  <2>3. CASE orphaned # {}
    <3>1. KnownAfter(t, sl, orphaned) = Known(sl) \ orphaned
      BY <1>7, <2>3 DEF KnownAfter
    <3>2. Arriving(w) = {} /\ stored = Completed(w)
      BY <1>5, <1>6, <1>7, <2>3 DEF Arriving, persist
    <3>. QED
      BY <1>4, <2>1, <3>1, <3>2 DEF Accounted
  <2>. QED
    BY <2>2, <2>3
<1>10. Persisted(sl) => Kept(w, stored, earned[sl] \ orphaned, Halfway(t, sl))
  BY <1>1, <1>4, <1>5, <1>6 DEF Kept
<1>11. orphaned \in SUBSET Steps /\ Lose(t, sl, orphaned)
  BY <1>3
<1>12. w \in SlotState /\ persist \in BOOLEAN
  BY <1>4, <1>5
<1>. QED
  BY <1>2, <1>8, <1>9, <1>10, <1>11, <1>12, LostFollowed DEF stored

(* Counting moves no step. *)
LEMMA CountAllCompletedFollowed ==
    ASSUME HInv, IInv', NEW t, Tabs = {t}, NEW k \in Counted, CountAllCompleted(t, k), Nothing
    PROVE  HInv'
<1>1. UNCHANGED <<storage, tab, resetting, events, wiped>>
  BY DEF CountAllCompleted
<1>2. HTypeOK' /\ \A x \in Slots : Untouched(x)
  BY NothingFacts DEF HInv, IInv
<1>3. \A x \in Slots : Halfway(t, x)' = Halfway(t, x)
  BY <1>1 DEF Halfway
<1>4. \A x \in Slots : Followed(t, x)'
  BY <1>1, <1>2, <1>3, UnmovedFollowed
<1>. QED
  BY <1>1, <1>2, <1>4 DEF HInv, Alone

(* The reset of guides forgets what was done in them and clears their       *)
(* storage; their buckets wait for the eviction.                            *)
LEMMA ClearAllForContentFollowed ==
    ASSUME HInv, IInv', NEW t, Tabs = {t}, NEW keys \in SUBSET ContentKeys,
           ClearAllForContent(t, keys),
           earned' = [sl \in Slots |-> IF KeyOf[sl] \in keys THEN {} ELSE earned[sl]],
           unheard' = [sl \in Slots |-> IF KeyOf[sl] \in keys THEN {} ELSE unheard[sl]],
           rewritten' = [sl \in Slots |-> IF KeyOf[sl] \in keys THEN {} ELSE rewritten[sl]]
    PROVE  HInv'
<1>1. /\ resetting[t] = {} /\ resetting'[t] = keys /\ UNCHANGED <<tab, wiped>>
      /\ storage' = [sl \in Slots |->
                       IF \E k \in keys : sl \in SlotsUnder(k) THEN {} ELSE storage[sl]]
      /\ \A x \in Slots : events'[t][x] = events[t][x]
  BY DEF ClearAllForContent, WriteStorage, Announce, HInv, IInv, TypeOK
<1>2. HTypeOK' /\ Alone'
  BY <1>1 DEF HInv, HTypeOK, Alone
<1>3. ASSUME NEW x \in Slots
      PROVE  Followed(t, x)'
  <2>1. /\ Followed(t, x) /\ ~Halfway(t, x)
        /\ Halfway(t, x)' <=> KeyOf[x] \in keys
    BY <1>1 DEF HInv, Halfway
  <2>2. ReadFacts(tab[t][x], Roster[x])'
    BY <1>1, <2>1 DEF Followed, ReadFacts, Completed
  <2>3. CASE KeyOf[x] \in keys
    <3>1. KeyOf[x] \in ContentKeys /\ x \in SlotsUnder(KeyOf[x])
      BY ConstantsOK DEF SlotsUnder
    <3>2. storage'[x] = {} /\ earned'[x] = {}
      BY <1>1, <2>3, <3>1
    <3>. QED
      BY <2>1, <2>2, <2>3, <3>2 DEF Followed, Accounted, Kept
  <2>4. CASE KeyOf[x] \notin keys
    <3>1. Untouched(x) /\ Known(x)' = Known(x)
      BY <2>4 DEF Untouched, Known
    <3>2. Unshadowed(x) => storage'[x] = storage[x]
      BY <1>1, <2>4 DEF SlotsUnder, Unshadowed
    <3>3. storage'[x] \subseteq storage[x]
      BY <1>1
    <3>4. KeyOf[x] \notin Preview
          => Accounted(tab[t][x], storage[x], Known(x), Halfway(t, x))'
      BY <1>1, <2>1, <2>4, <3>1, <3>3
         DEF Followed, Accounted, Completed, Arriving, Fetched
    <3>5. Persisted(x)' => Kept(tab[t][x], storage[x], earned[x], Halfway(t, x))'
      BY <1>1, <2>1, <2>4, <3>1, <3>2
         DEF Followed, Persisted, Unshadowed, Untouched, Kept, Completed, Arriving, Fetched
    <3>. QED
      BY <2>2, <3>4, <3>5 DEF Followed
  <2>. QED
    BY <2>3, <2>4
<1>. QED
  BY <1>2, <1>3 DEF HInv

(* An empty bucket is followed if what is stored is what is known of it. *)
LEMMA EmptyFollowed ==
    ASSUME NEW v \in SlotState, Completed(v) = {}, ~v.hydrated, ~v.reading,
           v.tracking = Untracked,
           NEW stored, NEW known, NEW done, NEW rendered
    PROVE  /\ ReadFacts(v, rendered)
           /\ stored \subseteq known => Accounted(v, stored, known, FALSE)
           /\ done \subseteq stored => Kept(v, stored, done, FALSE)
BY DEF ReadFacts, Accounted, Kept, Arriving, Fetched, Untracked

(* The eviction that ends a guide reset: what was written back meanwhile is *)
(* known, and what was completed meanwhile is in storage.                   *)
LEMMA EvictContentCacheFollowed ==
    ASSUME HInv, IInv', NEW t, Tabs = {t}, EvictContentCache(t), Nothing
    PROVE  HInv'
<1>. DEFINE evicted == {sl \in Slots : KeyOf[sl] \in resetting[t]}
<1>1. /\ \A x \in Slots : tab'[t][x] = IF x \in evicted THEN Evict(tab[t][x]) ELSE tab[t][x]
      /\ resetting'[t] = {} /\ UNCHANGED <<storage, events, wiped>>
  BY DEF EvictContentCache, EvictSlots, HInv, IInv, TypeOK
<1>2. /\ HTypeOK' /\ Alone'
      /\ \A x \in Slots : /\ Untouched(x)
                          /\ Halfway(t, x) => storage'[x] \subseteq Known(x)'
  BY <1>1, NothingFacts DEF HInv, IInv, Alone
<1>3. ASSUME NEW x \in Slots
      PROVE  Followed(t, x)'
  <2>1. ~Halfway(t, x)'
    BY <1>1 DEF Halfway
  <2>2. CASE x \in evicted
    <3>1. Halfway(t, x) /\ tab'[t][x] = Evict(tab[t][x])
      BY <1>1, <2>2 DEF Halfway
    <3>2. tab[t][x] \in SlotState
      BY DEF HInv, IInv, TypeOK
    <3>3. /\ tab'[t][x] \in SlotState /\ Completed(tab'[t][x]) = {}
          /\ ~tab'[t][x].hydrated /\ ~tab'[t][x].reading /\ tab'[t][x].tracking = Untracked
      BY <3>1, <3>2, EvictFacts DEF Evict, EmptySlot
    <3>4. storage'[x] \subseteq Known(x)'
      BY <1>2, <3>1
    <3>5. Persisted(x) => earned'[x] \subseteq storage'[x]
      BY <1>1, <1>2, <3>1 DEF HInv, Followed, Kept, Untouched
    <3>6. /\ ReadFacts(tab'[t][x], Roster[x])
          /\ Accounted(tab'[t][x], storage'[x], Known(x)', FALSE)
          /\ Persisted(x) => Kept(tab'[t][x], storage'[x], earned'[x], FALSE)
      BY <3>3, <3>4, <3>5, EmptyFollowed
    <3>. QED
      BY <2>1, <3>6 DEF Followed, Persisted, Unshadowed, ReadFacts, Accounted, Kept,
                        Completed, Arriving, Fetched
  <2>3. CASE x \notin evicted
    <3>1. tab'[t][x] = tab[t][x] /\ Halfway(t, x)' = Halfway(t, x)
      BY <1>1, <2>3 DEF Halfway
    <3>. QED
      BY <1>1, <1>2, <3>1, UnmovedFollowed
  <2>. QED
    BY <2>2, <2>3
<1>. QED
  BY <1>2, <1>3 DEF HInv

(* A page is unloaded when its reads are done: its caches were whole. *)
LEMMA ReloadFollowed ==
    ASSUME HInv, IInv', NEW t, Tabs = {t}, ~SlowReads, Reload(t), Nothing
    PROVE  HInv'
<1>1. /\ \A x \in Slots : /\ tab'[t][x] = EmptySlot /\ events'[t][x] = 0
                          /\ ~tab[t][x].reading
      /\ resetting'[t] = {} /\ wiped' = wiped \ {t} /\ UNCHANGED storage
  BY DEF Reload, TaskMayStart, Settled, HInv, IInv, TypeOK
<1>2. /\ HTypeOK' /\ Alone' /\ \A x \in Slots : Untouched(x)
  BY <1>1, NothingFacts DEF HInv, IInv, Alone
<1>3. ASSUME NEW x \in Slots
      PROVE  Followed(t, x)'
  <2>1. ~Halfway(t, x)'
    BY <1>1 DEF Halfway
  <2>2. Followed(t, x) /\ tab[t][x].tracking \in Tracking /\ Coherent(t, x)
        /\ WellFormed(tab[t][x])
    BY DEF HInv, IInv, TypeOK, SlotState
  <2>3. tab[t][x].tracking.ids = {}
    BY <1>1, <2>2 DEF Followed, ReadFacts, Tracking, Untracked, ClearedAll
  <2>4. KeyOf[x] \notin Preview => storage'[x] \subseteq Known(x)'
    BY <1>1, <1>2, <2>2, <2>3 DEF Followed, Accounted, Untouched
  <2>5. Persisted(x) => earned'[x] \subseteq storage'[x]
    <3>. SUFFICES ASSUME Persisted(x) PROVE earned[x] \subseteq storage[x]
      BY <1>1, <1>2 DEF Untouched
    <3>1. Kept(tab[t][x], storage[x], earned[x], Halfway(t, x))
      BY <2>2 DEF Followed
    <3>2. ~Halfway(t, x) /\ tab[t][x].hydrated => Completed(tab[t][x]) = storage[x]
      BY <1>1, <2>2 DEF Coherent, Agrees, Undisturbed, Halfway, HInv, Alone
    <3>3. Arriving(tab[t][x]) = {}
      BY <1>1 DEF Arriving, Fetched
    <3>. QED
      BY <3>1, <3>2, <3>3 DEF Kept
  <2>6. /\ ReadFacts(EmptySlot, Roster[x])
        /\ KeyOf[x] \notin Preview => Accounted(EmptySlot, storage'[x], Known(x)', FALSE)
        /\ Persisted(x) => Kept(EmptySlot, storage'[x], earned'[x], FALSE)
    <3>1. EmptySlot.tracking = Untracked
      BY DEF EmptySlot
    <3>. QED
      BY <2>4, <2>5, <3>1, EmptyFollowed, EmptySlotFacts
  <2>. QED
    BY <1>1, <2>1, <2>6 DEF Followed, Persisted, Unshadowed, ReadFacts, Accounted, Kept,
                            Completed, Arriving, Fetched
<1>. QED
  BY <1>2, <1>3 DEF HInv

(***************************************************************************)
(* The theorems of the history                                             *)
(***************************************************************************)
(* Whatever storage holds when the page loads was earned in an earlier one. *)
LEMMA HInitInvariant == ASSUME HInit PROVE HInv
<1>1. IInv
  BY InitInvariant DEF HInit
<1>2. HTypeOK
  BY <1>1 DEF HInit, HTypeOK, IInv, TypeOK
<1>3. Alone
  BY DEF HInit, Init, Alone
<1>4. ASSUME NEW t \in Tabs, NEW sl \in Slots
      PROVE  Followed(t, sl)
  <2>1. tab[t][sl] = EmptySlot /\ ~Halfway(t, sl)
    BY DEF HInit, Init, Halfway
  <2>2. storage[sl] \subseteq Known(sl) /\ earned[sl] = storage[sl]
    BY DEF HInit, Known
  <2>3. EmptySlot.tracking = Untracked
    BY DEF EmptySlot
  <2>4. /\ ReadFacts(EmptySlot, Roster[sl])
        /\ Accounted(EmptySlot, storage[sl], Known(sl), FALSE)
        /\ Kept(EmptySlot, storage[sl], earned[sl], FALSE)
    BY <2>2, <2>3, EmptyFollowed, EmptySlotFacts
  <2>. QED
    BY <2>1, <2>4 DEF Followed, Accounted, Kept
<1>. QED
  BY <1>1, <1>2, <1>3, <1>4 DEF HInv

(* Every step of the only tab keeps the invariant.                          *)
LEMMA HNextInvariant ==
    ASSUME NEW t, Tabs = {t}, ~SlowReads, HInv, [HNext]_hvars
    PROVE  HInv'
<1>1. IInv'
  BY HNextIsNext, NextInvariant DEF HInv
<1>2. CASE UNCHANGED hvars
  <2>1. UNCHANGED <<storage, tab, resetting, events, wiped>> /\ UNCHANGED history
    BY <1>2 DEF hvars, vars
  <2>2. HTypeOK' /\ Alone'
    BY <2>1 DEF HInv, HTypeOK, Alone, history
  <2>3. \A x \in Slots : Halfway(t, x)' = Halfway(t, x) /\ Untouched(x)
    BY <2>1 DEF Halfway, Untouched, Known, history
  <2>4. \A x \in Slots : Followed(t, x)'
    BY <2>1, <2>3, UnmovedFollowed
  <2>. QED
    BY <1>1, <2>2, <2>4 DEF HInv
<1>3. ASSUME NEW sl \in Slots,
             \/ Render(t, sl) /\ Nothing
             \/ ResolveRead(t, sl) /\ Nothing
             \/ DropStaleRead(t, sl) /\ Forgotten(t, sl)
             \/ \E s \in Steps, r \in Reasons \ {NoReason} :
                   MarkStepCompleted(t, sl, s, r) /\ Earn(t, sl, {s})
             \/ \E r \in Reasons \ {NoReason, Skipped} :
                   MarkStepsCompleted(t, sl, Roster[sl], r) /\ Earn(t, sl, Roster[sl])
      PROVE  HInv'
  BY <1>1, <1>3, RenderFollowed, ResolveReadFollowed, DropStaleReadFollowed,
     MarkStepCompletedFollowed, MarkStepsCompletedFollowed
<1>4. ASSUME NEW sl \in Slots,
             \/ \E ids \in SUBSET Steps :
                   tab[t][sl].hydrated /\ ResetSteps(t, sl, ids) /\ Lose(t, sl, ids)
             \/ tab[t][sl].hydrated /\ ResetSection(t, sl) /\ Lose(t, sl, Steps)
             \/ /\ ReconcileSection(t, sl)
                /\ Lose(t, sl, Completed(tab[t][sl]) \ Roster[sl])
      PROVE  HInv'
  BY <1>1, <1>4, ResetStepsFollowed, ResetSectionFollowed, ReconcileSectionFollowed
<1>5. \A sl \in Slots : ~HandleStorageEvent(t, sl)
  BY DEF HandleStorageEvent, HInv, Alone
<1>6. ~HandleWipeEvent(t)
  BY DEF HandleWipeEvent, HInv, Alone
<1>7. ASSUME NEW k \in Counted, CountAllCompleted(t, k), Nothing
      PROVE  HInv'
  BY <1>1, <1>7, CountAllCompletedFollowed
<1>8. ASSUME NEW keys \in SUBSET ContentKeys,
             ClearAllForContent(t, keys),
             earned' = [sl \in Slots |-> IF KeyOf[sl] \in keys THEN {} ELSE earned[sl]],
             unheard' = [sl \in Slots |-> IF KeyOf[sl] \in keys THEN {} ELSE unheard[sl]],
             rewritten' = [sl \in Slots |-> IF KeyOf[sl] \in keys THEN {} ELSE rewritten[sl]]
      PROVE  HInv'
  BY <1>1, <1>8, ClearAllForContentFollowed
<1>9. ASSUME EvictContentCache(t) \/ Reload(t), Nothing
      PROVE  HInv'
  BY <1>1, <1>9, EvictContentCacheFollowed, ReloadFollowed
<1>. QED
  BY <1>2, <1>3, <1>4, <1>5, <1>6, <1>7, <1>8, <1>9 DEF HNext

(* At rest no read is in flight and nothing is tracked.                     *)
LEMMA InvariantImpliesResets ==
    ASSUME NEW t, Tabs = {t}, HInv
    PROVE  ResetStepsStayReset /\ CompletedStepsAreStored
<1>. SUFFICES ASSUME NEW sl \in Slots, AtRest(sl)
              PROVE  /\ storage[sl] \subseteq Known(sl)
                     /\ Unshadowed(sl) => earned[sl] \subseteq storage[sl]
  BY DEF ResetStepsStayReset, CompletedStepsAreStored, Known
<1>1. /\ KeyOf[sl] \notin Preview /\ Quiet(t, sl)
      /\ Followed(t, sl) /\ tab[t][sl].tracking \in Tracking
  BY DEF AtRest, HInv, IInv, TypeOK, SlotState
<1>2. ~tab[t][sl].reading /\ ~Halfway(t, sl)
  BY <1>1 DEF Quiet, Halfway
<1>3. tab[t][sl].tracking.ids = {} /\ Arriving(tab[t][sl]) = {}
  BY <1>1, <1>2
     DEF Followed, ReadFacts, Arriving, Fetched, Tracking, Untracked, ClearedAll
<1>4. storage[sl] \subseteq Known(sl)
  BY <1>1, <1>3 DEF Followed, Accounted
<1>5. ASSUME Unshadowed(sl)
      PROVE  earned[sl] \subseteq storage[sl]
  <2>1. Kept(tab[t][sl], storage[sl], earned[sl], FALSE)
    BY <1>1, <1>2, <1>5 DEF Followed, Persisted, Kept
  <2>2. tab[t][sl].hydrated => Completed(tab[t][sl]) = storage[sl]
    BY <1>1, <1>5, InvariantImpliesCoherence DEF HInv, CacheMatchesStorage
  <2>. QED
    BY <1>3, <2>1, <2>2 DEF Kept
<1>. QED
  BY <1>4, <1>5

(* In one tab whose reads end within their task, every step id is followed  *)
(* from storage to the bucket and back, whatever renders, clears, resets,   *)
(* reconciles, evicts or reloads in between.                                *)
THEOREM HistoryInvariance ==
    ASSUME NEW t, Tabs = {t}, ~SlowReads
    PROVE  HSpec => []HInv
<1>1. HInit => HInv
  BY HInitInvariant
<1>2. HInv /\ [HNext]_hvars => HInv'
  BY HNextInvariant
<1>. QED
  BY <1>1, <1>2, PTL DEF HSpec

(* A step the user reset is not in storage once its section is at rest, but *)
(* for the clears a dropped read forgot and what a guide reset found        *)
(* written back.                                                            *)
THEOREM ResetsStay ==
    ASSUME NEW t, Tabs = {t}, ~SlowReads
    PROVE  HSpec => []ResetStepsStayReset
<1>1. HInv => ResetStepsStayReset
  BY InvariantImpliesResets
<1>. QED
  BY <1>1, HistoryInvariance, PTL

(* A step the user completed and did not reset is in storage once its       *)
(* section is at rest: what is written while the section hydrates is made   *)
(* whole.                                                                   *)
THEOREM CompletionsStored ==
    ASSUME NEW t, Tabs = {t}, ~SlowReads
    PROVE  HSpec => []CompletedStepsAreStored
<1>1. HInv => CompletedStepsAreStored
  BY InvariantImpliesResets
<1>. QED
  BY <1>1, HistoryInvariance, PTL

(***************************************************************************)
(* The cached counts                                                       *)
(***************************************************************************)
(* The stored keys of a guide whose count is read are no other guide's. *)
CountsApart == \A k \in Counted : \A sl \in SlotsUnder(k) : Unshadowed(sl)

(* Events aside, a cached count is the stored one. *)
Fresh ==
    \A t \in Tabs, k \in Counted :
        counts[t][k] # NoCount => counts[t][k] = CountAll(storage, k)

(* A count depends on the stored sections of the guide only. *)
LEMMA CountAllLocal ==
    ASSUME NEW k, NEW st1, NEW st2, \A sl \in SlotsUnder(k) : st1[sl] = st2[sl]
    PROVE  CountAll(st1, k) = CountAll(st2, k)
<1>1. {p \in SlotsUnder(k) \X Steps : p[2] \in st1[p[1]]}
      = {p \in SlotsUnder(k) \X Steps : p[2] \in st2[p[1]]}
  OBVIOUS
<1>. QED
  BY <1>1 DEF CountAll

(* A write of one section sets the count of its guide; no other counts it.  *)
LEMMA PersistFresh ==
    ASSUME IInv, Fresh, CountsApart, NEW t, Tabs = {t}, NEW sl \in Slots, NEW ids,
           PersistSection(t, sl, ids)
    PROVE  Fresh'
<1>1. CASE KeyOf[sl] \in Preview
  BY <1>1 DEF PersistSection, Fresh, CountAll
<1>2. CASE KeyOf[sl] \notin Preview
  <2> DEFINE st == [storage EXCEPT ![sl] = ids]
  <2>1. /\ storage' = st
        /\ SetCount(t, {KeyOf[sl]}, CountAll(st, KeyOf[sl]))
    BY <1>2 DEF PersistSection, WriteStorage
  <2>2. \A x \in Slots \ {sl} : st[x] = storage[x]
    BY DEF IInv, TypeOK
  <2>. HIDE DEF st
  <2>3. ASSUME NEW k \in Counted, counts'[t][k] # NoCount
        PROVE  counts'[t][k] = CountAll(st, k)
    <3>1. counts'[t][k] = IF k = KeyOf[sl] THEN CountAll(st, KeyOf[sl]) ELSE counts[t][k]
      BY <2>1 DEF SetCount, IInv, TypeOK
    <3>2. CASE k = KeyOf[sl]
      BY <3>1, <3>2
    <3>3. CASE k # KeyOf[sl]
      <4>1. k \in ContentKeys
        BY ConstantsOK
      <4>2. sl \notin SlotsUnder(k)
        BY <3>3, <4>1 DEF CountsApart, SlotsUnder, Unshadowed
      <4>3. CountAll(st, k) = CountAll(storage, k)
        <5>1. \A x \in SlotsUnder(k) : st[x] = storage[x]
          BY <2>2, <4>2 DEF SlotsUnder
        <5>. QED
          BY <5>1, CountAllLocal
      <4>. QED
        BY <2>3, <3>1, <3>3, <4>3 DEF Fresh
    <3>. QED
      BY <3>2, <3>3
  <2>. QED
    BY <2>1, <2>3 DEF Fresh
<1>. QED
  BY <1>1, <1>2

(* Forgetting counts keeps the others fresh. *)
LEMMA ForgetFresh ==
    ASSUME IInv, Fresh, NEW t, Tabs = {t}, NEW keys, SetCount(t, keys, NoCount),
           UNCHANGED storage
    PROVE  Fresh'
BY DEF SetCount, Fresh, IInv, TypeOK

(* A guide reset forgets the counts of the guides whose storage it clears. *)
LEMMA ClearAllForContentFresh ==
    ASSUME IInv, Fresh, CountsApart, NEW t, Tabs = {t}, NEW keys \in SUBSET ContentKeys,
           ClearAllForContent(t, keys)
    PROVE  Fresh'
<1>1. /\ storage' = [sl \in Slots |->
                       IF \E k \in keys : sl \in SlotsUnder(k) THEN {} ELSE storage[sl]]
      /\ SetCount(t, keys, NoCount)
  BY DEF ClearAllForContent, WriteStorage
<1>2. ASSUME NEW k \in Counted, counts'[t][k] # NoCount
      PROVE  counts'[t][k] = CountAll(storage', k)
  <2>1. k \notin keys /\ counts'[t][k] = counts[t][k]
    BY <1>1, <1>2 DEF SetCount, IInv, TypeOK
  <2>2. k \in ContentKeys
    BY ConstantsOK
  <2>3. ASSUME NEW sl \in SlotsUnder(k)
        PROVE  storage'[sl] = storage[sl]
    <3>1. sl \in Slots /\ <<k, KeyOf[sl]>> \in Prefix /\ Unshadowed(sl)
      BY DEF SlotsUnder, CountsApart
    <3>2. ASSUME NEW j \in keys PROVE sl \notin SlotsUnder(j)
      BY <2>1, <2>2, <3>1 DEF SlotsUnder, Unshadowed
    <3>. QED
      BY <1>1, <3>1, <3>2
  <2>4. CountAll(storage', k) = CountAll(storage, k)
    BY <2>3, CountAllLocal
  <2>. QED
    BY <1>2, <2>1, <2>4 DEF Fresh
<1>. QED
  BY <1>2 DEF Fresh

(* The operations on a section write it through persistSection or not at all. *)
LEMMA SectionFresh ==
    ASSUME IInv, Fresh, CountsApart, NEW t, Tabs = {t}, NEW sl \in Slots,
           \/ Render(t, sl)
           \/ UnmountPreview(t, sl)
           \/ ResolveRead(t, sl)
           \/ DropStaleRead(t, sl)
           \/ \E s \in Steps, r \in Reasons \ {NoReason} : MarkStepCompleted(t, sl, s, r)
           \/ \E r \in Reasons \ {NoReason, Skipped} : MarkStepsCompleted(t, sl, Roster[sl], r)
           \/ \E ids \in SUBSET Steps : ResetSteps(t, sl, ids)
           \/ ResetSection(t, sl)
           \/ ReconcileSection(t, sl)
    PROVE  Fresh'
<1>1. \/ UNCHANGED <<storage, counts>>
      \/ \E ids : PersistSection(t, sl, ids)
  BY DEF Render, UnmountPreview, ResolveRead, DropStaleRead, MarkStepCompleted,
         MarkStepsCompleted, ResetSteps, ResetSection, ReconcileSection, Store, Keep,
         KeepAndPersist
<1>2. CASE UNCHANGED <<storage, counts>>
  BY <1>2 DEF Fresh, CountAll
<1>. QED
  BY <1>1, <1>2, PersistFresh

(* Every step keeps the counts fresh, but a wipe of the origin's storage.   *)
LEMMA NextFresh ==
    ASSUME IInv, Fresh, CountsApart, NEW t, Tabs = {t}, ~OriginWipes, [Next]_vars
    PROVE  Fresh'
<1>1. CASE UNCHANGED vars
  BY <1>1 DEF vars, Fresh, CountAll
<1>2. ASSUME NEW sl \in Slots, HandleStorageEvent(t, sl)
      PROVE  Fresh'
  <2>1. CASE tab[t][sl].hydrated
    BY <1>2, <2>1, ForgetFresh DEF HandleStorageEvent
  <2>2. CASE ~tab[t][sl].hydrated
    BY <1>2, <2>2 DEF HandleStorageEvent, Fresh, CountAll
  <2>. QED
    BY <2>1, <2>2
<1>3. ASSUME NEW k \in Counted, CountAllCompleted(t, k)
      PROVE  Fresh'
  BY <1>3 DEF CountAllCompleted, SetCount, Fresh, IInv, TypeOK
<1>4. ASSUME NEW keys \in SUBSET ContentKeys, ClearAllForContent(t, keys)
      PROVE  Fresh'
  BY <1>4, ClearAllForContentFresh
<1>5. ASSUME EvictContentCache(t) \/ HandleWipeEvent(t)
      PROVE  Fresh'
  BY <1>5 DEF EvictContentCache, HandleWipeEvent, Fresh, CountAll
<1>6. ASSUME Reload(t)
      PROVE  Fresh'
  BY <1>6, ForgetFresh DEF Reload
<1>7. ~WipeStorage
  BY DEF WipeStorage
<1>. QED
  BY <1>1, <1>2, <1>3, <1>4, <1>5, <1>6, <1>7, SectionFresh DEF Next

(* In one tab on an origin nobody wipes, a guide whose stored keys are no   *)
(* other guide's is counted right whenever its count is cached.             *)
THEOREM CountsFresh ==
    ASSUME NEW t, Tabs = {t}, ~OriginWipes, CountsApart
    PROVE  Spec => []CountsAreFresh
<1>1. Init => IInv /\ Fresh
  BY InitInvariant DEF Init, Fresh
<1>2. IInv /\ Fresh /\ [Next]_vars => IInv' /\ Fresh'
  BY NextInvariant, NextFresh
<1>3. Fresh => CountsAreFresh
  BY DEF Fresh, CountsAreFresh
<1>. QED
  BY <1>1, <1>2, <1>3, PTL DEF Spec

(***************************************************************************)
(* The ledger of what is shown                                             *)
(***************************************************************************)
(* A guide reset that is halfway through finds in storage only what the     *)
(* section shows: a write of the bucket since it cleared storage.           *)
Written ==
    \A t \in Tabs, sl \in Ledgered :
        Halfway(t, sl) => storage[sl] \subseteq Completed(tab[t][sl])

LedgerVars == <<ShownSteps, WithheldSteps, Deafened, Clearing>>
LedgerStep == [Ledger!Next]_LedgerVars

(* What the ledger of the only tab says of a section. *)
LEMMA LedgerReads ==
    ASSUME NEW t, Tabs = {t}
    PROVE  /\ OnlyTab = t
           /\ \A sl \in Ledgered :
                 /\ sl \in Slots /\ Persisted(sl) /\ KeyOf[sl] \notin Preview
                 /\ ShownSteps[sl] = ShownBy(tab[t][sl], storage[sl])
                 /\ WithheldSteps[sl] = WithheldBy(tab[t][sl])
                 /\ sl \in Deafened <=> Deaf(tab[t][sl])
                 /\ sl \in Clearing <=> Halfway(t, sl)
<1>1. OnlyTab = t
  BY DEF OnlyTab
<1>. QED
  BY <1>1 DEF Ledgered, Persisted, Bucket, ShownSteps, WithheldSteps, Deafened, Clearing, Halfway

(* The parts of the ledger before and after a step, section by section.     *)
LEMMA LedgerParts ==
    ASSUME NEW t, Tabs = {t}
    PROVE  /\ ShownSteps = [x \in Ledgered |-> ShownBy(tab[t][x], storage[x])]
           /\ ShownSteps' = [x \in Ledgered |-> ShownBy(tab'[t][x], storage'[x])]
           /\ WithheldSteps = [x \in Ledgered |-> WithheldBy(tab[t][x])]
           /\ WithheldSteps' = [x \in Ledgered |-> WithheldBy(tab'[t][x])]
           /\ Deafened = {x \in Ledgered : Deaf(tab[t][x])}
           /\ Deafened' = {x \in Ledgered : Deaf(tab'[t][x])}
           /\ Clearing = {x \in Ledgered : KeyOf[x] \in resetting[t]}
           /\ Clearing' = {x \in Ledgered : KeyOf[x] \in resetting'[t]}
<1>1. OnlyTab = t /\ OnlyTab' = t
  BY DEF OnlyTab
<1>2. /\ ShownSteps = [x \in Ledgered |-> ShownBy(tab[t][x], storage[x])]
      /\ ShownSteps' = [x \in Ledgered |-> ShownBy(tab'[t][x], storage'[x])]
  BY <1>1 DEF ShownSteps, Bucket, Ledgered, Unshadowed, ShownBy, Completed, Arriving, Fetched
<1>3. /\ WithheldSteps = [x \in Ledgered |-> WithheldBy(tab[t][x])]
      /\ WithheldSteps' = [x \in Ledgered |-> WithheldBy(tab'[t][x])]
  BY <1>1 DEF WithheldSteps, Bucket, Ledgered, Unshadowed, WithheldBy, Arriving, Fetched
<1>4. /\ Deafened = {x \in Ledgered : Deaf(tab[t][x])}
      /\ Deafened' = {x \in Ledgered : Deaf(tab'[t][x])}
  BY <1>1 DEF Deafened, Bucket, Ledgered, Unshadowed, Deaf
<1>5. /\ Clearing = {x \in Ledgered : KeyOf[x] \in resetting[t]}
      /\ Clearing' = {x \in Ledgered : KeyOf[x] \in resetting'[t]}
  BY <1>1 DEF Clearing, Ledgered, Unshadowed
<1>. QED
  BY <1>2, <1>3, <1>4, <1>5

(* Storing a bucket moves its own section's page of the ledger only.        *)
LEMMA StoreLedger ==
    ASSUME HInv, Written, NEW t, Tabs = {t}, NEW sl \in Slots, NEW w \in SlotState,
           NEW persist \in BOOLEAN, Store(t, sl, w, persist), UNCHANGED <<resetting, wiped>>,
           persist \/ Completed(tab[t][sl]) \subseteq Completed(w)
    PROVE  LET v == tab[t][sl]
               after == ShownBy(w, StoredAfter(sl, w, persist))
           IN /\ Written'
              /\ UNCHANGED Clearing
              /\ sl \notin Ledgered => UNCHANGED <<ShownSteps, WithheldSteps, Deafened>>
              /\ ShownSteps' = [ShownSteps EXCEPT ![sl] = after]
              /\ after = ShownBy(v, storage[sl]) => UNCHANGED ShownSteps
              /\ WithheldSteps' = [WithheldSteps EXCEPT ![sl] = WithheldBy(w)]
              /\ WithheldBy(w) = WithheldBy(v) => UNCHANGED WithheldSteps
              /\ Deaf(w) /\ sl \in Ledgered => Deafened' = Deafened \cup {sl}
              /\ ~Deaf(w) => Deafened' = Deafened \ {sl}
              /\ (Deaf(w) <=> Deaf(v)) => UNCHANGED Deafened
<1>. DEFINE v == tab[t][sl]
            after == ShownBy(w, StoredAfter(sl, w, persist))
<1>1. /\ tab'[t][sl] = w
      /\ KeyOf[sl] \notin Preview => storage'[sl] = StoredAfter(sl, w, persist)
      /\ \A x \in Slots \ {sl} : tab'[t][x] = tab[t][x] /\ storage'[x] = storage[x]
  BY StoreFrame DEF HInv
<1>2. Ledgered \subseteq Slots /\ \A x \in Ledgered : KeyOf[x] \notin Preview
  BY DEF Ledgered
<1>3. Written'
  <2>. SUFFICES ASSUME NEW x \in Ledgered, Halfway(t, x)
                PROVE  storage'[x] \subseteq Completed(tab'[t][x])
    BY DEF Written, Ledgered, Unshadowed, Halfway, Completed
  <2>1. storage[x] \subseteq Completed(tab[t][x])
    BY DEF Written
  <2>. QED
    BY <1>1, <1>2, <2>1 DEF StoredAfter
<1>4. UNCHANGED Clearing
  BY LedgerParts
<1>5. ShownSteps' = [x \in Ledgered |-> IF x = sl THEN after ELSE ShownSteps[x]]
  BY <1>1, <1>2, LedgerParts
<1>6. WithheldSteps' = [x \in Ledgered |-> IF x = sl THEN WithheldBy(w) ELSE WithheldSteps[x]]
  BY <1>1, <1>2, LedgerParts
<1>7. Deafened' = {x \in Ledgered : IF x = sl THEN Deaf(w) ELSE x \in Deafened}
  BY <1>1, <1>2, LedgerParts
<1>. HIDE DEF after, v
<1>8. /\ ShownSteps' = [ShownSteps EXCEPT ![sl] = after]
      /\ sl \notin Ledgered => UNCHANGED ShownSteps
      /\ after = ShownBy(v, storage[sl]) => UNCHANGED ShownSteps
  BY <1>5, LedgerParts DEF v
<1>9. /\ WithheldSteps' = [WithheldSteps EXCEPT ![sl] = WithheldBy(w)]
      /\ sl \notin Ledgered => UNCHANGED WithheldSteps
      /\ WithheldBy(w) = WithheldBy(v) => UNCHANGED WithheldSteps
  BY <1>6, LedgerParts DEF v
<1>10. /\ Deaf(w) /\ sl \in Ledgered => Deafened' = Deafened \cup {sl}
       /\ ~Deaf(w) => Deafened' = Deafened \ {sl}
       /\ sl \notin Ledgered => UNCHANGED Deafened
       /\ (Deaf(w) <=> Deaf(v)) => UNCHANGED Deafened
  <2>1. Deafened \subseteq Ledgered /\ (sl \in Deafened => Deaf(v))
        /\ (sl \in Ledgered /\ Deaf(v) => sl \in Deafened)
    BY LedgerParts DEF v
  <2>. QED
    BY <1>7, <2>1
<1>11. sl \notin Ledgered => UNCHANGED <<ShownSteps, WithheldSteps, Deafened>>
  BY <1>8, <1>9, <1>10
<1>. QED
  BY <1>3, <1>4, <1>8, <1>9, <1>10, <1>11 DEF after, v

(* A step that leaves the four parts of the ledger alone is a stutter.      *)
LEMMA LedgerStutter ==
    ASSUME UNCHANGED LedgerVars
    PROVE  LedgerStep
BY DEF LedgerStep

(* ensureHydrated shows what is stored: what the section was to show.       *)
LEMMA OpenedLedger ==
    ASSUME HInv, NEW t, Tabs = {t}, NEW sl \in Slots
    PROVE  LET u == tab[t][sl]
               v == Opened(t, sl)
           IN /\ v \in SlotState /\ v.hydrated /\ Completed(v) = Completed(u)
              /\ ReadFacts(v, Roster[sl])
              /\ Completed(v) \cup Arriving(v) = ShownBy(u, storage[sl])
              /\ WithheldBy(v) = WithheldBy(u)
              /\ (Deaf(v) <=> Deaf(u))
<1>. DEFINE u == tab[t][sl]
            v == Opened(t, sl)
<1>1. u \in SlotState /\ WellFormed(u) /\ storage[sl] \in SUBSET Steps
  BY DEF HInv, IInv, TypeOK
<1>2. /\ v \in SlotState /\ v.hydrated /\ Completed(v) = Completed(u)
      /\ u.hydrated => v = u
      /\ ReadFacts(v, Roster[sl])
  BY <1>1, OpenedFollowed, EnsureHydratedFacts DEF Opened
<1>3. CASE u.hydrated
  BY <1>2, <1>3 DEF ShownBy
<1>4. CASE ~u.hydrated
  <2>1. v.snap = storage[sl] /\ v.tracking.kind = "ids" /\ v.tracking.ids = {} /\ v.reading
    BY <1>1, <1>4 DEF Opened, EnsureHydrated, SlotState
  <2>2. Completed(u) = {} /\ ~u.reading
    BY <1>1, <1>4 DEF WellFormed
  <2>. QED
    BY <1>2, <1>4, <2>1, <2>2 DEF ShownBy, Arriving, Fetched, WithheldBy, Deaf
<1>. QED
  BY <1>3, <1>4

(* Rendering a section shows what it was to show. *)
LEMMA RenderLedger ==
    ASSUME HInv, Written, NEW t, Tabs = {t}, NEW sl \in Slots, Render(t, sl)
    PROVE  Written' /\ LedgerStep
<1>. DEFINE v == Opened(t, sl)
            persist == FALSE
<1>1. Store(t, sl, v, persist) /\ UNCHANGED <<resetting, wiped>> /\ persist \in BOOLEAN
  BY DEF Render, Store, Opened
<1>2. /\ v \in SlotState /\ v.hydrated /\ Completed(v) = Completed(tab[t][sl])
      /\ Completed(v) \cup Arriving(v) = ShownBy(tab[t][sl], storage[sl])
      /\ WithheldBy(v) = WithheldBy(tab[t][sl]) /\ (Deaf(v) <=> Deaf(tab[t][sl]))
  BY OpenedLedger
<1>. HIDE DEF v, persist
<1>3. ShownBy(v, StoredAfter(sl, v, persist)) = ShownBy(tab[t][sl], storage[sl])
  BY <1>2 DEF ShownBy
<1>4. Written' /\ UNCHANGED LedgerVars
  BY <1>1, <1>2, <1>3, StoreLedger DEF LedgerVars
<1>. QED
  BY <1>4, LedgerStutter

(* A read ends with what it was to bring. *)
LEMMA ResolveReadLedger ==
    ASSUME HInv, Written, NEW t, Tabs = {t}, NEW sl \in Slots, ResolveRead(t, sl)
    PROVE  Written' /\ LedgerStep
<1>. DEFINE v == tab[t][sl]
            added == IF v.tracking.kind = "all" THEN {} ELSE MergeSnapshot(v)
            settled == [v EXCEPT !.reading = FALSE, !.snap = {}, !.tracking = Untracked]
            w == IF added = {} THEN settled ELSE PutEntries(settled, added, NoReason)
            persist == added # {} \/ v.tracking.ids # {}
<1>1. /\ v \in SlotState /\ v.tracking \in Tracking /\ v.snap \in SUBSET Steps
      /\ WellFormed(v)
  BY DEF HInv, IInv, TypeOK, SlotState
<1>2. v.reading /\ v.hydrated
  BY <1>1 DEF ResolveRead, WritesBack, WellFormed
<1>3. /\ settled \in SlotState /\ Completed(settled) = Completed(v)
      /\ settled.hydrated /\ ~settled.reading
  BY <1>1, <1>2 DEF SlotState, Tracking, Untracked, Completed
<1>4. /\ added \in SUBSET Steps /\ Completed(v) \cup added = Completed(v) \cup Arriving(v)
  BY <1>1, <1>2 DEF MergeSnapshot, Arriving, Fetched
<1>5. Store(t, sl, w, persist) /\ UNCHANGED <<resetting, wiped>> /\ persist \in BOOLEAN
  BY DEF ResolveRead, WritesBack
<1>6. NoReason \in Reasons
  BY ConstantsOK
<1>. HIDE DEF settled
<1>7. /\ w \in SlotState /\ Completed(w) = Completed(v) \cup Arriving(v)
      /\ w.hydrated /\ ~w.reading
  BY <1>3, <1>4, <1>6, PutEntriesFacts
<1>. HIDE DEF w, added, persist
<1>8. /\ ShownBy(w, StoredAfter(sl, w, persist)) = ShownBy(v, storage[sl])
      /\ WithheldBy(w) = {} /\ ~Deaf(w)
  BY <1>2, <1>7 DEF ShownBy, Arriving, Fetched, WithheldBy, Deaf
<1>9. /\ Written' /\ UNCHANGED <<ShownSteps, Clearing>>
      /\ sl \notin Ledgered => UNCHANGED LedgerVars
      /\ WithheldSteps' = [WithheldSteps EXCEPT ![sl] = {}]
      /\ Deafened' = Deafened \ {sl}
  BY <1>5, <1>7, <1>8, StoreLedger DEF LedgerVars
<1>10. CASE sl \in Ledgered
  BY <1>9, <1>10 DEF LedgerStep, Ledger!Next, Ledger!EndRead
<1>. QED
  BY <1>9, <1>10, LedgerStutter

(* What an older read's `.then` makes a read forget comes back. *)
LEMMA DropStaleReadLedger ==
    ASSUME HInv, Written, IInv', NEW t, Tabs = {t}, NEW sl \in Slots, DropStaleRead(t, sl)
    PROVE  Written' /\ LedgerStep
<1>. DEFINE v == tab[t][sl]
            w == [ForgetTracking(v) EXCEPT !.stale = @ - 1]
            persist == FALSE
<1>1. /\ v \in SlotState /\ v.tracking \in Tracking /\ v.snap \in SUBSET Steps
      /\ WellFormed(v) /\ ReadFacts(v, Roster[sl])
  BY DEF HInv, IInv, TypeOK, SlotState, Followed
<1>2. Store(t, sl, w, persist) /\ UNCHANGED <<resetting, wiped>> /\ persist \in BOOLEAN
  BY DEF DropStaleRead, Store
<1>3. w = tab'[t][sl]
  BY <1>2 DEF Store, Keep, HInv, IInv, TypeOK
<1>4. w \in SlotState
  BY <1>3 DEF IInv, TypeOK
<1>5. /\ Completed(w) = Completed(v) /\ w.hydrated = v.hydrated /\ w.reading = v.reading
      /\ w.snap = v.snap /\ w.tracking = Untracked
  BY <1>1 DEF ForgetTracking, SlotState, Completed
<1>6. StoredAfter(sl, w, persist) = storage[sl]
  BY DEF StoredAfter
<1>. HIDE DEF w, v, persist
<1>7. CASE ~v.reading
  <2>1. v.tracking = Untracked
    BY <1>1, <1>7 DEF ReadFacts, Tracking, Untracked, ClearedAll
  <2>2. /\ ShownBy(w, StoredAfter(sl, w, persist)) = ShownBy(v, storage[sl])
        /\ WithheldBy(w) = WithheldBy(v) /\ (Deaf(w) <=> Deaf(v))
    BY <1>5, <1>6, <1>7, <2>1 DEF ShownBy, Arriving, Fetched, WithheldBy, Deaf
  <2>3. Written' /\ UNCHANGED LedgerVars
    BY <1>2, <1>4, <1>5, <2>2, StoreLedger DEF LedgerVars, v
  <2>. QED
    BY <2>3, LedgerStutter
<1>8. CASE v.reading
  <2>1. v.hydrated
    BY <1>1, <1>8 DEF WellFormed
  <2>2. /\ ShownBy(w, StoredAfter(sl, w, persist)) = ShownBy(v, storage[sl]) \cup WithheldBy(v)
        /\ WithheldBy(w) = {} /\ Deaf(w)
    BY <1>5, <1>6, <1>8, <2>1 DEF ShownBy, Arriving, Fetched, WithheldBy, Deaf, Untracked
  <2>3. /\ Written' /\ UNCHANGED Clearing
        /\ sl \notin Ledgered => UNCHANGED LedgerVars
        /\ ShownSteps' = [ShownSteps EXCEPT ![sl] = ShownBy(v, storage[sl]) \cup WithheldBy(v)]
        /\ WithheldSteps' = [WithheldSteps EXCEPT ![sl] = {}]
        /\ sl \in Ledgered => Deafened' = Deafened \cup {sl}
    BY <1>2, <1>4, <1>5, <2>2, StoreLedger DEF LedgerVars, v
  <2>4. CASE sl \in Ledgered
    <3>1. ShownSteps[sl] = ShownBy(v, storage[sl]) /\ WithheldSteps[sl] = WithheldBy(v)
      BY <2>4, LedgerReads DEF v
    <3>2. Ledger!Relapse(sl)
      BY <2>3, <2>4, <3>1 DEF Ledger!Relapse, Ledger!Shows
    <3>. QED
      BY <2>3, <2>4, <3>2 DEF LedgerStep, Ledger!Next
  <2>. QED
    BY <2>3, <2>4, LedgerStutter
<1>. QED
  BY <1>7, <1>8

(* A bucket that gains ids shows them. *)
LEMMA GainedLedger ==
    ASSUME HInv, Written, NEW t, Tabs = {t}, NEW sl \in Slots, NEW ids \in SUBSET Steps,
           NEW w \in SlotState, NEW persist \in BOOLEAN,
           Completed(w) = Completed(Opened(t, sl)) \cup ids,
           w.hydrated, w.reading = Opened(t, sl).reading, w.snap = Opened(t, sl).snap,
           w.tracking = Opened(t, sl).tracking,
           Store(t, sl, w, persist), UNCHANGED <<resetting, wiped>>
    PROVE  Written' /\ LedgerStep
<1>. DEFINE v == Opened(t, sl)
            u == tab[t][sl]
<1>1. /\ v.hydrated /\ Completed(v) = Completed(u)
      /\ Completed(v) \cup Arriving(v) = ShownBy(u, storage[sl])
      /\ WithheldBy(v) = WithheldBy(u) /\ (Deaf(v) <=> Deaf(u))
  BY OpenedLedger
<1>2. /\ Arriving(w) = Arriving(v) /\ WithheldBy(w) = WithheldBy(v) /\ (Deaf(w) <=> Deaf(v))
  BY DEF Arriving, Fetched, WithheldBy, Deaf
<1>3. ShownBy(w, StoredAfter(sl, w, persist)) = ShownBy(u, storage[sl]) \cup ids
  <2>. HIDE DEF v, u
  <2>. QED
    BY <1>1, <1>2 DEF ShownBy, v
<1>. HIDE DEF v
<1>4. /\ Written' /\ UNCHANGED <<WithheldSteps, Deafened, Clearing>>
      /\ sl \notin Ledgered => UNCHANGED LedgerVars
      /\ ShownSteps' = [ShownSteps EXCEPT ![sl] = ShownBy(u, storage[sl]) \cup ids]
  BY <1>1, <1>2, <1>3, StoreLedger DEF LedgerVars, v
<1>5. CASE sl \in Ledgered
  <2>1. Ledger!Complete(sl, ids)
    BY <1>4, <1>5, LedgerReads DEF Ledger!Complete, Ledger!Shows
  <2>. QED
    BY <1>4, <1>5, <2>1 DEF LedgerStep, Ledger!Next
<1>. QED
  BY <1>4, <1>5, LedgerStutter

(* A completed step is shown. *)
LEMMA MarkStepCompletedLedger ==
    ASSUME HInv, Written, NEW t, Tabs = {t}, NEW sl \in Slots, NEW s \in Steps,
           NEW r \in Reasons \ {NoReason}, MarkStepCompleted(t, sl, s, r)
    PROVE  Written' /\ LedgerStep
<1>. DEFINE v == Opened(t, sl)
            w == PutEntries(v, {s}, r)
            ids == {s}
            marked == AlreadyMarked(v, s, r)
            persist == ~marked
            kept == IF marked THEN v ELSE w
<1>1. v \in SlotState /\ v.hydrated
  BY OpenedFollowed
<1>2. /\ ids \in SUBSET Steps /\ UNCHANGED <<resetting, wiped>> /\ persist \in BOOLEAN
      /\ Store(t, sl, kept, persist)
  BY DEF MarkStepCompleted, Store, Opened
<1>3. marked => Completed(v) = Completed(v) \cup ids
  <2>1. r # Absent /\ Skipped # Absent
    BY ConstantsOK DEF Skipped, Absent
  <2>. QED
    BY <2>1 DEF AlreadyMarked, Completed
<1>. HIDE DEF v
<1>4. /\ w \in SlotState /\ Completed(w) = Completed(v) \cup ids
      /\ w.hydrated /\ w.reading = v.reading /\ w.snap = v.snap /\ w.tracking = v.tracking
  BY <1>1, PutEntriesFacts
<1>5. /\ kept \in SlotState /\ Completed(kept) = Completed(v) \cup ids
      /\ kept.hydrated /\ kept.reading = v.reading /\ kept.snap = v.snap
      /\ kept.tracking = v.tracking
  <2>. HIDE DEF w, marked
  <2>. QED
    BY <1>1, <1>3, <1>4
<1>. HIDE DEF kept, persist, ids
<1>. QED
  BY <1>2, <1>5, GainedLedger DEF v

(* So are the steps an objective completes. *)
LEMMA MarkStepsCompletedLedger ==
    ASSUME HInv, Written, NEW t, Tabs = {t}, NEW sl \in Slots, NEW r \in Reasons,
           MarkStepsCompleted(t, sl, Roster[sl], r)
    PROVE  Written' /\ LedgerStep
<1>. DEFINE v == Opened(t, sl)
            new == Roster[sl] \ Completed(v)
            put == PutEntries(v, new, r)
            w == IF new = {} THEN v ELSE put
            persist == new # {}
<1>1. v \in SlotState /\ v.hydrated
  BY OpenedFollowed
<1>2. Store(t, sl, w, persist) /\ UNCHANGED <<resetting, wiped>> /\ persist \in BOOLEAN
  BY DEF MarkStepsCompleted, Opened
<1>3. /\ new \in SUBSET Steps /\ Completed(v) \cup new = Completed(v) \cup Roster[sl]
      /\ Roster[sl] \in SUBSET Steps
  BY ConstantsOK
<1>. HIDE DEF v
<1>. HIDE DEF new
<1>4. /\ put \in SlotState /\ Completed(put) = Completed(v) \cup new
      /\ put.hydrated /\ put.reading = v.reading /\ put.snap = v.snap
      /\ put.tracking = v.tracking
  BY <1>1, <1>3, PutEntriesFacts
<1>. HIDE DEF put
<1>5. new = {} => Completed(v) = Completed(v) \cup Roster[sl]
  BY <1>3
<1>6. /\ w \in SlotState /\ Completed(w) = Completed(v) \cup Roster[sl]
      /\ w.hydrated /\ w.reading = v.reading /\ w.snap = v.snap /\ w.tracking = v.tracking
  BY <1>1, <1>3, <1>4, <1>5
<1>. HIDE DEF w, persist
<1>. QED
  BY <1>2, <1>3, <1>6, GainedLedger DEF v

(* A bucket that loses ids shows them no more, but for those a deaf read    *)
(* brings back, and the read withholds what it was to bring of them.        *)
LEMMA LostLedger ==
    ASSUME HInv, Written, NEW t, Tabs = {t}, NEW sl \in Slots, NEW ids \in SUBSET Steps,
           NEW w \in SlotState, NEW persist \in BOOLEAN,
           tab[t][sl].hydrated, w.hydrated, w.reading = tab[t][sl].reading,
           w.snap = tab[t][sl].snap, Deaf(w) <=> Deaf(tab[t][sl]),
           Completed(w) = Completed(tab[t][sl]) \ ids,
           Arriving(w) \subseteq Arriving(tab[t][sl]),
           Arriving(tab[t][sl]) \ ids \subseteq Arriving(w),
           Deaf(tab[t][sl]) \/ Arriving(w) \cap ids = {},
           Arriving(tab[t][sl]) \subseteq tab[t][sl].snap,
           Arriving(tab[t][sl]) # {} => tab[t][sl].reading,
           persist \/ Completed(tab[t][sl]) \cap ids = {},
           Store(t, sl, w, persist), UNCHANGED <<resetting, wiped>>
    PROVE  Written' /\ LedgerStep
<1>. DEFINE u == tab[t][sl]
            gone == ids \ Arriving(w)
            kept == (Arriving(u) \cap ids) \ Arriving(w)
            after == ShownBy(w, StoredAfter(sl, w, persist))
<1>1. persist \/ Completed(u) \subseteq Completed(w)
  OBVIOUS
<1>2. /\ after = ShownBy(u, storage[sl]) \ gone
      /\ ~Deaf(u) => gone = ids
      /\ kept \subseteq ShownBy(u, storage[sl]) \cap ids
      /\ WithheldBy(w) = WithheldBy(u) \cup kept
  <2>1. after = Completed(w) \cup Arriving(w)
        /\ ShownBy(u, storage[sl]) = Completed(u) \cup Arriving(u)
    BY DEF ShownBy
  <2>2. WithheldBy(w) = WithheldBy(u) \cup kept
    <3>1. CASE u.reading
      <4>1. WithheldBy(w) = u.snap \ Arriving(w) /\ WithheldBy(u) = u.snap \ Arriving(u)
        BY <3>1 DEF WithheldBy
      <4>. QED
        BY <4>1
    <3>2. CASE ~u.reading
      <4>1. WithheldBy(w) = {} /\ WithheldBy(u) = {} /\ kept = {}
        BY <3>2 DEF WithheldBy
      <4>. QED
        BY <4>1
    <3>. QED
      BY <3>1, <3>2
  <2>. HIDE DEF u, after
  <2>. QED
    BY <2>1, <2>2 DEF u
<1>3. /\ Written' /\ UNCHANGED <<Deafened, Clearing>>
      /\ sl \notin Ledgered => UNCHANGED LedgerVars
      /\ ShownSteps' = [ShownSteps EXCEPT ![sl] = after]
      /\ WithheldSteps' = [WithheldSteps EXCEPT ![sl] = WithheldBy(w)]
  BY <1>1, StoreLedger DEF LedgerVars
<1>4. CASE sl \in Ledgered
  <2>1. /\ ShownSteps[sl] = ShownBy(u, storage[sl]) /\ WithheldSteps[sl] = WithheldBy(u)
        /\ sl \in Deafened <=> Deaf(u)
    BY <1>4, LedgerReads
  <2>. HIDE DEF u, gone, kept, after
  <2>2. /\ gone \in SUBSET ids /\ kept \in SUBSET (ShownSteps[sl] \cap ids)
        /\ sl \notin Deafened => gone = ids
    BY <1>2, <2>1 DEF gone
  <2>3. /\ ShownSteps' = [ShownSteps EXCEPT ![sl] = ShownSteps[sl] \ gone]
        /\ WithheldSteps' = [WithheldSteps EXCEPT ![sl] = WithheldSteps[sl] \cup kept]
    BY <1>2, <1>3, <2>1
  <2>4. Ledger!Reset(sl, ids)
    BY <1>3, <2>2, <2>3 DEF Ledger!Reset, Ledger!Shows
  <2>. QED
    BY <1>3, <1>4, <2>4 DEF LedgerStep, Ledger!Next
<1>. QED
  BY <1>3, <1>4, LedgerStutter

(* What a live read is to bring is in its snapshot. *)
LEMMA ArrivingFacts ==
    ASSUME NEW v \in SlotState
    PROVE  /\ Arriving(v) \subseteq v.snap
           /\ Arriving(v) # {} => v.reading
           /\ v.tracking.kind = "all" => Arriving(v) = {}
BY DEF Arriving, Fetched

(* Steps that are reset are shown no more: deleted, or left to the read,    *)
(* which has noted them.                                                    *)
LEMMA ResetStepsLedger ==
    ASSUME HInv, Written, NEW t, Tabs = {t}, NEW sl \in Slots, NEW ids \in SUBSET Steps,
           tab[t][sl].hydrated, ResetSteps(t, sl, ids)
    PROVE  Written' /\ LedgerStep
<1>. DEFINE u == tab[t][sl]
            v == NoteHydrationClear(u, ids)
            gone == ids \cap Completed(v)
            w == IF gone = {} THEN v ELSE DeleteEntries(v, gone)
            persist == gone # {}
<1>1. u \in SlotState /\ u.tracking \in Tracking /\ ReadFacts(u, Roster[sl])
  BY DEF HInv, IInv, TypeOK, SlotState, Followed
<1>2. /\ v \in SlotState /\ Completed(v) = Completed(u) /\ v.hydrated
      /\ v.reading = u.reading /\ v.snap = u.snap /\ v.tracking.kind = u.tracking.kind
      /\ u.tracking.kind = "ids" => Arriving(v) = Arriving(u) \ ids
      /\ u.tracking.kind # "ids" => v = u
  BY <1>1, NoteClearFacts, NoteClearArriving
<1>3. Store(t, sl, w, persist) /\ UNCHANGED <<resetting, wiped>> /\ persist \in BOOLEAN
  BY DEF ResetSteps
<1>. HIDE DEF v
<1>4. /\ w \in SlotState /\ Completed(w) = Completed(u) \ ids /\ w.hydrated
      /\ w.reading = u.reading /\ w.snap = u.snap /\ w.tracking = v.tracking
  BY <1>2, DeleteEntriesFacts
<1>5. Arriving(w) = Arriving(v) /\ (Deaf(w) <=> Deaf(u))
  BY <1>2, <1>4 DEF Arriving, Fetched, Deaf
<1>6. persist \/ Completed(u) \cap ids = {}
  BY <1>2
<1>. HIDE DEF w, gone, persist, u
<1>7. /\ Arriving(u) \subseteq u.snap /\ (Arriving(u) # {} => u.reading)
      /\ u.tracking.kind = "all" => Arriving(u) = {}
  BY <1>1, ArrivingFacts
<1>8. /\ Arriving(w) \subseteq Arriving(u) /\ Arriving(u) \ ids \subseteq Arriving(w)
      /\ Deaf(u) \/ Arriving(w) \cap ids = {}
  <2>1. CASE u.tracking.kind = "ids"
    BY <1>2, <1>5, <2>1
  <2>2. CASE u.tracking.kind # "ids"
    <3>1. Arriving(w) = Arriving(u)
      BY <1>2, <1>5, <2>2
    <3>2. Deaf(u) \/ Arriving(u) = {}
      BY <1>1, <1>7, <2>2 DEF Deaf, Tracking, Untracked, ClearedAll
    <3>. QED
      BY <3>1, <3>2
  <2>. QED
    BY <2>1, <2>2
<1>. QED
  BY <1>3, <1>4, <1>5, <1>6, <1>7, <1>8, LostLedger DEF u

(* So are all the steps of a section. *)
LEMMA ResetSectionLedger ==
    ASSUME HInv, Written, NEW t, Tabs = {t}, NEW sl \in Slots,
           tab[t][sl].hydrated, ResetSection(t, sl)
    PROVE  Written' /\ LedgerStep
<1>. DEFINE u == tab[t][sl]
            v == NoteHydrationClearAll(u)
            had == Completed(v) # {}
            pending == v.tracking.kind # "none"
            w == IF had THEN DeleteEntries(v, Steps) ELSE v
            persist == had \/ pending
            ids == Steps
<1>1. u \in SlotState /\ u.tracking \in Tracking /\ ReadFacts(u, Roster[sl])
      /\ u.snap \in SUBSET Steps
  BY DEF HInv, IInv, TypeOK, SlotState, Followed
<1>2. /\ v \in SlotState /\ Completed(v) = Completed(u) /\ v.hydrated
      /\ v.reading = u.reading /\ v.snap = u.snap
      /\ u.tracking.kind = "none" => v = u
      /\ u.tracking.kind # "none" => v.tracking.kind = "all"
  <2>1. CASE u.tracking.kind = "ids"
    BY <1>1, <2>1, NoteClearAllFacts DEF NoteHydrationClearAll, ClearedAll, SlotState
  <2>2. CASE u.tracking.kind # "ids"
    BY <1>1, <2>2 DEF NoteHydrationClearAll, Tracking, Untracked, ClearedAll
  <2>. QED
    BY <2>1, <2>2
<1>3. Store(t, sl, w, persist) /\ UNCHANGED <<resetting, wiped>> /\ persist \in BOOLEAN
  BY DEF ResetSection
<1>. HIDE DEF v
<1>4. /\ w \in SlotState /\ Completed(w) = {} /\ w.hydrated
      /\ w.reading = u.reading /\ w.snap = u.snap /\ w.tracking = v.tracking
  BY <1>2, DeleteEntriesFacts DEF Completed
<1>5. Completed(u) \subseteq ids
  BY DEF Completed
<1>6. persist \/ Completed(u) \cap ids = {}
  BY <1>2
<1>. HIDE DEF w, had, pending, persist, u, ids
<1>7. /\ Arriving(u) \subseteq u.snap /\ (Arriving(u) # {} => u.reading)
      /\ Arriving(u) \subseteq Steps
  BY <1>1, ArrivingFacts
<1>8. CASE u.tracking.kind = "none"
  <2>1. Arriving(w) = Arriving(u) /\ (Deaf(w) <=> Deaf(u))
    BY <1>2, <1>4, <1>8 DEF Arriving, Fetched, Deaf
  <2>2. Deaf(u) \/ Arriving(u) = {}
    BY <1>7, <1>8 DEF Deaf
  <2>3. /\ Arriving(w) \subseteq Arriving(u) /\ Arriving(u) \ ids \subseteq Arriving(w)
        /\ Deaf(u) \/ Arriving(w) \cap ids = {}
    BY <2>1, <2>2
  <2>4. Completed(w) = Completed(u) \ ids /\ ids \in SUBSET Steps
    BY <1>4, <1>5 DEF ids
  <2>. QED
    BY <1>3, <1>4, <1>6, <1>7, <2>1, <2>3, <2>4, LostLedger DEF u
<1>9. CASE u.tracking.kind # "none"
  <2>1. Arriving(w) = {} /\ ~Deaf(w) /\ ~Deaf(u)
    BY <1>2, <1>4, <1>9, ArrivingFacts DEF Deaf
  <2>2. /\ Arriving(w) \subseteq Arriving(u) /\ Arriving(u) \ ids \subseteq Arriving(w)
        /\ Deaf(u) \/ Arriving(w) \cap ids = {}
    BY <1>7, <2>1 DEF ids
  <2>3. Completed(w) = Completed(u) \ ids /\ ids \in SUBSET Steps
    BY <1>4, <1>5 DEF ids
  <2>. QED
    BY <1>3, <1>4, <1>6, <1>7, <2>1, <2>2, <2>3, LostLedger DEF u
<1>. QED
  BY <1>8, <1>9

(* A section shows the orphans it is reconciled without no more. *)
LEMMA ReconcileSectionLedger ==
    ASSUME HInv, Written, NEW t, Tabs = {t}, NEW sl \in Slots, ReconcileSection(t, sl)
    PROVE  Written' /\ LedgerStep
<1>. DEFINE u == tab[t][sl]
            v == Opened(t, sl)
            orphaned == Completed(v) \ Roster[sl]
            w == IF orphaned = {} THEN v ELSE DeleteEntries(v, orphaned)
            persist == orphaned # {}
            after == ShownBy(w, StoredAfter(sl, w, persist))
<1>1. /\ v \in SlotState /\ v.hydrated /\ Completed(v) = Completed(u)
      /\ ReadFacts(v, Roster[sl])
      /\ Completed(v) \cup Arriving(v) = ShownBy(u, storage[sl])
      /\ WithheldBy(v) = WithheldBy(u)
      /\ (Deaf(v) <=> Deaf(u))
  BY OpenedLedger
<1>2. Store(t, sl, w, persist) /\ UNCHANGED <<resetting, wiped>> /\ persist \in BOOLEAN
  BY DEF ReconcileSection, Opened
<1>3. orphaned \in SUBSET (Steps \ Roster[sl])
  BY DEF Completed
<1>. HIDE DEF v
<1>4. /\ w \in SlotState /\ Completed(w) = Completed(v) \ orphaned /\ w.hydrated
      /\ w.reading = v.reading /\ w.snap = v.snap /\ w.tracking = v.tracking
  BY <1>1, <1>3, DeleteEntriesFacts
<1>5. /\ Arriving(w) = Arriving(v) /\ WithheldBy(w) = WithheldBy(v)
      /\ (Deaf(w) <=> Deaf(v))
  BY <1>4 DEF Arriving, Fetched, WithheldBy, Deaf
<1>6. orphaned # {} => Arriving(v) = {}
  BY <1>1 DEF ReadFacts, Fetched, Arriving
<1>7. persist \/ Completed(u) \subseteq Completed(w)
  BY <1>1, <1>4
<1>. HIDE DEF w, persist, orphaned
<1>8. after = ShownBy(u, storage[sl]) \ orphaned
  <2>1. after = Completed(w) \cup Arriving(w)
    BY <1>4 DEF ShownBy
  <2>. HIDE DEF after, u
  <2>. QED
    BY <1>1, <1>4, <1>5, <1>6, <2>1
<1>9. /\ Written' /\ UNCHANGED <<WithheldSteps, Deafened, Clearing>>
      /\ sl \notin Ledgered => UNCHANGED LedgerVars
      /\ ShownSteps' = [ShownSteps EXCEPT ![sl] = ShownBy(u, storage[sl]) \ orphaned]
  BY <1>1, <1>2, <1>4, <1>5, <1>7, <1>8, StoreLedger DEF LedgerVars
<1>10. CASE sl \in Ledgered
  <2>1. ShownSteps[sl] = ShownBy(u, storage[sl])
    BY <1>10, LedgerReads
  <2>2. Ledger!Reconcile(sl)
    BY <1>3, <1>9, <2>1 DEF Ledger!Reconcile, Ledger!Shows
  <2>. QED
    BY <1>9, <1>10, <2>2 DEF LedgerStep, Ledger!Next
<1>. QED
  BY <1>9, <1>10, LedgerStutter

(* What a section shows are steps. *)
LEMMA ShownType ==
    ASSUME HInv, NEW t \in Tabs, NEW sl \in Slots
    PROVE  ShownBy(tab[t][sl], storage[sl]) \in SUBSET Steps
<1>1. tab[t][sl] \in SlotState /\ storage[sl] \in SUBSET Steps
  BY DEF HInv, IInv, TypeOK
<1>2. tab[t][sl].snap \in SUBSET Steps /\ Arriving(tab[t][sl]) \subseteq tab[t][sl].snap
  BY <1>1, ArrivingFacts DEF SlotState
<1>. QED
  BY <1>1, <1>2 DEF ShownBy, Completed

(* A guide reset takes the steps of the sections that hold them in storage only. *)
LEMMA ClearAllForContentLedger ==
    ASSUME HInv, Written, NEW t, Tabs = {t}, NEW keys \in SUBSET ContentKeys,
           ClearAllForContent(t, keys)
    PROVE  Written' /\ LedgerStep
<1>. DEFINE cleared == {x \in Ledgered : KeyOf[x] \in keys}
            lost == {x \in cleared : ~tab[t][x].hydrated}
<1>1. /\ resetting[t] = {} /\ resetting'[t] = keys /\ UNCHANGED tab
      /\ storage' = [sl \in Slots |->
                       IF \E k \in keys : sl \in SlotsUnder(k) THEN {} ELSE storage[sl]]
  BY DEF ClearAllForContent, WriteStorage, HInv, IInv, TypeOK
<1>2. ASSUME NEW x \in Ledgered
      PROVE  storage'[x] = IF x \in cleared THEN {} ELSE storage[x]
  <2>1. x \in Slots /\ Unshadowed(x) /\ <<KeyOf[x], KeyOf[x]>> \in Prefix
    BY ConstantsOK DEF Ledgered
  <2>2. (\E k \in keys : x \in SlotsUnder(k)) <=> KeyOf[x] \in keys
    BY <2>1 DEF SlotsUnder, Unshadowed
  <2>. QED
    BY <1>1, <2>1, <2>2
<1>3. Clearing = {} /\ Clearing' = cleared
  BY <1>1, LedgerParts
<1>4. Written'
  BY <1>1, <1>2 DEF Written, Halfway, Ledgered, Unshadowed
<1>5. UNCHANGED <<WithheldSteps, Deafened>>
  BY <1>1, LedgerParts
<1>6. \A x \in Ledgered : ShownBy(tab'[t][x], storage'[x]) =
                             IF x \in lost THEN {} ELSE ShownBy(tab[t][x], storage[x])
  BY <1>1, <1>2 DEF ShownBy
<1>. HIDE DEF lost, cleared
<1>7. ShownSteps' = [x \in Ledgered |-> IF x \in lost THEN {} ELSE ShownSteps[x]]
  BY <1>6, LedgerParts
<1>8. cleared \in SUBSET Ledgered /\ lost \in SUBSET cleared
  BY DEF cleared, lost
<1>9. Ledger!BeginGuideReset(cleared)
  BY <1>3, <1>5, <1>7, <1>8 DEF Ledger!BeginGuideReset
<1>. QED
  BY <1>4, <1>8, <1>9 DEF LedgerStep, Ledger!Next

(* A guide reset ends, or its page is left: sections show what is stored,   *)
(* which others showed before.                                              *)
LEMMA GuideResetEnds ==
    ASSUME HInv, Written, NEW t, Tabs = {t},
           resetting'[t] = {}, UNCHANGED storage,
           \A x \in Ledgered : tab'[t][x].reading => x \notin Clearing,
           \A x \in Ledgered : x \in Clearing => ~tab'[t][x].hydrated,
           \A x \in Ledgered \ Clearing :
              /\ ShownBy(tab'[t][x], storage[x]) = ShownBy(tab[t][x], storage[x])
              /\ WithheldBy(tab'[t][x]) = WithheldBy(tab[t][x])
              /\ Deaf(tab'[t][x]) <=> Deaf(tab[t][x])
    PROVE  Written' /\ LedgerStep
<1>1. Written' /\ Clearing' = {}
  BY LedgerParts DEF Written, Halfway
<1>2. ASSUME NEW x \in Ledgered
      PROVE  /\ ShownSteps[x] \in SUBSET Steps
             /\ ShownSteps'[x] \subseteq ShownSteps[x]
             /\ x \notin Clearing => ShownSteps'[x] = ShownSteps[x]
  <2>1. x \in Slots /\ ShownSteps[x] = ShownBy(tab[t][x], storage[x])
        /\ (x \in Clearing => Halfway(t, x))
    BY LedgerReads
  <2>2. ShownSteps'[x] = ShownBy(tab'[t][x], storage[x])
    BY LedgerParts
  <2>3. CASE x \in Clearing
    <3>1. ShownSteps'[x] = storage[x] /\ storage[x] \subseteq Completed(tab[t][x])
      BY <2>1, <2>2, <2>3 DEF ShownBy, Written
    <3>. QED
      BY <2>1, <2>3, <3>1, ShownType DEF ShownBy
  <2>4. CASE x \notin Clearing
    BY <2>1, <2>2, <2>4, ShownType
  <2>. QED
    BY <2>3, <2>4
<1>3. ShownSteps' \in [Ledgered -> SUBSET Steps]
  <2>1. ShownSteps' = [x \in Ledgered |-> ShownSteps'[x]]
    BY LedgerParts
  <2>. QED
    BY <1>2, <2>1
<1>4. WithheldSteps' = [x \in Ledgered |-> IF x \in Clearing THEN {} ELSE WithheldSteps[x]]
  <2>1. WithheldSteps' = [x \in Ledgered |-> WithheldBy(tab'[t][x])]
    BY LedgerParts
  <2>2. \A x \in Ledgered : WithheldSteps[x] = WithheldBy(tab[t][x])
    BY LedgerReads
  <2>3. \A x \in Ledgered :
          WithheldBy(tab'[t][x]) = IF x \in Clearing THEN {} ELSE WithheldSteps[x]
    BY <2>2 DEF WithheldBy
  <2>. QED
    BY <2>1, <2>3
<1>5. Deafened' = Deafened \ Clearing
  <2>1. \A x \in Clearing : x \in Ledgered => ~Deaf(tab'[t][x])
    BY DEF Deaf
  <2>. QED
    BY <2>1, LedgerParts
<1>6. Ledger!EndGuideReset
  BY <1>1, <1>2, <1>3, <1>4, <1>5 DEF Ledger!EndGuideReset
<1>. QED
  BY <1>1, <1>6 DEF LedgerStep, Ledger!Next

(* Evicting the guide that was reset ends its reset. *)
LEMMA EvictContentCacheLedger ==
    ASSUME HInv, Written, NEW t, Tabs = {t}, EvictContentCache(t)
    PROVE  Written' /\ LedgerStep
<1>. DEFINE evicted == {sl \in Slots : KeyOf[sl] \in resetting[t]}
<1>1. /\ \A x \in Slots : tab'[t][x] = IF x \in evicted THEN Evict(tab[t][x]) ELSE tab[t][x]
      /\ resetting'[t] = {} /\ UNCHANGED storage
  BY DEF EvictContentCache, EvictSlots, HInv, IInv, TypeOK
<1>2. \A x \in Ledgered : x \in Slots /\ (x \in Clearing <=> x \in evicted)
  BY LedgerReads DEF Halfway
<1>3. \A x \in Slots : ~Evict(tab[t][x]).hydrated /\ ~Evict(tab[t][x]).reading
  BY EvictFacts DEF HInv, IInv, TypeOK
<1>. HIDE DEF evicted
<1>4. \A x \in Ledgered : x \in Clearing => ~tab'[t][x].hydrated /\ ~tab'[t][x].reading
  BY <1>1, <1>2, <1>3
<1>5. \A x \in Ledgered \ Clearing : tab'[t][x] = tab[t][x]
  BY <1>1, <1>2
<1>. QED
  BY <1>1, <1>4, <1>5, GuideResetEnds

(* Leaving the page loses nothing but what a reset under way had cleared. *)
LEMMA ReloadLedger ==
    ASSUME HInv, Written, NEW t, Tabs = {t}, ~SlowReads, Reload(t)
    PROVE  Written' /\ LedgerStep
<1>1. /\ \A x \in Slots : tab'[t][x] = EmptySlot /\ ~tab[t][x].reading
      /\ resetting'[t] = {} /\ UNCHANGED storage
  BY DEF Reload, TaskMayStart, Settled, HInv, IInv, TypeOK
<1>2. ~EmptySlot.hydrated /\ ~EmptySlot.reading
  BY EmptySlotFacts
<1>3. ASSUME NEW x \in Ledgered \ Clearing
      PROVE  /\ ShownBy(tab'[t][x], storage[x]) = ShownBy(tab[t][x], storage[x])
             /\ WithheldBy(tab'[t][x]) = WithheldBy(tab[t][x])
             /\ Deaf(tab'[t][x]) <=> Deaf(tab[t][x])
  <2>1. x \in Slots /\ Persisted(x) /\ ~Halfway(t, x)
    BY LedgerReads
  <2>2. tab[t][x].hydrated => Completed(tab[t][x]) = storage[x]
    BY <1>1, <2>1 DEF HInv, IInv, Coherent, Agrees, Undisturbed, Halfway, Alone
  <2>3. Arriving(tab[t][x]) = {}
    BY <1>1, <2>1 DEF Arriving, Fetched
  <2>4. tab'[t][x] = EmptySlot /\ ~tab[t][x].reading
    BY <1>1, <2>1
  <2>5. ShownBy(tab'[t][x], storage[x]) = ShownBy(tab[t][x], storage[x])
    BY <1>2, <2>2, <2>3, <2>4 DEF ShownBy
  <2>. QED
    BY <1>2, <2>4, <2>5 DEF WithheldBy, Deaf
<1>4. \A x \in Ledgered : x \in Slots /\ ~tab'[t][x].hydrated /\ ~tab'[t][x].reading
  BY <1>1, <1>2 DEF Ledgered
<1>. QED
  BY <1>1, <1>3, <1>4, GuideResetEnds

(* A page that loads shows what is stored, and withholds nothing. *)
LEMMA HInitLedger ==
    ASSUME HInit, NEW t, Tabs = {t}
    PROVE  Written /\ Ledger!Init
<1>1. HInv
  BY HInitInvariant
<1>2. \A x \in Slots : tab[t][x] = EmptySlot /\ ~EmptySlot.reading
  BY EmptySlotFacts DEF HInit, Init
<1>3. resetting[t] = {}
  BY DEF HInit, Init
<1>4. Written
  BY <1>3 DEF Written, Halfway
<1>5. /\ WithheldSteps = [x \in Ledgered |-> {}] /\ Deafened = {} /\ Clearing = {}
  <2>1. \A x \in Ledgered : WithheldBy(tab[t][x]) = {} /\ ~Deaf(tab[t][x])
    BY <1>2 DEF Ledgered, WithheldBy, Deaf
  <2>. QED
    BY <1>3, <2>1, LedgerParts
<1>6. ShownSteps \in [Ledgered -> SUBSET Steps]
  <2>1. \A x \in Ledgered : ShownBy(tab[t][x], storage[x]) \in SUBSET Steps
    BY <1>1, ShownType DEF Ledgered
  <2>. QED
    BY <2>1, LedgerParts
<1>. QED
  BY <1>4, <1>5, <1>6 DEF Ledger!Init

(* Every step of the only tab is a step of the ledger or a stutter. *)
LEMMA HNextLedger ==
    ASSUME NEW t, Tabs = {t}, ~SlowReads, HInv, Written, [HNext]_hvars
    PROVE  Written' /\ LedgerStep
<1>1. IInv'
  BY HNextIsNext, NextInvariant DEF HInv
<1>2. CASE UNCHANGED <<storage, tab, resetting>>
  <2>1. Written'
    BY <1>2 DEF Written, Halfway, Ledgered, Unshadowed, Completed
  <2>2. UNCHANGED LedgerVars
    BY <1>2, LedgerParts DEF LedgerVars
  <2>. QED
    BY <2>1, <2>2, LedgerStutter
<1>3. ASSUME NEW sl \in Slots,
             \/ Render(t, sl) \/ ResolveRead(t, sl) \/ DropStaleRead(t, sl)
             \/ \E s \in Steps, r \in Reasons \ {NoReason} : MarkStepCompleted(t, sl, s, r)
             \/ \E r \in Reasons \ {NoReason, Skipped} :
                   MarkStepsCompleted(t, sl, Roster[sl], r)
      PROVE  Written' /\ LedgerStep
  BY <1>1, <1>3, RenderLedger, ResolveReadLedger, DropStaleReadLedger,
     MarkStepCompletedLedger, MarkStepsCompletedLedger
<1>4. ASSUME NEW sl \in Slots,
             \/ \E ids \in SUBSET Steps : tab[t][sl].hydrated /\ ResetSteps(t, sl, ids)
             \/ tab[t][sl].hydrated /\ ResetSection(t, sl)
             \/ ReconcileSection(t, sl)
      PROVE  Written' /\ LedgerStep
  BY <1>4, ResetStepsLedger, ResetSectionLedger, ReconcileSectionLedger
<1>5. (\A sl \in Slots : ~HandleStorageEvent(t, sl)) /\ ~HandleWipeEvent(t)
  BY DEF HandleStorageEvent, HandleWipeEvent, HInv, Alone
<1>6. ASSUME NEW k \in Counted, CountAllCompleted(t, k)
      PROVE  Written' /\ LedgerStep
  BY <1>2, <1>6 DEF CountAllCompleted
<1>7. ASSUME NEW keys \in SUBSET ContentKeys, ClearAllForContent(t, keys)
      PROVE  Written' /\ LedgerStep
  BY <1>7, ClearAllForContentLedger
<1>8. ASSUME EvictContentCache(t) \/ Reload(t)
      PROVE  Written' /\ LedgerStep
  BY <1>8, EvictContentCacheLedger, ReloadLedger
<1>9. UNCHANGED hvars => UNCHANGED <<storage, tab, resetting>>
  BY DEF hvars, vars
<1>. QED
  BY <1>2, <1>3, <1>4, <1>5, <1>6, <1>7, <1>8, <1>9 DEF HNext

(* Refinement: in one tab whose reads end within their task, the completion *)
(* store is a ledger of completed steps.  What a section shows changes by   *)
(* completing, resetting and reconciling, by the reset of its guide, and    *)
(* when an older read's `.then` makes a read forget resets, and else never. *)
THEOREM ShownOnlyByCommand ==
    ASSUME NEW t, Tabs = {t}, ~SlowReads
    PROVE  HSpec => ShownByCommand
<1>1. HInit => Written /\ Ledger!Init
  BY HInitLedger
<1>2. HInv /\ Written /\ [HNext]_hvars
      => Written' /\ [Ledger!Next]_<<ShownSteps, WithheldSteps, Deafened, Clearing>>
  BY HNextLedger DEF LedgerStep, LedgerVars
<1>3. Ledger!ledger = <<ShownSteps, WithheldSteps, Deafened, Clearing>>
  BY DEF Ledger!ledger
<1>. QED
  BY <1>1, <1>2, <1>3, HistoryInvariance, PTL
     DEF HSpec, ShownByCommand, Ledger!Spec, Ledger!ledger
=============================================================================
